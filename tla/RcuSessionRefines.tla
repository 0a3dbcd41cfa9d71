------------------------- MODULE RcuSessionRefines -------------------------
(* RcuSession implements the safety part of FreeboxSession: every step of  *)
(* the three threads is a step of the session MainActivity relies on, or   *)
(* one it does not see.  And what KeyInput takes a key to do to the box is *)
(* what the keys accepted by RcuSession do to it.                          *)
EXTENDS RcuSessionProofs

USE DEF sessionVars, uiVars, keyVars, looperVars, readerVars, screenVars

(* What a step must do to be a step of the abstract session, or none.      *)
SessionUnseen == UNCHANGED <<Phase, posted, mConnected>>

(* The Rcu object exists from Freebox.connect until the end of disconnect. *)
LEMMA RcuLives ==
  ASSUME TypeOK, LiveInv
  PROVE  /\ live # {} => "rcu" \in live
         /\ ui # "idle" => "rcu" \in live
         /\ reader # "none" => "rcu" \in live
BY DEF LiveInv, Objects, TypeOK, ControlTypeOK, Disconnecting

(* A step that neither opens nor ends the session, and leaves the status   *)
(* thread and the texts alone, is not seen.                                *)
LEMMA Unseen ==
  ASSUME UNCHANGED <<posted, mConnected>>,
         "rcu" \in live <=> "rcu" \in live',
         reader = "done" <=> reader' = "done",
         ui \in Disconnecting <=> ui' \in Disconnecting
  PROVE  SessionUnseen
BY DEF SessionUnseen, Phase

(* Steps of a session at an address that Rcu::Connect accepts.             *)
LEMMA LiveRefines ==
  ASSUME TypeOK, LiveInv, ReaderInv, [Next]_vars, ~Connect("unparsable")
  PROVE  Session!Next \/ SessionUnseen
<1> USE RcuLives
<1>1. CASE Connect("numeric")
  <2>1. Phase = "closed" /\ Phase' = "open"
    BY <1>1 DEF Connect, Phase, LiveInv, Objects, Disconnecting
  <2> QED BY <1>1, <2>1 DEF Connect, Session!Next, Session!Open
<1>2. CASE BeginDisconnect
  <2>1. Phase = "open" /\ Phase' = "closing"
    BY <1>2 DEF BeginDisconnect, Phase, ReaderInv, StatusClosed, Disconnecting
  <2> QED BY <1>2, <2>1 DEF BeginDisconnect, Session!Next, Session!Close
<1>3. CASE JoinReader
  <2>1. Phase = "ended" /\ Phase' = "closed"
    BY <1>3 DEF JoinReader, ReaderJoined, Phase
  <2> QED BY <1>3, <2>1 DEF JoinReader, Session!Next, Session!Return
<1>4. CASE Deliver
  <2>1. Phase \in {"closed", "open"} /\ Phase' = Phase
    BY <1>4 DEF Deliver, Phase, ReaderInv, StatusClosed, Disconnecting
  <2> QED
    BY <1>4, <2>1 DEF Deliver, ConnectedBy, Session!Next, Session!Deliver
<1>5. CASE PostStatus
  <2>1. CASE text = "EXIT"
    <3>1. Phase = "closing" /\ Phase' = "ended"
      BY <1>5, <2>1 DEF PostStatus, Phase, ReaderInv, StatusClosed, Disconnecting
    <3> QED
      BY <1>5, <2>1, <3>1 DEF PostStatus, PostText, Session!Next, Session!Exit
  <2>2. CASE text # "EXIT"
    <3>1. Phase \in {"open", "closing"} /\ Phase' = Phase
      BY <1>5, <2>2 DEF PostStatus, Phase
    <3>2. text \in Texts
      BY <1>5, <2>2 DEF PostStatus, TypeOK, StatusTypeOK
    <3>3. Session!Report(text)
      BY <1>5, <3>1 DEF PostStatus, PostText, Session!Report
    <3> QED BY <3>2, <3>3 DEF Session!Next
  <2> QED BY <2>1, <2>2
<1>6. ASSUME StartReader \/ WriteKey \/ (\E key \in Keys : SendKey(key))
      PROVE  SessionUnseen
  <2>1. UNCHANGED <<posted, mConnected>> /\ live' = live
    BY <1>6 DEF StartReader, WriteKey, SendKey
  <2>2. ui \notin Disconnecting /\ ui' \notin Disconnecting
    BY <1>6 DEF StartReader, WriteKey, SendKey, Disconnecting
  <2>3. reader # "done" /\ reader' # "done"
    BY <1>6 DEF StartReader, WriteKey, SendKey, ReaderInv, StatusClosed
  <2> QED BY <2>1, <2>2, <2>3, Unseen
<1>7. ASSUME WriteClose \/ JoinLooper \/ CloseStatus \/ Deinit
               \/ NotifyInDeinit \/ Free
      PROVE  SessionUnseen
  <2>1. UNCHANGED <<posted, mConnected, reader>>
    BY <1>7 DEF WriteClose, JoinLooper, CloseStatus, Deinit, NotifyInDeinit, Free
  <2>2. ui \in Disconnecting /\ ui' \in Disconnecting
    BY <1>7 DEF WriteClose, JoinLooper, CloseStatus, Deinit, NotifyInDeinit,
                Free, Disconnecting
  <2>3. "rcu" \in live /\ "rcu" \in live'
    BY <1>7 DEF WriteClose, JoinLooper, CloseStatus, Deinit, NotifyInDeinit, Free
  <2> QED BY <2>1, <2>2, <2>3, Unseen
<1>8. ASSUME LooperNext \/ ReadStatus PROVE SessionUnseen
  <2>1. UNCHANGED <<posted, mConnected, live, ui>>
    BY <1>8 DEF LooperNext, OnKeyAvailable, OnKeyRelease, OnStatus, WriteStatus,
                LooperReturn, ReadStatus
  <2>2. reader = "done" <=> reader' = "done"
    BY <1>8 DEF LooperNext, OnKeyAvailable, OnKeyRelease, OnStatus, WriteStatus,
                LooperReturn, ReadStatus
  <2> QED BY <2>1, <2>2, Unseen
<1>9. ASSUME Fault \/ UNCHANGED vars PROVE SessionUnseen
  BY <1>9, Unseen DEF Fault, vars
<1> QED
  BY <1>1, <1>2, <1>3, <1>4, <1>5, <1>6, <1>7, <1>8, <1>9, SessionAssumption
  DEF Next, UiNext, ReaderNext

(* Steps of a session at an address that Rcu::Connect rejects.             *)
LEMMA StuckRefines ==
  ASSUME TypeOK, Stuck, [Next]_vars
  PROVE  Session!Next \/ SessionUnseen
<1> USE DEF Stuck
<1>1. CASE BeginDisconnect
  <2>1. Phase = "open" /\ Phase' = "closing"
    BY <1>1 DEF BeginDisconnect, Phase, Disconnecting
  <2> QED BY <1>1, <2>1 DEF BeginDisconnect, Session!Next, Session!Close
<1>2. CASE Deliver
  <2>1. Phase = "open" /\ Phase' = "open"
    BY <1>2 DEF Deliver, Phase, Disconnecting
  <2> QED
    BY <1>2, <2>1 DEF Deliver, ConnectedBy, Session!Next, Session!Deliver
<1>3. CASE StartReader
  BY <1>3, Unseen DEF StartReader, Disconnecting
<1>4. ASSUME Fault \/ UNCHANGED vars PROVE SessionUnseen
  BY <1>4, Unseen DEF Fault, vars
<1>5. ~LooperNext
  BY DEF LooperNext, OnKeyAvailable, OnKeyRelease, OnStatus, WriteStatus, LooperReturn
<1>6. ~ReaderNext
  BY DEF ReaderNext, ReadStatus, PostStatus, Alive, ReaderNeeds
<1>7. ~(\E address \in Addresses : Connect(address))
  BY DEF Connect
<1>8. ~(\E key \in Keys : SendKey(key))
  BY DEF SendKey
<1>9. ~(WriteKey \/ WriteClose \/ JoinLooper \/ CloseStatus \/ Deinit
          \/ NotifyInDeinit \/ Free)
  BY DEF WriteKey, WriteClose, JoinLooper, CloseStatus, Deinit, NotifyInDeinit,
         Free, Alive, UiNeeds
<1>10. ~JoinReader
  BY DEF JoinReader, ReaderJoined
<1> QED
  BY <1>1, <1>2, <1>3, <1>4, <1>5, <1>6, <1>7, <1>8, <1>9, <1>10
  DEF Next, UiNext

(* Initial states map to initial states, and steps to steps or stutters.    *)
LEMMA InitRefines == Init => Session!Init
BY DEF Init, Session!Init, Phase

(* Each step of a thread is a step of FreeboxSession or changes nothing of it. *)
LEMMA StepRefines == SessionInv /\ [Next]_vars => [Session!Next]_(Session!vars)
<1> SUFFICES ASSUME SessionInv, [Next]_vars
             PROVE  Session!Next \/ SessionUnseen
  BY DEF SessionUnseen, Session!vars
<1>1. CASE Stuck
  BY <1>1, StuckRefines DEF SessionInv
<1>2. CASE LiveInv /\ ReaderInv /\ ~Connect("unparsable")
  BY <1>2, LiveRefines DEF SessionInv
<1>3. CASE LiveInv /\ ReaderInv /\ Connect("unparsable")
  <2>1. Phase = "closed" /\ Phase' = "open"
    BY <1>3 DEF Connect, Phase, LiveInv, Objects, Disconnecting
  <2> QED BY <1>3, <2>1 DEF Connect, Session!Next, Session!Open
<1> QED BY <1>1, <1>2, <1>3 DEF SessionInv

(* What MainActivity relies on when it opens and closes sessions            *)
(* (MainActivity.java, Freebox.java): texts one by one while the session    *)
(* lasts, "EXIT" last, and nothing of it posted after disconnect returns.   *)
THEOREM SessionImplemented == SafeSpec => Session!SafeSpec
<1>1. Init /\ [][Next]_vars /\ []SessionInv
        => Session!Init /\ [][Session!Next]_(Session!vars)
  BY InitRefines, StepRefines, PTL
<1> QED BY <1>1, SessionInvariant, PTL DEF SafeSpec, Session!SafeSpec

-----------------------------------------------------------------------------
(* The box's side of the keys (KeyInput): a button is a report and a code, *)
(* and the box's report is left at the button of its last HID report.      *)
Buttons    == [report : ReportIds, code : KeyCodes]
ButtonIds  == {button.report : button \in Buttons}

(* Where in a row of HID reports the last one with this id is. *)
LastPlaces(reports, id) ==
  {i \in 1..Len(reports) :
     /\ reports[i][1] = id
     /\ \A j \in 1..Len(reports) : j > i => reports[j][1] # id}

ButtonOf(report) ==
  IF report[2] = 0 THEN "none" ELSE [report |-> report[1], code |-> report[2]]

(* What a row of HID reports leaves each id at. *)
LeftAt(reports) ==
  [id \in ButtonIds |->
     IF LastPlaces(reports, id) = {} THEN "none"
     ELSE ButtonOf(reports[CHOOSE i \in LastPlaces(reports, id) : TRUE])]

(* The box that keys go to, and what the keys accepted leave it at. *)
ActiveBox == IF "pressSource" \in live THEN "box" ELSE "none"

Left ==
  IF "pressSource" \in live THEN LeftAt(AllReports(accepted))
                            ELSE [id \in ButtonIds |-> "none"]

Input == INSTANCE KeyInput WITH
  Boxes <- {"box"}, Connectable <- {"box"},
  ClickKeys <- Buttons, TouchKeys <- Buttons, SpecialKeys <- {},
  ReportOf <- [button \in Buttons |-> button.report], Macros <- {},
  resumed <- TRUE, active <- ActiveBox, down <- Left,
  running <- FALSE, remaining <- <<>>, callbacks <- 0,
  held <- {}, forgotten <- {},
  macro <- <<>>, typed <- <<>>, macroBoxes <- {}, disturbed <- FALSE

(* What MainActivity takes a call of pressRcuKey or releaseRcuKey to do. *)
EffectOf(key) ==
  LET button == [report |-> key.report, code |-> key.code]
  IN  IF key.command = "KEY_PRESS" THEN Input!AfterPress(button)
      ELSE IF key.command = "KEY_RELEASE" THEN Input!AfterRelease(button)
      ELSE Input!AfterClick(button)

(* A key that is accepted has its effect, a session that begins or ends    *)
(* leaves no key down, and nothing else any thread does is of any effect.  *)
EffectStep ==
  IF WriteKey THEN ActiveBox' = ActiveBox /\ Left' = EffectOf(uiKey)
  ELSE IF ActiveBox' # ActiveBox THEN Left' = Input!AllUp
  ELSE Left' = Left

KeysHaveEffect == [][EffectStep]_vars

(* With no key on its way and no release pending, the box is left at what  *)
(* the calls make it.                                                      *)
BoxIsLeft ==
  ("pressSource" \in live /\ looperPipe = <<>> /\ pendingRelease = NoKey)
    => LeftAt(sent) = Left

(* One report more leaves its id at its button, the others as they were.   *)
LEMMA OneMoreReport ==
  ASSUME NEW q \in Seq(HidReports), NEW id \in ReportIds,
         NEW code \in KeyCodes \cup {0}
  PROVE  LeftAt(q \o <<<<id, code>>>>)
           = [LeftAt(q) EXCEPT ![id] = ButtonOf(<<id, code>>)]
<1> DEFINE e == <<id, code>>
           s == q \o <<e>>
           N == Len(q)
<1>1. e \in HidReports /\ e[1] = id /\ e[2] = code
  BY DEF HidReports
<1>2. /\ N \in Nat /\ Len(s) = N + 1 /\ s[N + 1] = e
      /\ \A i \in 1..N : s[i] = q[i]
  <2> HIDE DEF e
  <2>1. <<e>> \in Seq(HidReports) /\ Len(<<e>>) = 1 /\ <<e>>[1] = e
    BY <1>1
  <2>2. /\ s \in Seq(HidReports) /\ Len(s) = N + 1
        /\ \A i \in 1..Len(s) : s[i] = IF i <= N THEN q[i] ELSE <<e>>[i - N]
    BY <2>1, ConcatProperties
  <2>3. N \in Nat
    OBVIOUS
  <2> HIDE DEF s, N
  <2>4. N + 1 \in 1..Len(s) /\ ~(N + 1 <= N) /\ (N + 1) - N = 1
    BY <2>2, <2>3
  <2>5. ASSUME NEW i \in 1..N PROVE s[i] = q[i]
    <3>1. i \in 1..Len(s) /\ i <= N
      BY <2>2, <2>3
    <3> QED BY <2>2, <3>1
  <2>6. s[N + 1] = e
    BY <2>1, <2>2, <2>4
  <2> QED BY <2>2, <2>3, <2>5, <2>6
<1> HIDE DEF e, s, N
<1>3. LastPlaces(s, id) = {N + 1}
  <2>1. N + 1 \in LastPlaces(s, id)
    BY <1>1, <1>2 DEF LastPlaces
  <2>2. ASSUME NEW i \in LastPlaces(s, id) PROVE i = N + 1
    <3>1. i \in 1..N + 1 /\ N + 1 \in 1..Len(s) /\ ~(N + 1 > i)
      BY <1>1, <1>2 DEF LastPlaces
    <3> QED BY <1>2, <3>1
  <2> QED BY <2>1, <2>2
<1>4. ASSUME NEW other \in ReportIds, other # id
      PROVE  LastPlaces(s, other) = LastPlaces(q, other)
  <2>1. ASSUME NEW i \in LastPlaces(s, other) PROVE i \in LastPlaces(q, other)
    <3>1. i \in 1..N + 1 /\ s[i][1] = other
          /\ \A j \in 1..N + 1 : j > i => s[j][1] # other
      BY <1>2 DEF LastPlaces
    <3>2. i # N + 1
      BY <1>1, <1>2, <1>4, <3>1
    <3>3. i \in 1..N /\ \A j \in 1..N : j \in 1..N + 1
      BY <1>2, <3>1, <3>2
    <3>4. q[i][1] = other /\ \A j \in 1..N : j > i => q[j][1] # other
      BY <1>2, <3>1, <3>3
    <3> QED BY <3>3, <3>4 DEF LastPlaces, N
  <2>2. ASSUME NEW i \in LastPlaces(q, other) PROVE i \in LastPlaces(s, other)
    <3>1. i \in 1..N /\ q[i][1] = other
          /\ \A j \in 1..N : j > i => q[j][1] # other
      BY DEF LastPlaces, N
    <3>2. i \in 1..Len(s) /\ s[i][1] = other
      BY <1>2, <3>1
    <3>3. ASSUME NEW j \in 1..Len(s), j > i PROVE s[j][1] # other
      <4>1. CASE j = N + 1
        BY <1>1, <1>2, <1>4, <4>1
      <4>2. CASE j # N + 1
        <5>1. j \in 1..N
          BY <1>2, <4>2
        <5> QED BY <1>2, <3>1, <3>3, <5>1
      <4> QED BY <4>1, <4>2
    <3> QED BY <3>2, <3>3 DEF LastPlaces
  <2> QED BY <2>1, <2>2
<1>5. ASSUME NEW other \in ButtonIds, other # id
      PROVE  LeftAt(s)[other] = LeftAt(q)[other]
  <2>1. other \in ReportIds
    BY DEF ButtonIds, Buttons
  <2>2. LastPlaces(s, other) = LastPlaces(q, other)
    BY <1>4, <1>5, <2>1
  <2> DEFINE i == CHOOSE k \in LastPlaces(q, other) : TRUE
  <2>3. LastPlaces(q, other) # {} => i \in 1..N
    BY DEF LastPlaces, N
  <2>4. LastPlaces(q, other) # {} => s[i] = q[i]
    BY <1>2, <2>3
  <2> QED BY <2>2, <2>4 DEF LeftAt
<1>6. id \in ButtonIds => LeftAt(s)[id] = ButtonOf(e)
  <2>1. (CHOOSE k \in {N + 1} : TRUE) = N + 1
    OBVIOUS
  <2> QED BY <1>2, <1>3, <2>1 DEF LeftAt
<1> DEFINE new == [LeftAt(q) EXCEPT ![id] = ButtonOf(e)]
<1>7. /\ LeftAt(s) = [k \in ButtonIds |-> LeftAt(s)[k]]
      /\ new = [k \in ButtonIds |-> new[k]]
      /\ \A k \in ButtonIds : new[k] = IF k = id THEN ButtonOf(e) ELSE LeftAt(q)[k]
  <2>1. \A x : LeftAt(x) = [k \in ButtonIds |-> LeftAt(x)[k]]
    BY DEF LeftAt
  <2>2. DOMAIN LeftAt(q) = ButtonIds
    BY DEF LeftAt
  <2> QED BY <2>1, <2>2
<1> HIDE DEF new
<1>8. \A k \in ButtonIds : LeftAt(s)[k] = new[k]
  BY <1>5, <1>6, <1>7
<1>9. LeftAt(s) = new
  BY <1>7, <1>8
<1> QED BY <1>9 DEF new, e, s

(* What the abstract input makes of a key of a session. *)
LEMMA EffectIs ==
  ASSUME NEW key \in Keys, "pressSource" \in live
  PROVE  EffectOf(key) =
           [Left EXCEPT ![key.report] =
              IF key.command = "KEY_PRESS" THEN ButtonOf(Press(key)) ELSE "none"]
<1> DEFINE button == [report |-> key.report, code |-> key.code]
<1>1. button \in Buttons
  BY DEF Keys, Buttons
<1>2. [b \in Buttons |-> b.report][button] = key.report
  BY <1>1
<1>3. Input!InSession
  BY DEF Input!InSession, ActiveBox
<1>4. ButtonOf(Press(key)) = button
  <2>1. key.code # 0
    BY SessionAssumption DEF Keys
  <2> QED BY <2>1 DEF ButtonOf, Press
<1> HIDE DEF button
<1>5. /\ Input!AfterPress(button) = [Left EXCEPT ![key.report] = button]
      /\ Input!AfterRelease(button) = [Left EXCEPT ![key.report] = "none"]
      /\ Input!AfterClick(button) = [Left EXCEPT ![key.report] = "none"]
  BY <1>2, <1>3 DEF Input!AfterPress, Input!AfterRelease, Input!AfterClick
<1> QED BY <1>4, <1>5, KeyIsNoMarker DEF EffectOf, button, Keys, Commands

(* A key that is accepted leaves the box as MainActivity takes it to. *)
LEMMA KeyHasEffect ==
  ASSUME TypeOK, WriteKey, "pressSource" \in live
  PROVE  ActiveBox' = ActiveBox /\ Left' = EffectOf(uiKey)
<1> DEFINE q == AllReports(accepted)
           id == uiKey.report
           code == uiKey.code
<1>1. /\ uiKey \in Keys /\ uiKey \in Messages /\ accepted \in Seq(Messages)
      /\ accepted' = Append(accepted, uiKey) /\ live' = live
  <2>1. uiKey \in Keys /\ accepted \in Seq(Keys)
    BY DEF TypeOK, KeyTypeOK, WriteKey
  <2>2. accepted \in Seq(Messages)
    BY <2>1 DEF Messages
  <2> QED BY <2>1, <2>2 DEF WriteKey, Messages
<1>2. id \in ReportIds /\ code \in KeyCodes
  BY <1>1 DEF Keys
<1>3. q \in Seq(HidReports)
  BY <1>1, AllReportsType
<1>4. AllReports(accepted') = q \o Reports(uiKey)
  BY <1>1, AppendReports
<1>5. Left = LeftAt(q) /\ Left' = LeftAt(AllReports(accepted'))
  BY <1>1 DEF Left
<1> DEFINE p == <<id, code>>
           r == <<id, 0>>
<1>6. p \in HidReports /\ r \in HidReports
  BY <1>2 DEF HidReports
<1>7. Press(uiKey) = p /\ Release(uiKey) = r
  BY DEF Press, Release
<1>8. ButtonOf(r) = "none"
  BY DEF ButtonOf
<1>9. Reports(uiKey) = Immediate(uiKey)
                         \o (IF Timed(uiKey) THEN <<Release(uiKey)>> ELSE <<>>)
  BY <1>1, ReportsAre
<1>10. uiKey # ClosePipe
  BY <1>1, KeyIsNoMarker
<1>11. /\ \A x \in Seq(HidReports) :
            LeftAt(x \o <<p>>) = [LeftAt(x) EXCEPT ![id] = ButtonOf(p)]
       /\ \A x \in Seq(HidReports) :
            LeftAt(x \o <<r>>) = [LeftAt(x) EXCEPT ![id] = ButtonOf(r)]
  BY <1>2, OneMoreReport
<1> HIDE DEF p, r, q
<1>12. /\ <<p>> \in Seq(HidReports) /\ <<r>> \in Seq(HidReports)
       /\ <<p>> \o <<>> = <<p>> /\ <<r>> \o <<>> = <<r>>
  BY <1>6
<1>13. CASE uiKey.command = "KEY_PRESS"
  <2>1. Reports(uiKey) = <<p>>
    BY <1>7, <1>9, <1>10, <1>12, <1>13 DEF Immediate, Timed
  <2>2. Left' = [Left EXCEPT ![id] = ButtonOf(p)]
    BY <1>3, <1>4, <1>5, <1>11, <2>1
  <2> QED BY <1>1, <1>7, <1>13, <2>2, EffectIs DEF ActiveBox
<1>14. CASE uiKey.command = "KEY_RELEASE"
  <2>1. Reports(uiKey) = <<r>>
    BY <1>7, <1>9, <1>10, <1>12, <1>14 DEF Immediate, Timed
  <2>2. Left' = [Left EXCEPT ![id] = "none"]
    BY <1>3, <1>4, <1>5, <1>8, <1>11, <2>1
  <2> QED BY <1>1, <1>14, <2>2, EffectIs DEF ActiveBox
<1>15. CASE uiKey.command = "KEY_PRESS_RELEASE"
  <2>1. Reports(uiKey) = <<p>> \o <<r>>
    BY <1>7, <1>9, <1>10, <1>15 DEF Immediate, Timed
  <2>2. q \o <<p>> \in Seq(HidReports)
    BY <1>3, <1>12, ConcatProperties
  <2>3. AllReports(accepted') = (q \o <<p>>) \o <<r>>
    BY <1>3, <1>4, <1>12, <2>1, ReportsAssociate
  <2>4. Left' = [[Left EXCEPT ![id] = ButtonOf(p)] EXCEPT ![id] = "none"]
    BY <1>3, <1>5, <1>8, <1>11, <2>2, <2>3
  <2>5. Left = [k \in ButtonIds |-> Left[k]]
    BY <1>5 DEF LeftAt
  <2>6. Left' = [Left EXCEPT ![id] = "none"]
    BY <2>4, <2>5
  <2> QED BY <1>1, <1>15, <2>6, EffectIs DEF ActiveBox
<1>16. uiKey.command \in Commands
  BY <1>1 DEF Keys
<1> QED BY <1>13, <1>14, <1>15, <1>16 DEF Commands

(* Sessions begin and end with no key down. *)
LEMMA NoKeysNoEffect ==
  /\ Input!AllUp = [id \in ButtonIds |-> "none"]
  /\ LeftAt(AllReports(<<>>)) = Input!AllUp
<1>1. Input!Reports = ButtonIds
  BY DEF Input!Reports, Input!Keys, ButtonIds
<1>2. Input!AllUp = [id \in ButtonIds |-> "none"]
  BY <1>1 DEF Input!AllUp
<1>3. \A id \in ButtonIds : LastPlaces(<<>>, id) = {}
  BY DEF LastPlaces
<1>4. LeftAt(<<>>) = [id \in ButtonIds |-> "none"]
  BY <1>3 DEF LeftAt
<1> QED BY <1>2, <1>4, AllReportsType

(* Every step has the effect the calls have on the box, and no other. *)
LEMMA StepHasEffect == SessionInv /\ [Next]_vars => [EffectStep]_vars
<1> SUFFICES ASSUME SessionInv, Next PROVE EffectStep
  OBVIOUS
<1>0. TypeOK
  BY DEF SessionInv
<1>1. CASE WriteKey
  <2>1. "pressSource" \in live
    BY <1>1 DEF WriteKey, SessionInv, LiveInv, Objects, Stuck, Alive, UiNeeds
  <2> QED BY <1>0, <1>1, <2>1, KeyHasEffect DEF EffectStep
<1>2. ASSUME NEW address \in Addresses, Connect(address), ~WriteKey
      PROVE  EffectStep
  <2>1. ActiveBox = "none" /\ Left = Input!AllUp
    BY <1>2, NoKeysNoEffect
    DEF Connect, SessionInv, LiveInv, Stuck, Objects, ActiveBox, Left
  <2>2. Left' = Input!AllUp
    BY <1>2, NoKeysNoEffect DEF Connect, Left
  <2> QED BY <1>2, <2>1, <2>2 DEF EffectStep
<1>3. CASE CloseStatus /\ ~WriteKey
  <2>1. "pressSource" \in live /\ "pressSource" \notin live'
    BY <1>3 DEF CloseStatus, Alive, UiNeeds
  <2> QED BY <1>3, <2>1, NoKeysNoEffect DEF EffectStep, ActiveBox, Left
<1>4. ASSUME ("pressSource" \in live) = ("pressSource" \in live'), ~WriteKey,
             UNCHANGED accepted
      PROVE  EffectStep
  <2>1. Left' = Left /\ ActiveBox' = ActiveBox
    BY <1>4 DEF Left, ActiveBox
  <2> QED BY <1>4, <2>1 DEF EffectStep
<1>5. ASSUME JoinLooper \/ Free \/ JoinReader, ~WriteKey PROVE EffectStep
  <2>1. ("pressSource" \in live) = ("pressSource" \in live') /\ UNCHANGED accepted
    BY <1>5 DEF JoinLooper, Free, JoinReader
  <2> QED BY <1>4, <1>5, <2>1
<1>6. StartReader \/ (\E key \in Keys : SendKey(key)) \/ BeginDisconnect
      \/ WriteClose \/ Deinit \/ NotifyInDeinit \/ Deliver
        => UNCHANGED <<live, accepted>>
  BY DEF StartReader, SendKey, BeginDisconnect, WriteClose, Deinit,
         NotifyInDeinit, Deliver
<1>7. LooperNext \/ ReaderNext \/ Fault => UNCHANGED <<live, accepted>>
  BY DEF LooperNext, OnKeyAvailable, OnKeyRelease, OnStatus, WriteStatus,
         LooperReturn, ReaderNext, ReadStatus, PostStatus, Fault
<1> QED BY <1>1, <1>2, <1>3, <1>4, <1>5, <1>6, <1>7 DEF Next, UiNext

(* What KeyInput says a press, a click and a release do to the active box  *)
(* is what Freebox.pressRcuKey and releaseRcuKey do to it, whatever the    *)
(* event loop is at: each key has its effect when it is accepted, sessions *)
(* start and end with no key down, and no other step changes anything.     *)
THEOREM KeysAlwaysHaveEffect == SafeSpec => KeysHaveEffect
BY SessionInvariant, StepHasEffect, PTL DEF SafeSpec, KeysHaveEffect

(* And once its pipe is empty and no release is pending, the box is left   *)
(* at just that: KeyInput's `down'.                                        *)
THEOREM BoxAlwaysLeft == SafeSpec => []BoxIsLeft
<1>1. SessionInv /\ KeysInOrder => BoxIsLeft
  <2> SUFFICES ASSUME SessionInv, KeysInOrder, "pressSource" \in live,
                      looperPipe = <<>>, pendingRelease = NoKey
               PROVE  LeftAt(sent) = Left
    BY DEF BoxIsLeft
  <2>1. sent \in Seq(HidReports)
    BY DEF SessionInv, TypeOK, KeyTypeOK, HidReports
  <2>2. AllReports(accepted) = sent \o <<>> \o <<>>
    BY AllReportsType DEF KeysInOrder, PendingReports
  <2>3. AllReports(accepted) = sent
    BY <2>1, <2>2
  <2> QED BY <2>3 DEF Left
<1> QED BY <1>1, SessionInvariant, KeysAlwaysInOrder, PTL

=============================================================================
