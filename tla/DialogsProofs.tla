--------------------------- MODULE DialogsProofs ---------------------------
(* What Dialogs guarantees for any networks, keys, code and number of      *)
(* clicks.                                                                 *)
EXTENDS Dialogs, TLAPS

USE DEF cheatVars

(* The code is a row of keys that is not empty.                            *)
LEMMA CodeLength == Len(Code) \in Nat \ {0} /\ Code \in [1..Len(Code) -> Keys]
BY DialogsAssumption

(* The iterator of CheatCode goes on at a key of the code. *)
LEMMA FromIs ==
  ASSUME position \in 0..Len(Code)
  PROVE  /\ From \in 0..(Len(Code) - 1)
         /\ From > 0 => From = position
         /\ From = 0 => position \in {0, Len(Code)}
         /\ \A key : PositionAfter(key) \in {0, From + 1}
         /\ \A key : PositionAfter(key) \in 0..Len(Code)
<1>0. Len(Code) \in Nat \ {0}
  BY CodeLength
<1>1. From \in 0..(Len(Code) - 1) /\ (From > 0 => From = position)
  BY <1>0 DEF From
<1>2. From = 0 => position \in {0, Len(Code)}
  BY <1>0 DEF From
<1>3. ASSUME NEW key PROVE PositionAfter(key) \in {0, From + 1}
  BY DEF PositionAfter
<1>4. {0, From + 1} \subseteq 0..Len(Code)
  BY <1>0, <1>1
<1> QED BY <1>1, <1>2, <1>3, <1>4

(* Types are kept by every step. *)
LEMMA TypeStep == TypeOK /\ [Next]_vars => TypeOK'
<1> SUFFICES ASSUME TypeOK, [Next]_vars PROVE TypeOK'
  OBVIOUS
<1>0. position \in 0..Len(Code)
  BY CodeLength DEF TypeOK
<1>1. CASE Resume
  <2>1. position' \in 0..Len(Code)
    BY <1>1, CodeLength DEF Resume
  <2>2. clicked' \in Seq(Keys) /\ fresh' \in Seq(BOOLEAN) /\ Len(fresh') = Len(clicked')
    BY <1>1 DEF Resume
  <2> QED BY <1>1, <2>1, <2>2 DEF Resume, TypeOK
<1>2. CASE Pause
  BY <1>2 DEF Pause, StoppedLog, TypeOK
<1>3. ASSUME NEW to \in Networks, ChangeNetwork(to) PROVE TypeOK'
  BY <1>3 DEF ChangeNetwork, TypeOK
<1>4. CASE Receive
  BY <1>4 DEF Receive, AlertAfterBroadcast, TextAfterBroadcast, TypeOK
<1>5. ASSUME NEW connected \in BOOLEAN, Status(connected) PROVE TypeOK'
  BY <1>5 DEF Status, PausedAlert, ResumedAlert, TypeOK
<1>6. CASE OpenSettings \/ DismissAlert
  BY <1>6 DEF OpenSettings, DismissAlert, TypeOK
<1>7. ASSUME NEW key \in Keys, Click(key) PROVE TypeOK'
  <2>1. position' \in 0..Len(Code)
    BY <1>0, <1>7, FromIs DEF Click
  <2>2. clicked' \in Seq(Keys) /\ fresh' \in Seq(BOOLEAN) /\ Len(fresh') = Len(clicked')
    BY <1>7 DEF Click, TypeOK
  <2>3. discovered' \in BOOLEAN /\ log' \in {"none", "shown", "dismissed"}
    BY <1>7 DEF Click, TypeOK
  <2> QED BY <1>7, <2>1, <2>2, <2>3 DEF Click, TypeOK
<1>8. CASE CloseLog
  BY <1>8 DEF CloseLog, TypeOK
<1>9. CASE UNCHANGED vars
  BY <1>9 DEF vars, TypeOK
<1> QED
  BY <1>1, <1>2, <1>3, <1>4, <1>5, <1>6, <1>7, <1>8, <1>9 DEF Next

-----------------------------------------------------------------------------
(* The receiver of Wifi is registered only between onResume and onPause.   *)
Registered == broadcast => resumed

AlertInv ==
  Registered /\ NoDialogWhenPaused /\ AlertCurrent /\ AlertOutOfTheWay

(* What comes after onPause finds no dialog to show. *)
LEMMA AlertStep == TypeOK /\ AlertInv /\ [Next]_vars => AlertInv'
<1> SUFFICES ASSUME TypeOK, AlertInv, [Next]_vars PROVE AlertInv'
  OBVIOUS
<1> USE DEF AlertInv, Registered, NoDialogWhenPaused, AlertCurrent, AlertOutOfTheWay
<1>1. CASE Resume
  BY <1>1 DEF Resume
<1>2. CASE Pause
  BY <1>2 DEF Pause, StoppedLog
<1>3. ASSUME NEW to \in Networks, ChangeNetwork(to) PROVE AlertInv'
  BY <1>3 DEF ChangeNetwork
<1>4. CASE Receive
  BY <1>4 DEF Receive, AlertAfterBroadcast, TextAfterBroadcast
<1>5. ASSUME NEW connected \in BOOLEAN, Status(connected) PROVE AlertInv'
  BY <1>5 DEF Status, PausedAlert, ResumedAlert
<1>6. CASE OpenSettings \/ DismissAlert
  BY <1>6 DEF OpenSettings, DismissAlert
<1>7. ASSUME NEW key \in Keys, Click(key) PROVE AlertInv'
  BY <1>7 DEF Click
<1>8. CASE CloseLog
  BY <1>8 DEF CloseLog
<1>9. CASE UNCHANGED vars
  BY <1>9 DEF vars
<1> QED
  BY <1>1, <1>2, <1>3, <1>4, <1>5, <1>6, <1>7, <1>8, <1>9 DEF Next

-----------------------------------------------------------------------------
(* CheatCode's iterator has returned the last keys clicked, the first of   *)
(* them when it was at its start.                                          *)
Behind ==
  /\ position <= Len(clicked)
  /\ \A j \in 1..position : clicked[Len(clicked) - position + j] = Code[j]
  /\ position > 0 => fresh[Len(clicked) - position + 1]

(* From wherever the iterator was at its start, as long as the keys are    *)
(* those of the code it has returned them.                                 *)
Ahead ==
  \A k \in 1..Len(clicked) :
    ( /\ fresh[k]
      /\ Len(clicked) - k + 1 <= Len(Code)
      /\ \A j \in 1..(Len(clicked) - k + 1) : clicked[k + j - 1] = Code[j] )
    => position = Len(clicked) - k + 1

CodeInv == Behind /\ Ahead /\ discovered = (position = Len(Code))

(* One more key: the iterator has gone on by it, or is at its start.       *)
LEMMA BehindAfter ==
  ASSUME NEW n \in Nat, n = Len(clicked), NEW key, Behind,
         From \in 0..(Len(Code) - 1), From <= n, From > 0 => From = position,
         Len(Code) \in Nat, position \in 0..Len(Code),
         position' = IF key = Code[From + 1] THEN From + 1 ELSE 0,
         Len(clicked') = n + 1, clicked'[n + 1] = key,
         \A i \in 1..n : clicked'[i] = clicked[i],
         fresh'[n + 1] = (From = 0), \A i \in 1..n : fresh'[i] = fresh[i]
  PROVE  Behind'
<1>1. CASE position' = 0
  BY <1>1 DEF Behind
<1>2. CASE key = Code[From + 1] /\ position' = From + 1
  <2>1. \A j \in 1..From : clicked'[n - From + j] = Code[j]
    <3> SUFFICES ASSUME NEW j \in 1..From PROVE clicked'[n - From + j] = Code[j]
      OBVIOUS
    <3>1. n - From + j \in 1..n /\ From = position
      OBVIOUS
    <3>2. clicked[n - position + j] = Code[j]
      BY <3>1 DEF Behind
    <3> QED BY <3>1, <3>2
  <2>2. (n + 1) - (From + 1) = n - From /\ n - From + (From + 1) = n + 1
    OBVIOUS
  <2>3. \A j \in 1..(From + 1) : clicked'[n - From + j] = Code[j]
    <3> SUFFICES ASSUME NEW j \in 1..(From + 1) PROVE clicked'[n - From + j] = Code[j]
      OBVIOUS
    <3>1. j \in 1..From \/ j = From + 1
      OBVIOUS
    <3>2. CASE j = From + 1
      <4>1. clicked'[n - From + j] = key
        BY <2>2, <3>2
      <4> QED BY <1>2, <3>2, <4>1
    <3> QED BY <2>1, <3>1, <3>2
  <2>4. fresh'[n - From + 1]
    <3>1. CASE From = 0
      <4>1. n - From + 1 = n + 1
        BY <3>1
      <4> QED BY <3>1, <4>1
    <3>2. CASE From > 0
      <4>1. From = position /\ position > 0
        BY <3>2
      <4>2. fresh[n - From + 1]
        BY <4>1 DEF Behind
      <4>3. n - From + 1 \in 1..n
        BY <3>2
      <4> QED BY <4>2, <4>3
    <3>3. From = 0 \/ From > 0
      OBVIOUS
    <3> QED BY <3>1, <3>2, <3>3
  <2> QED BY <1>2, <2>2, <2>3, <2>4 DEF Behind
<1> QED BY <1>1, <1>2

(* One more key: what has been the code so far still is only if the        *)
(* iterator has gone on.                                                   *)
LEMMA AheadAfter ==
  ASSUME NEW n \in Nat, n = Len(clicked), NEW key, Ahead,
         Len(Code) \in Nat \ {0}, position \in 0..Len(Code),
         position' = IF key = Code[From + 1] THEN From + 1 ELSE 0,
         Len(clicked') = n + 1, clicked'[n + 1] = key,
         \A i \in 1..n : clicked'[i] = clicked[i],
         fresh'[n + 1] = (From = 0), \A i \in 1..n : fresh'[i] = fresh[i]
  PROVE  Ahead'
<1> SUFFICES ASSUME NEW k \in 1..(n + 1), fresh'[k], (n + 1) - k + 1 <= Len(Code),
                    \A j \in 1..((n + 1) - k + 1) : clicked'[k + j - 1] = Code[j]
             PROVE  position' = (n + 1) - k + 1
  BY DEF Ahead
<1> DEFINE m == (n + 1) - k + 1
<1>0. m \in 1..(n + 1) /\ clicked'[k + m - 1] = Code[m] /\ k + m - 1 = n + 1
  OBVIOUS
<1>1. key = Code[m]
  BY <1>0
<1>2. CASE k = n + 1
  <2>1. m = 1
    BY <1>2
  <2>2. From = 0
    BY <1>2
  <2>3. key = Code[From + 1]
    BY <1>1, <2>1, <2>2
  <2> QED BY <2>1, <2>2, <2>3
<1>3. CASE k \in 1..n
  <2>1. fresh[k] /\ n - k + 1 <= Len(Code) /\ n - k + 1 = m - 1
    BY <1>3
  <2>2. \A j \in 1..(n - k + 1) : clicked[k + j - 1] = Code[j]
    <3> SUFFICES ASSUME NEW j \in 1..(n - k + 1) PROVE clicked[k + j - 1] = Code[j]
      OBVIOUS
    <3>1. k + j - 1 \in 1..n /\ j \in 1..((n + 1) - k + 1)
      BY <1>3
    <3> QED BY <3>1
  <2>3. position = n - k + 1
    BY <1>3, <2>1, <2>2 DEF Ahead
  <2>4. From = m - 1
    BY <1>0, <1>3, <2>1, <2>3 DEF From
  <2> QED BY <1>0, <1>1, <2>4
<1> QED BY <1>2, <1>3

(* Each key clicked moves the iterator on, or back to the start.           *)
LEMMA CodeStep == TypeOK /\ CodeInv /\ [Next]_vars => CodeInv'
<1> SUFFICES ASSUME TypeOK, CodeInv, [Next]_vars PROVE CodeInv'
  OBVIOUS
<1>1. CASE Resume
  <2>1. position' = 0 /\ clicked' = <<>> /\ Len(clicked') = 0 /\ discovered' = FALSE
    BY <1>1 DEF Resume
  <2>2. Behind'
    BY <2>1 DEF Behind
  <2>3. Ahead'
    BY <2>1 DEF Ahead
  <2>4. discovered' = (position' = Len(Code))
    BY <2>1, CodeLength
  <2> QED BY <2>2, <2>3, <2>4 DEF CodeInv
<1>2. ASSUME NEW key \in Keys, Click(key) PROVE CodeInv'
  <2> DEFINE n == Len(clicked)
  <2>1. /\ n \in Nat /\ position \in 0..Len(Code) /\ Len(Code) \in Nat \ {0}
        /\ clicked \in Seq(Keys) /\ fresh \in Seq(BOOLEAN) /\ Len(fresh) = n
    BY CodeLength DEF TypeOK
  <2>2. /\ clicked' = Append(clicked, key) /\ fresh' = Append(fresh, From = 0)
        /\ position' = IF key = Code[From + 1] THEN From + 1 ELSE 0
    BY <1>2 DEF Click, PositionAfter
  <2>3. /\ Len(clicked') = n + 1 /\ clicked'[n + 1] = key
        /\ \A i \in 1..n : clicked'[i] = clicked[i]
        /\ fresh'[n + 1] = (From = 0)
        /\ \A i \in 1..n : fresh'[i] = fresh[i]
    BY <2>1, <2>2
  <2>4. From \in 0..(Len(Code) - 1) /\ From <= n /\ (From > 0 => From = position)
    BY <2>1, FromIs DEF CodeInv, Behind
  <2>5. Behind'
    BY <2>1, <2>2, <2>3, <2>4, BehindAfter DEF CodeInv
  <2>6. Ahead'
    BY <2>1, <2>2, <2>3, <2>4, AheadAfter DEF CodeInv
  <2>7. discovered' = (position' = Len(Code))
    BY <1>2 DEF Click
  <2> QED BY <2>5, <2>6, <2>7 DEF CodeInv
<1>3. ASSUME UNCHANGED <<position, clicked, fresh, discovered>> PROVE CodeInv'
  BY <1>3 DEF CodeInv, Behind, Ahead
<1> QED
  BY <1>1, <1>2, <1>3 DEF Next, Pause, ChangeNetwork, Receive, Status,
     OpenSettings, DismissAlert, CloseLog, vars

(* The two directions of CodeExact are the two parts of CodeInv.           *)
LEMMA CodeInvExact == TypeOK /\ CodeInv => CodeExact
<1> SUFFICES ASSUME TypeOK, CodeInv PROVE CodeExact
  OBVIOUS
<1> DEFINE n == Len(clicked)
           L == Len(Code)
<1>1. /\ n \in Nat /\ L \in Nat \ {0} /\ position \in 0..L /\ clicked \in Seq(Keys)
      /\ Code \in Seq(Keys)
  BY CodeLength, DialogsAssumption DEF TypeOK
<1>2. ASSUME n >= L
      PROVE  /\ LastKeys \in Seq(Keys) /\ Len(LastKeys) = L
             /\ \A j \in 1..L : LastKeys[j] = clicked[n - L + j]
  BY <1>1, <1>2 DEF LastKeys
<1>3. ASSUME discovered
      PROVE  n >= L /\ LastKeys = Code /\ fresh[n - L + 1]
  <2>1. position = L
    BY <1>3 DEF CodeInv
  <2>2. n >= L /\ fresh[n - L + 1] /\ \A j \in 1..L : clicked[n - L + j] = Code[j]
    BY <1>1, <2>1 DEF CodeInv, Behind
  <2>3. LastKeys = Code
    BY <1>1, <1>2, <2>2
  <2> QED BY <2>2, <2>3
<1>4. ASSUME n >= L, LastKeys = Code, fresh[n - L + 1] PROVE discovered
  <2> DEFINE k == n - L + 1
  <2>1. k \in 1..n /\ n - k + 1 = L
    BY <1>1, <1>4
  <2>2. \A j \in 1..(n - k + 1) : clicked[k + j - 1] = Code[j]
    BY <1>1, <1>2, <1>4, <2>1
  <2>3. fresh[k]
    BY <1>4
  <2> HIDE DEF k
  <2>4. position = n - k + 1
    BY <2>1, <2>2, <2>3 DEF CodeInv, Ahead
  <2> QED BY <2>1, <2>4 DEF CodeInv
<1> QED BY <1>3, <1>4 DEF CodeExact

-----------------------------------------------------------------------------
DialogsInv == TypeOK /\ AlertInv /\ CodeInv

(* The inductive invariant. *)
LEMMA InvCorrect == Spec => []DialogsInv
<1>1. Init => DialogsInv
  <2> SUFFICES ASSUME Init PROVE DialogsInv
    OBVIOUS
  <2>1. position \in 0..Len(Code) /\ clicked = <<>> /\ fresh = <<>>
    BY CodeLength DEF Init
  <2>2. TypeOK
    <3>1. clicked \in Seq(Keys) /\ fresh \in Seq(BOOLEAN) /\ Len(fresh) = Len(clicked)
      BY <2>1
    <3> QED BY <2>1, <3>1 DEF Init, TypeOK
  <2>3. AlertInv
    BY DEF Init, AlertInv, Registered, NoDialogWhenPaused, AlertCurrent,
           AlertOutOfTheWay
  <2>4. Behind /\ Ahead
    BY CodeLength DEF Init, Behind, Ahead
  <2>5. discovered = (position = Len(Code))
    BY CodeLength DEF Init
  <2> QED BY <2>2, <2>3, <2>4, <2>5 DEF DialogsInv, CodeInv
<1>2. DialogsInv /\ [Next]_vars => DialogsInv'
  BY TypeStep, AlertStep, CodeStep DEF DialogsInv
<1> QED BY <1>1, <1>2, PTL DEF Spec

(* The types of Dialogs: the alert of Wifi, the log and the iterator.      *)
THEOREM TypeCorrect == Spec => []TypeOK
<1>1. DialogsInv => TypeOK
  BY DEF DialogsInv
<1> QED BY <1>1, InvCorrect, PTL

(* The alert that Wifi.resume may bring back, and any other, has the text  *)
(* for the network in use: onReceive makes a new one each time.            *)
THEOREM AlertAlwaysCurrent == Spec => []AlertCurrent
<1>1. DialogsInv => AlertCurrent
  BY DEF DialogsInv, AlertInv
<1> QED BY <1>1, InvCorrect, PTL

(* Only a broadcast puts the alert of Wifi over a connected box.           *)
THEOREM AlertStaysOut == Spec => []AlertOutOfTheWay
<1>1. DialogsInv => AlertOutOfTheWay
  BY DEF DialogsInv, AlertInv
<1> QED BY <1>1, InvCorrect, PTL

(* Neither Wifi nor Logger shows a dialog after onPause.                   *)
THEOREM NeverWhenPaused == Spec => []NoDialogWhenPaused
<1>1. DialogsInv => NoDialogWhenPaused
  BY DEF DialogsInv, AlertInv
<1> QED BY <1>1, InvCorrect, PTL

(* CheatCode.discovered recognises a code exactly when no earlier attempt  *)
(* was under way at its first key, whatever the code and however it        *)
(* overlaps itself.                                                        *)
THEOREM CodeAlwaysExact == Spec => []CodeExact
<1>1. DialogsInv => CodeExact
  BY CodeInvExact DEF DialogsInv
<1> QED BY <1>1, InvCorrect, PTL

=============================================================================
