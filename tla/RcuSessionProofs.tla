-------------------------- MODULE RcuSessionProofs --------------------------
(* What RcuSession guarantees for every pipe capacity, every set of keys   *)
(* and statuses and every number of sessions, keys and statuses.           *)
EXTENDS RcuSession, SequenceTheorems, WellFoundedInduction, TLAPS

(* The tuples that the actions' UNCHANGED abbreviate. *)
USE DEF sessionVars, uiVars, keyVars, looperVars, readerVars, screenVars

(* The texts of the statuses: none of them is "EXIT", the text of the      *)
(* closing message.                                                        *)
LEMMA StatusTexts ==
  ASSUME NEW s \in Notifications
  PROVE  /\ StateText[s] \in Texts
         /\ StateText[s] # "EXIT" /\ StateText[s] # "none"
         /\ s # "CLOSE_PIPE" /\ s # "none"
<1>1. s \in {"FOILS_HID_IDLE", "FOILS_HID_CONNECTING", "FOILS_HID_CONNECTED",
             "FOILS_HID_RESOLVE_FAILED", "FOILS_HID_DROPPED"}
  BY SessionAssumption DEF StateText
<1>2. StateText[s] \in {"idle", "connecting", "connected", "resolve failed",
                        "dropped"}
  <2>1. CASE s = "FOILS_HID_IDLE"
    BY <2>1 DEF StateText
  <2>2. CASE s = "FOILS_HID_CONNECTING"
    BY <2>2 DEF StateText
  <2>3. CASE s = "FOILS_HID_CONNECTED"
    BY <2>3 DEF StateText
  <2>4. CASE s = "FOILS_HID_RESOLVE_FAILED"
    BY <2>4 DEF StateText
  <2>5. CASE s = "FOILS_HID_DROPPED"
    BY <2>5 DEF StateText
  <2> QED BY <1>1, <2>1, <2>2, <2>3, <2>4, <2>5
<1> QED BY <1>1, <1>2 DEF Texts

(* Writing to a pipe that has room, and reading from one that is not empty.*)
LEMMA PipeWrite ==
  ASSUME NEW S, NEW pipe \in Seq(S), NEW message \in S, Room(pipe)
  PROVE  /\ Append(pipe, message) \in Seq(S)
         /\ Len(Append(pipe, message)) <= PipeCapacity
         /\ Append(pipe, message) # <<>>
BY SessionAssumption DEF Room

(* What reading from a pipe returns and leaves. *)
LEMMA PipeRead ==
  ASSUME NEW S, NEW pipe \in Seq(S), pipe # <<>>, Len(pipe) <= PipeCapacity
  PROVE  /\ Head(pipe) \in S
         /\ Tail(pipe) \in Seq(S)
         /\ Len(Tail(pipe)) <= PipeCapacity
BY SessionAssumption

(* Reading from a queue does not change its last element.                  *)
LEMMA LastOfTail ==
  ASSUME NEW S, NEW pipe \in Seq(S), pipe # <<>>
  PROVE  /\ Tail(pipe) = <<>> => Head(pipe) = pipe[Len(pipe)]
         /\ Tail(pipe) # <<>> => Tail(pipe)[Len(Tail(pipe))] = pipe[Len(pipe)]
<1> DEFINE q == Tail(pipe)
<1>1. /\ q \in Seq(S) /\ Head(pipe) = pipe[1]
      /\ Len(q) = Len(pipe) - 1 /\ Len(pipe) \in Nat \ {0}
      /\ \A i \in 1..Len(q) : q[i] = pipe[i + 1]
  BY HeadTailProperties
<1> HIDE DEF q
<1>2. CASE q = <<>>
  <2>1. Len(pipe) = 1
    BY <1>1, <1>2
  <2> QED BY <1>1, <1>2, <2>1 DEF q
<1>3. CASE q # <<>>
  <2>1. Len(q) \in 1..Len(q)
    BY <1>1, <1>3
  <2>2. q[Len(q)] = pipe[Len(q) + 1]
    BY <1>1, <2>1
  <2>3. q[Len(q)] = pipe[Len(pipe)]
    BY <1>1, <2>2
  <2> QED BY <1>3, <2>3 DEF q
<1> QED BY <1>2, <1>3

(* A key is none of the two markers.                                       *)
LEMMA KeyIsNoMarker ==
  ASSUME NEW key \in Keys
  PROVE  key # ClosePipe /\ key # NoKey /\ key.command # "CLOSE_PIPE"
BY DEF Keys, Commands, ClosePipe, NoKey

(* The reports sent on behalf of a message of the looper pipe.             *)
LEMMA HandleType ==
  ASSUME KeyTypeOK, ControlTypeOK, NEW m \in Keys \cup {ClosePipe}
  PROVE  /\ Handle(m) \in Seq(ReportIds \X (KeyCodes \cup {0}))
         /\ PendingReports \in Seq(ReportIds \X (KeyCodes \cup {0}))
         /\ PendingAfter(m) \in Keys \cup {NoKey}
         /\ ArmedAfter(m) \in BOOLEAN
<1> DEFINE R == ReportIds \X (KeyCodes \cup {0})
<1>1. \A key \in Keys : Press(key) \in R /\ Release(key) \in R
  BY DEF Press, Release, Keys
<1> HIDE DEF R
<1>2. PendingReports \in Seq(R)
  <2>1. pendingRelease \in Keys \cup {NoKey}
    BY DEF KeyTypeOK
  <2> QED BY <1>1, <2>1 DEF PendingReports
<1>3. Immediate(m) \in Seq(R)
  BY <1>1 DEF Immediate
<1>4. Handle(m) \in Seq(R)
  BY <1>2, <1>3 DEF Handle
<1>5. PendingAfter(m) \in Keys \cup {NoKey}
  <2>1. CASE m = ClosePipe
    BY <2>1 DEF PendingAfter, Timed, ClosePipe
  <2>2. CASE m \in Keys
    BY <2>2 DEF PendingAfter
  <2> QED BY <2>1, <2>2
<1>6. ArmedAfter(m) \in BOOLEAN
  BY DEF ArmedAfter, Timed, ControlTypeOK
<1> QED BY <1>2, <1>4, <1>5, <1>6 DEF R

(* Type correctness.                                                       *)
LEMMA TypeInit == Init => TypeOK
<1> SUFFICES ASSUME Init PROVE TypeOK
  OBVIOUS
<1>1. ControlTypeOK
  BY DEF Init, ControlTypeOK
<1>2. KeyTypeOK
  BY SessionAssumption DEF Init, KeyTypeOK
<1>3. StatusTypeOK
  BY SessionAssumption DEF Init, StatusTypeOK
<1> QED BY <1>1, <1>2, <1>3 DEF TypeOK

(* Every step keeps every variable to its type. *)
LEMMA TypeStep == TypeOK /\ [Next]_vars => TypeOK'
<1> SUFFICES ASSUME TypeOK, [Next]_vars PROVE TypeOK'
  OBVIOUS
<1> USE DEF TypeOK
<1>1. ASSUME NEW address \in Addresses, Connect(address) PROVE TypeOK'
  <2>1. ControlTypeOK'
    BY <1>1 DEF Connect, Objects, ControlTypeOK
  <2>2. KeyTypeOK'
    BY <1>1, SessionAssumption DEF Connect, KeyTypeOK
  <2>3. StatusTypeOK'
    <3>1. /\ statusPipe' \in Seq(Notifications \cup {"CLOSE_PIPE"})
          /\ Len(statusPipe') <= PipeCapacity
          /\ notified' \in 0..MaxStatus
      <4>1. CASE statusPipe' = <<>> /\ notified' = 0
        BY <4>1, SessionAssumption
      <4>2. ASSUME NEW s \in Notifications, statusPipe' = <<s>>,
                   MaxStatus > 0, notified' = 1
            PROVE  /\ statusPipe' \in Seq(Notifications \cup {"CLOSE_PIPE"})
                   /\ Len(statusPipe') <= PipeCapacity
                   /\ notified' \in 0..MaxStatus
        BY <4>2, SessionAssumption
      <4> QED BY <1>1, <4>1, <4>2 DEF Connect
    <3>2. ui' # "notify" /\ (looper' # "notify" \/ UNCHANGED <<looper, looperStatus>>)
      BY <1>1 DEF Connect
    <3> QED BY <1>1, <3>1, <3>2 DEF Connect, StatusTypeOK
  <2> QED BY <2>1, <2>2, <2>3
<1>2. CASE StartReader
  <2>1. ControlTypeOK'
    BY <1>2 DEF StartReader, ControlTypeOK
  <2>2. KeyTypeOK'
    BY <1>2 DEF StartReader, KeyTypeOK
  <2>3. StatusTypeOK'
    BY <1>2 DEF StartReader, StatusTypeOK
  <2> QED BY <2>1, <2>2, <2>3
<1>3. ASSUME NEW key \in Keys, SendKey(key) PROVE TypeOK'
  <2>1. ControlTypeOK'
    BY <1>3 DEF SendKey, ControlTypeOK
  <2>2. KeyTypeOK'
    BY <1>3 DEF SendKey, KeyTypeOK
  <2>3. StatusTypeOK'
    BY <1>3 DEF SendKey, StatusTypeOK
  <2> QED BY <2>1, <2>2, <2>3
<1>4. CASE WriteKey
  <2>1. ControlTypeOK'
    BY <1>4 DEF WriteKey, ControlTypeOK
  <2>2. KeyTypeOK'
    <3>1. uiKey \in Keys /\ uiKey \in Keys \cup {ClosePipe}
      BY <1>4 DEF WriteKey, KeyTypeOK
    <3>2. Append(looperPipe, uiKey) \in Seq(Keys \cup {ClosePipe})
          /\ Len(Append(looperPipe, uiKey)) <= PipeCapacity
      BY <1>4, <3>1, PipeWrite DEF WriteKey, KeyTypeOK
    <3>3. Append(accepted, uiKey) \in Seq(Keys)
      BY <3>1 DEF KeyTypeOK
    <3> QED BY <1>4, <3>2, <3>3 DEF WriteKey, KeyTypeOK
  <2>3. StatusTypeOK'
    BY <1>4 DEF WriteKey, StatusTypeOK
  <2> QED BY <2>1, <2>2, <2>3
<1>5. CASE BeginDisconnect
  <2>1. ControlTypeOK'
    BY <1>5 DEF BeginDisconnect, Disconnecting, ControlTypeOK
  <2>2. KeyTypeOK'
    BY <1>5 DEF BeginDisconnect, KeyTypeOK
  <2>3. StatusTypeOK'
    BY <1>5 DEF BeginDisconnect, StatusTypeOK
  <2> QED BY <2>1, <2>2, <2>3
<1>6. CASE WriteClose
  <2>1. ControlTypeOK'
    BY <1>6 DEF WriteClose, Disconnecting, ControlTypeOK
  <2>2. KeyTypeOK'
    <3>1. Append(looperPipe, ClosePipe) \in Seq(Keys \cup {ClosePipe})
          /\ Len(Append(looperPipe, ClosePipe)) <= PipeCapacity
      BY <1>6, PipeWrite DEF WriteClose, KeyTypeOK
    <3> QED BY <1>6, <3>1 DEF WriteClose, KeyTypeOK
  <2>3. StatusTypeOK'
    BY <1>6 DEF WriteClose, StatusTypeOK
  <2> QED BY <2>1, <2>2, <2>3
<1>7. CASE JoinLooper
  <2>1. ControlTypeOK'
    BY <1>7 DEF JoinLooper, Disconnecting, ControlTypeOK
  <2>2. KeyTypeOK'
    BY <1>7 DEF JoinLooper, KeyTypeOK
  <2>3. StatusTypeOK'
    BY <1>7 DEF JoinLooper, StatusTypeOK
  <2> QED BY <2>1, <2>2, <2>3
<1>8. CASE CloseStatus
  <2>1. ControlTypeOK'
    BY <1>8 DEF CloseStatus, Disconnecting, ControlTypeOK
  <2>2. KeyTypeOK'
    BY <1>8 DEF CloseStatus, KeyTypeOK
  <2>3. StatusTypeOK'
    <3> DEFINE S == Notifications \cup {"CLOSE_PIPE"}
    <3>1. "CLOSE_PIPE" \in S
      BY <1>8 DEF CloseStatus, StatusTypeOK
    <3>2. Append(statusPipe, "CLOSE_PIPE") \in Seq(S)
          /\ Len(Append(statusPipe, "CLOSE_PIPE")) <= PipeCapacity
      BY <1>8, <3>1, PipeWrite DEF CloseStatus, StatusTypeOK
    <3> QED BY <1>8, <3>2 DEF CloseStatus, StatusTypeOK
  <2> QED BY <2>1, <2>2, <2>3
<1>9. CASE Deinit
  <2>1. ControlTypeOK'
    BY <1>9 DEF Deinit, Disconnecting, ControlTypeOK
  <2>2. KeyTypeOK'
    BY <1>9 DEF Deinit, KeyTypeOK
  <2>3. StatusTypeOK'
    BY <1>9, SessionAssumption DEF Deinit, StatusTypeOK
  <2> QED BY <2>1, <2>2, <2>3
<1>10. CASE NotifyInDeinit
  <2>1. ControlTypeOK'
    BY <1>10 DEF NotifyInDeinit, Disconnecting, ControlTypeOK
  <2>2. KeyTypeOK'
    BY <1>10 DEF NotifyInDeinit, KeyTypeOK
  <2>3. StatusTypeOK'
    <3> DEFINE S == Notifications \cup {"CLOSE_PIPE"}
    <3>1. uiStatus \in S
      BY <1>10 DEF NotifyInDeinit, StatusTypeOK
    <3>2. Append(statusPipe, uiStatus) \in Seq(S)
          /\ Len(Append(statusPipe, uiStatus)) <= PipeCapacity
      BY <1>10, <3>1, PipeWrite DEF NotifyInDeinit, StatusTypeOK
    <3> QED BY <1>10, <3>2 DEF NotifyInDeinit, StatusTypeOK
  <2> QED BY <2>1, <2>2, <2>3
<1>11. CASE Free
  <2>1. ControlTypeOK'
    BY <1>11 DEF Free, Disconnecting, ControlTypeOK
  <2>2. KeyTypeOK'
    BY <1>11 DEF Free, KeyTypeOK
  <2>3. StatusTypeOK'
    BY <1>11 DEF Free, StatusTypeOK
  <2> QED BY <2>1, <2>2, <2>3
<1>12. CASE JoinReader
  <2>1. ControlTypeOK'
    BY <1>12 DEF JoinReader, ControlTypeOK
  <2>2. KeyTypeOK'
    BY <1>12 DEF JoinReader, KeyTypeOK
  <2>3. StatusTypeOK'
    BY <1>12 DEF JoinReader, StatusTypeOK
  <2> QED BY <2>1, <2>2, <2>3
<1>13. CASE Deliver
  <2>1. ControlTypeOK'
    BY <1>13 DEF Deliver, ConnectedBy, ControlTypeOK
  <2>2. KeyTypeOK'
    BY <1>13 DEF Deliver, KeyTypeOK
  <2>3. StatusTypeOK'
    BY <1>13 DEF Deliver, StatusTypeOK
  <2> QED BY <2>1, <2>2, <2>3
<1>14. CASE OnKeyAvailable
  <2> DEFINE m == Head(looperPipe)
  <2>1. /\ m \in Keys \cup {ClosePipe}
        /\ Tail(looperPipe) \in Seq(Keys \cup {ClosePipe})
        /\ Len(Tail(looperPipe)) <= PipeCapacity
    BY <1>14, SessionAssumption DEF OnKeyAvailable, KeyTypeOK
  <2>2. /\ AsksExit(m) \in BOOLEAN
        /\ ArmedAfter(m) \in BOOLEAN
        /\ PendingAfter(m) \in Keys \cup {NoKey}
        /\ sent \o Handle(m) \in Seq(ReportIds \X (KeyCodes \cup {0}))
    BY <2>1, HandleType DEF AsksExit, KeyTypeOK
  <2> HIDE DEF m
  <2>3. /\ looperPipe' = Tail(looperPipe)
        /\ exitRequested' = (exitRequested \/ AsksExit(m))
        /\ sent' = sent \o Handle(m)
        /\ pendingRelease' = PendingAfter(m)
        /\ releaseArmed' = ArmedAfter(m)
        /\ UNCHANGED <<crashed, sessionVars, uiVars, looper, looperStatus,
                       readerVars, screenVars, statusPipe, notified, accepted>>
    BY <1>14 DEF OnKeyAvailable, m
  <2>4. ControlTypeOK'
    BY <2>2, <2>3 DEF ControlTypeOK
  <2>5. KeyTypeOK'
    BY <2>1, <2>2, <2>3 DEF KeyTypeOK
  <2>6. StatusTypeOK'
    BY <2>3 DEF StatusTypeOK
  <2> QED BY <2>4, <2>5, <2>6
<1>15. CASE OnKeyRelease
  <2>1. ControlTypeOK'
    BY <1>15 DEF OnKeyRelease, ControlTypeOK
  <2>2. KeyTypeOK'
    <3> DEFINE R == ReportIds \X (KeyCodes \cup {0})
    <3>1. sent \o PendingReports \in Seq(R)
      <4>1. PendingReports \in Seq(R)
        BY ClosePipe \in Keys \cup {ClosePipe}, HandleType
      <4>2. sent \in Seq(R)
        BY DEF KeyTypeOK
      <4> HIDE DEF R
      <4> QED BY <4>1, <4>2
    <3> QED BY <1>15, <3>1 DEF OnKeyRelease, KeyTypeOK
  <2>3. StatusTypeOK'
    BY <1>15 DEF OnKeyRelease, StatusTypeOK
  <2> QED BY <2>1, <2>2, <2>3
<1>16. ASSUME NEW state \in Notifications, OnStatus(state) PROVE TypeOK'
  <2>1. ControlTypeOK'
    BY <1>16 DEF OnStatus, ControlTypeOK
  <2>2. KeyTypeOK'
    BY <1>16 DEF OnStatus, KeyTypeOK
  <2>3. StatusTypeOK'
    BY <1>16, SessionAssumption DEF OnStatus, StatusTypeOK
  <2> QED BY <2>1, <2>2, <2>3
<1>17. CASE WriteStatus
  <2>1. ControlTypeOK'
    BY <1>17 DEF WriteStatus, ControlTypeOK
  <2>2. KeyTypeOK'
    BY <1>17 DEF WriteStatus, KeyTypeOK
  <2>3. StatusTypeOK'
    <3> DEFINE S == Notifications \cup {"CLOSE_PIPE"}
    <3>1. looperStatus \in S
      BY <1>17 DEF WriteStatus, StatusTypeOK
    <3>2. Append(statusPipe, looperStatus) \in Seq(S)
          /\ Len(Append(statusPipe, looperStatus)) <= PipeCapacity
      BY <1>17, <3>1, PipeWrite DEF WriteStatus, StatusTypeOK
    <3> QED BY <1>17, <3>2 DEF WriteStatus, StatusTypeOK
  <2> QED BY <2>1, <2>2, <2>3
<1>18. CASE LooperReturn
  <2>1. ControlTypeOK'
    BY <1>18 DEF LooperReturn, ControlTypeOK
  <2>2. KeyTypeOK'
    BY <1>18 DEF LooperReturn, KeyTypeOK
  <2>3. StatusTypeOK'
    BY <1>18 DEF LooperReturn, StatusTypeOK
  <2> QED BY <2>1, <2>2, <2>3
<1>19. CASE ReadStatus
  <2>1. ControlTypeOK'
    BY <1>19 DEF ReadStatus, ControlTypeOK
  <2>2. KeyTypeOK'
    BY <1>19 DEF ReadStatus, KeyTypeOK
  <2>3. StatusTypeOK'
    <3> DEFINE m == Head(statusPipe)
    <3>1. /\ m \in Notifications \cup {"CLOSE_PIPE"}
          /\ Tail(statusPipe) \in Seq(Notifications \cup {"CLOSE_PIPE"})
          /\ Len(Tail(statusPipe)) <= PipeCapacity
      BY <1>19, PipeRead DEF ReadStatus, StatusTypeOK
    <3>2. StatusText(m) \in Texts \cup {"EXIT"} /\ StatusText(m) # "none"
      BY <3>1, StatusTexts DEF StatusText
    <3> HIDE DEF m
    <3>3. statusPipe' = Tail(statusPipe) /\ text' = StatusText(m)
      BY <1>19 DEF ReadStatus, m
    <3> QED BY <1>19, <3>1, <3>2, <3>3 DEF ReadStatus, StatusTypeOK
  <2> QED BY <2>1, <2>2, <2>3
<1>20. CASE PostStatus
  <2>1. ControlTypeOK'
    BY <1>20 DEF PostStatus, ControlTypeOK
  <2>2. KeyTypeOK'
    BY <1>20 DEF PostStatus, KeyTypeOK
  <2>3. StatusTypeOK'
    BY <1>20 DEF PostStatus, PostText, StatusTypeOK
  <2> QED BY <2>1, <2>2, <2>3
<1>21. CASE Fault
  <2>1. ControlTypeOK'
    BY <1>21 DEF Fault, ControlTypeOK
  <2>2. KeyTypeOK'
    BY <1>21 DEF Fault, KeyTypeOK
  <2>3. StatusTypeOK'
    BY <1>21 DEF Fault, StatusTypeOK
  <2> QED BY <2>1, <2>2, <2>3
<1>22. CASE UNCHANGED vars
  <2>1. ControlTypeOK'
    BY <1>22 DEF vars, ControlTypeOK
  <2>2. KeyTypeOK'
    BY <1>22 DEF vars, KeyTypeOK
  <2>3. StatusTypeOK'
    BY <1>22 DEF vars, StatusTypeOK
  <2> QED BY <2>1, <2>2, <2>3
<1> QED
  BY <1>1, <1>2, <1>3, <1>4, <1>5, <1>6, <1>7, <1>8, <1>9, <1>10, <1>11,
     <1>12, <1>13, <1>14, <1>15, <1>16, <1>17, <1>18, <1>19, <1>20, <1>21,
     <1>22 DEF Next, UiNext, LooperNext, ReaderNext

(* Each variable of a session keeps to its type, and no pipe ever holds    *)
(* more than it can: Rcu.cpp, Pipe.cpp, Freebox.java.                      *)
THEOREM TypeCorrect == SafeSpec => []TypeOK
BY TypeInit, TypeStep, PTL DEF SafeSpec

(* No step of a thread needs an object that LiveInv says is not there.     *)
LEMMA NeedsMet == TypeOK /\ LiveInv /\ ReaderInv => ~Fault
<1> SUFFICES ASSUME TypeOK, LiveInv, ReaderInv PROVE ~Fault
  OBVIOUS
<1>1. UiNeeds \subseteq live
  <2>1. ui \in {"idle", "startReader", "sendKey"} \cup Disconnecting
    BY DEF TypeOK, ControlTypeOK
  <2> QED BY <2>1 DEF UiNeeds, LiveInv, Objects, Disconnecting
<1>2. LooperNeeds \subseteq live
  BY DEF LooperNeeds, LiveInv, Objects
<1>3. ReaderNeeds \subseteq live
  <2>1. ui \in {"idle", "startReader", "sendKey"} \cup Disconnecting
    BY DEF TypeOK, ControlTypeOK
  <2> QED BY <2>1 DEF ReaderNeeds, LiveInv, Objects, Disconnecting
<1> QED BY <1>1, <1>2, <1>3 DEF Fault

(* What exists at each step of the main thread.                            *)
LEMMA LiveStep ==
  ASSUME TypeOK, LiveInv, ReaderInv, [Next]_vars, ~Connect("unparsable")
  PROVE  LiveInv'
<1>1. CASE Connect("numeric")
  BY <1>1 DEF Connect, LiveInv, Objects, Alive
<1>2. ASSUME NEW key \in Keys, SendKey(key) PROVE LiveInv'
  BY <1>2 DEF SendKey, LiveInv, Objects, TypeOK, ControlTypeOK
<1>3. ASSUME NEW state \in Notifications, OnStatus(state) PROVE LiveInv'
  BY <1>3 DEF OnStatus, LiveInv, Objects, TypeOK, ControlTypeOK
<1>4. CASE StartReader
  BY <1>4 DEF StartReader, LiveInv, Objects, TypeOK, ControlTypeOK
<1>5. CASE WriteKey
  BY <1>5 DEF WriteKey, LiveInv, Objects, TypeOK, ControlTypeOK
<1>6. CASE BeginDisconnect
  BY <1>6 DEF BeginDisconnect, LiveInv, Objects, TypeOK, ControlTypeOK
<1>7. CASE WriteClose
  BY <1>7 DEF WriteClose, LiveInv, Objects, TypeOK, ControlTypeOK
<1>8. CASE JoinLooper
  BY <1>8 DEF JoinLooper, LiveInv, Objects, TypeOK, ControlTypeOK
<1>9. CASE CloseStatus
  BY <1>9 DEF CloseStatus, LiveInv, Objects, TypeOK, ControlTypeOK
<1>10. CASE Deinit
  BY <1>10 DEF Deinit, LiveInv, Objects, TypeOK, ControlTypeOK
<1>11. CASE NotifyInDeinit
  BY <1>11 DEF NotifyInDeinit, LiveInv, Objects, TypeOK, ControlTypeOK
<1>12. CASE Free
  BY <1>12 DEF Free, LiveInv, Objects, TypeOK, ControlTypeOK
<1>13. CASE JoinReader
  BY <1>13 DEF JoinReader, LiveInv, Objects, TypeOK, ControlTypeOK
<1>14. CASE Deliver
  BY <1>14 DEF Deliver, LiveInv, Objects, TypeOK, ControlTypeOK
<1>15. CASE OnKeyAvailable
  BY <1>15 DEF OnKeyAvailable, LiveInv, Objects, TypeOK, ControlTypeOK
<1>16. CASE OnKeyRelease
  BY <1>16 DEF OnKeyRelease, LiveInv, Objects, TypeOK, ControlTypeOK
<1>17. CASE WriteStatus
  BY <1>17 DEF WriteStatus, LiveInv, Objects, TypeOK, ControlTypeOK
<1>18. CASE LooperReturn
  BY <1>18 DEF LooperReturn, LiveInv, Objects, TypeOK, ControlTypeOK
<1>19. CASE ReadStatus
  BY <1>19 DEF ReadStatus, LiveInv, Objects, TypeOK, ControlTypeOK
<1>20. CASE PostStatus
  BY <1>20 DEF PostStatus, LiveInv, Objects, TypeOK, ControlTypeOK
<1>21. CASE Fault
  BY <1>21, NeedsMet
<1>22. CASE UNCHANGED vars
  BY <1>22 DEF vars, LiveInv, Objects, TypeOK, ControlTypeOK
<1> QED
  BY SessionAssumption, <1>1, <1>2, <1>3, <1>4, <1>5, <1>6, <1>7, <1>8,
     <1>9, <1>10, <1>11, <1>12, <1>13, <1>14, <1>15, <1>16, <1>17, <1>18,
     <1>19, <1>20, <1>21, <1>22
     DEF Next, UiNext, LooperNext, ReaderNext

(* CLOSE_PIPE is the last message of the looper pipe, and the only one.    *)
LEMMA LooperStep ==
  ASSUME TypeOK, LiveInv, LooperInv, ReaderInv, [Next]_vars, ~Connect("unparsable")
  PROVE  LooperInv'
<1>1. CASE Connect("numeric")
  BY <1>1 DEF Connect, LooperInv, HasNoClose
<1>2. ASSUME NEW key \in Keys, SendKey(key) PROVE LooperInv'
  BY <1>2 DEF SendKey, LooperInv, LiveInv, Objects
<1>3. ASSUME NEW state \in Notifications, OnStatus(state) PROVE LooperInv'
  BY <1>3 DEF OnStatus, LooperInv, LiveInv, Objects
<1>4. CASE StartReader
  BY <1>4 DEF StartReader, LooperInv, LiveInv, Objects
<1>5. CASE WriteKey
  <2>1. HasNoClose(looperPipe, ClosePipe) /\ looperPipe \in Seq(Keys \cup {ClosePipe})
    BY <1>5 DEF WriteKey, LiveInv, LooperInv, Objects, TypeOK, KeyTypeOK
  <2>2. uiKey \in Keys /\ uiKey # ClosePipe
    BY <1>5, KeyIsNoMarker DEF WriteKey, TypeOK, KeyTypeOK
  <2>3. HasNoClose(Append(looperPipe, uiKey), ClosePipe)
    BY <2>1, <2>2 DEF HasNoClose
  <2> QED BY <1>5, <2>1, <2>3 DEF WriteKey, LooperInv
<1>6. CASE BeginDisconnect
  BY <1>6 DEF BeginDisconnect, LooperInv, LiveInv, Objects
<1>7. CASE WriteClose
  <2>1. looper # "none" => HasNoClose(looperPipe, ClosePipe) /\ ~exitRequested
    BY <1>7 DEF WriteClose, LooperInv
  <2>2. looperPipe \in Seq(Keys \cup {ClosePipe})
    BY DEF TypeOK, KeyTypeOK
  <2> DEFINE p == Append(looperPipe, ClosePipe)
  <2>3. p # <<>> /\ p[Len(p)] = ClosePipe /\ Len(p) - 1 = Len(looperPipe)
        /\ \A i \in 1..Len(looperPipe) : p[i] = looperPipe[i]
    BY <2>2, ClosePipe \in Keys \cup {ClosePipe}, AppendProperties
  <2> HIDE DEF p
  <2>4. looperPipe' = p /\ ui' = "joinLooper" /\ UNCHANGED <<looper, exitRequested>>
    BY <1>7 DEF WriteClose, p
  <2> QED BY <2>1, <2>3, <2>4 DEF LooperInv, HasNoClose
<1>8. CASE JoinLooper
  BY <1>8 DEF JoinLooper, LooperInv, LiveInv, Objects
<1>9. CASE CloseStatus
  BY <1>9 DEF CloseStatus, LooperInv, LiveInv, Objects
<1>10. CASE Deinit
  BY <1>10 DEF Deinit, LooperInv, LiveInv, Objects
<1>11. CASE NotifyInDeinit
  BY <1>11 DEF NotifyInDeinit, LooperInv, LiveInv, Objects
<1>12. CASE Free
  BY <1>12 DEF Free, LooperInv, LiveInv, Objects
<1>13. CASE JoinReader
  BY <1>13 DEF JoinReader, LooperInv, LiveInv, Objects
<1>14. CASE Deliver
  BY <1>14 DEF Deliver, LooperInv, LiveInv, Objects
<1>15. CASE OnKeyAvailable
  <2> DEFINE m == Head(looperPipe)
             q == Tail(looperPipe)
  <2>1. looperPipe \in Seq(Keys \cup {ClosePipe}) /\ looperPipe # <<>>
    BY <1>15 DEF OnKeyAvailable, TypeOK, KeyTypeOK
  <2>2. /\ m = looperPipe[1] /\ Len(looperPipe) \in Nat \ {0}
        /\ q \in Seq(Keys \cup {ClosePipe}) /\ Len(q) = Len(looperPipe) - 1
        /\ \A i \in 1..Len(q) : q[i] = looperPipe[i + 1]
    BY <2>1
  <2> HIDE DEF m, q
  <2>3. /\ looper = "loop" /\ ~exitRequested /\ looperPipe' = q
        /\ exitRequested' <=> m = ClosePipe
        /\ UNCHANGED <<looper, ui>>
    <3>1. /\ looper = "loop" /\ looperPipe' = q
          /\ exitRequested' = (exitRequested \/ AsksExit(m))
          /\ UNCHANGED <<looper, ui>>
      BY <1>15 DEF OnKeyAvailable, m, q
    <3>2. ~exitRequested
      BY <2>1, <3>1 DEF LooperInv
    <3> QED BY <3>1, <3>2 DEF AsksExit
  <2>4. CASE ui # "joinLooper"
    <3>1. m # ClosePipe /\ HasNoClose(q, ClosePipe)
      BY <2>2, <2>3, <2>4 DEF LooperInv, HasNoClose
    <3> QED BY <2>3, <2>4, <3>1 DEF LooperInv
  <2>5. CASE ui = "joinLooper" /\ m = ClosePipe
    <3>1. Len(looperPipe) = 1
      <4>1. \A i \in 1..(Len(looperPipe) - 1) : looperPipe[i] # ClosePipe
        BY <2>3, <2>5 DEF LooperInv
      <4>2. 1 \notin 1..(Len(looperPipe) - 1)
        BY <2>2, <2>5, <4>1
      <4> QED BY <2>2, <4>2
    <3>2. q = <<>>
      BY <2>2, <3>1
    <3> QED BY <2>3, <2>5, <3>2 DEF LooperInv
  <2>6. CASE ui = "joinLooper" /\ m # ClosePipe
    <3>1. Len(looperPipe) > 1
      BY <2>2, <2>3, <2>6 DEF LooperInv
    <3>2. q # <<>> /\ q[Len(q)] = ClosePipe
      BY <2>2, <2>3, <2>6, <3>1 DEF LooperInv
    <3>3. \A i \in 1..(Len(q) - 1) : q[i] # ClosePipe
      BY <2>2, <2>3, <2>6 DEF LooperInv
    <3> QED BY <2>3, <2>6, <3>2, <3>3 DEF LooperInv
  <2> QED BY <2>4, <2>5, <2>6
<1>16. CASE OnKeyRelease
  BY <1>16 DEF OnKeyRelease, LooperInv, LiveInv, Objects
<1>17. CASE WriteStatus
  BY <1>17 DEF WriteStatus, LooperInv, LiveInv, Objects
<1>18. CASE LooperReturn
  BY <1>18 DEF LooperReturn, LooperInv, LiveInv, Objects
<1>19. CASE ReadStatus
  BY <1>19 DEF ReadStatus, LooperInv, LiveInv, Objects
<1>20. CASE PostStatus
  BY <1>20 DEF PostStatus, LooperInv, LiveInv, Objects
<1>21. CASE Fault
  BY <1>21, NeedsMet
<1>22. CASE UNCHANGED vars
  BY <1>22 DEF vars, LooperInv, LiveInv, Objects
<1> QED
  BY SessionAssumption, <1>1, <1>2, <1>3, <1>4, <1>5, <1>6, <1>7, <1>8,
     <1>9, <1>10, <1>11, <1>12, <1>13, <1>14, <1>15, <1>16, <1>17, <1>18,
     <1>19, <1>20, <1>21, <1>22
     DEF Next, UiNext, LooperNext, ReaderNext

(* "EXIT" is posted after disconnect has closed the status pipe, and        *)
(* nothing is posted after it.                                             *)
LEMMA ReaderStep ==
  ASSUME TypeOK, LiveInv, LooperInv, ReaderInv, [Next]_vars, ~Connect("unparsable")
  PROVE  ReaderInv'
<1>1. CASE Connect("numeric")
  <2>1. HasNoClose(statusPipe', "CLOSE_PIPE")
    BY <1>1, StatusTexts DEF Connect, HasNoClose
  <2> QED BY <1>1, <2>1 DEF Connect, LiveInv, ReaderInv, StatusClosed, IndicatorSettles, Objects
<1>2. ASSUME NEW key \in Keys, SendKey(key) PROVE ReaderInv'
  BY <1>2 DEF SendKey, LiveInv, ReaderInv, StatusClosed, IndicatorSettles, Objects, Disconnecting
<1>3. ASSUME NEW state \in Notifications, OnStatus(state) PROVE ReaderInv'
  BY <1>3 DEF OnStatus, LiveInv, ReaderInv, StatusClosed, IndicatorSettles, Objects, Disconnecting
<1>4. CASE StartReader
  BY <1>4 DEF StartReader, LiveInv, ReaderInv, StatusClosed, IndicatorSettles, Objects, Disconnecting
<1>5. CASE WriteKey
  BY <1>5 DEF WriteKey, LiveInv, ReaderInv, StatusClosed, IndicatorSettles, Objects, Disconnecting
<1>6. CASE BeginDisconnect
  BY <1>6 DEF BeginDisconnect, LiveInv, ReaderInv, StatusClosed, IndicatorSettles, Objects, Disconnecting
<1>7. CASE WriteClose
  BY <1>7 DEF WriteClose, LiveInv, ReaderInv, StatusClosed, IndicatorSettles, Objects, Disconnecting
<1>8. CASE JoinLooper
  BY <1>8 DEF JoinLooper, LiveInv, ReaderInv, StatusClosed, IndicatorSettles, Objects, Disconnecting
<1>9. CASE CloseStatus
  BY <1>9 DEF CloseStatus, LiveInv, ReaderInv, StatusClosed, IndicatorSettles, Objects, Disconnecting
<1>10. CASE Deinit
  BY <1>10 DEF Deinit, LiveInv, ReaderInv, StatusClosed, IndicatorSettles, Objects, Disconnecting
<1>11. CASE NotifyInDeinit
  BY <1>11 DEF NotifyInDeinit, LiveInv, ReaderInv, StatusClosed, IndicatorSettles, Objects, Disconnecting
<1>12. CASE Free
  BY <1>12 DEF Free, LiveInv, ReaderInv, StatusClosed, IndicatorSettles, Objects, Disconnecting
<1>13. CASE JoinReader
  BY <1>13 DEF JoinReader, ReaderJoined, LiveInv, ReaderInv, StatusClosed,
             IndicatorSettles, Objects
<1>14. CASE Deliver
  <2> DEFINE q == Tail(posted)
  <2>1. posted \in Seq(Texts \cup {"EXIT"}) /\ posted # <<>>
    BY <1>14 DEF Deliver, TypeOK, StatusTypeOK
  <2>2. /\ q = <<>> => Head(posted) = posted[Len(posted)]
        /\ q # <<>> => q[Len(q)] = posted[Len(posted)]
    BY <2>1, LastOfTail
  <2>3. ui = "idle" /\ ~StatusClosed
    BY <1>14 DEF Deliver, StatusClosed
  <2>4. posted' = q /\ mConnected' = (Head(posted) = "connected")
        /\ UNCHANGED <<live, ui, readerVars, statusPipe>>
    BY <1>14 DEF Deliver, ConnectedBy
  <2> HIDE DEF q
  <2> QED BY <2>1, <2>2, <2>3, <2>4 DEF ReaderInv, StatusClosed, IndicatorSettles
<1>15. CASE OnKeyAvailable
  BY <1>15 DEF OnKeyAvailable, LiveInv, ReaderInv, StatusClosed, IndicatorSettles, Objects, Disconnecting
<1>16. CASE OnKeyRelease
  BY <1>16 DEF OnKeyRelease, LiveInv, ReaderInv, StatusClosed, IndicatorSettles, Objects, Disconnecting
<1>17. CASE WriteStatus
  <2>1. /\ statusPipe \in Seq(Notifications \cup {"CLOSE_PIPE"})
        /\ looperStatus # "CLOSE_PIPE"
    BY <1>17, StatusTexts DEF WriteStatus, TypeOK, StatusTypeOK
  <2>2. HasNoClose(statusPipe, "CLOSE_PIPE")
        => HasNoClose(Append(statusPipe, looperStatus), "CLOSE_PIPE")
    BY <2>1 DEF HasNoClose
  <2> QED BY <1>17, <2>2 DEF WriteStatus, ReaderInv, StatusClosed, IndicatorSettles
<1>18. CASE LooperReturn
  BY <1>18 DEF LooperReturn, LiveInv, ReaderInv, StatusClosed, IndicatorSettles, Objects, Disconnecting
<1>19. CASE ReadStatus
  <2> DEFINE m == Head(statusPipe)
             q == Tail(statusPipe)
  <2>1. /\ statusPipe \in Seq(Notifications \cup {"CLOSE_PIPE"})
        /\ statusPipe # <<>>
    BY <1>19 DEF ReadStatus, TypeOK, StatusTypeOK
  <2>2. /\ m = statusPipe[1] /\ m \in Notifications \cup {"CLOSE_PIPE"}
        /\ Len(statusPipe) \in Nat \ {0} /\ Len(q) = Len(statusPipe) - 1
        /\ \A i \in 1..Len(q) : q[i] = statusPipe[i + 1]
    BY <2>1
  <2>3. m # "CLOSE_PIPE" => StatusText(m) # "EXIT"
    BY <2>2, StatusTexts DEF StatusText
  <2> HIDE DEF m, q
  <2>4. /\ reader = "read" /\ reader' = "post"
        /\ text' = StatusText(m) /\ statusPipe' = q
        /\ UNCHANGED <<live, ui, screenVars>>
    BY <1>19 DEF ReadStatus, m, q
  <2>5. "statusPipe" \in live
    BY <1>19 DEF ReadStatus, Alive, ReaderNeeds
  <2>6. ~StatusClosed => m # "CLOSE_PIPE" /\ HasNoClose(q, "CLOSE_PIPE")
    BY <2>2, <2>5 DEF ReaderInv, HasNoClose
  <2> QED BY <2>3, <2>4, <2>6 DEF ReaderInv, StatusClosed, IndicatorSettles
<1>20. CASE PostStatus
  <2> DEFINE p == Append(posted, text)
  <2>1. p # <<>> /\ p[Len(p)] = text
    BY DEF TypeOK, StatusTypeOK
  <2> HIDE DEF p
  <2>2. /\ reader = "post" /\ posted' = p
        /\ reader' = IF text = "EXIT" THEN "done" ELSE "read"
        /\ UNCHANGED <<live, ui, text, mConnected, statusPipe>>
    BY <1>20 DEF PostStatus, PostText, p
  <2>3. "rcu" \in live
    BY <2>2 DEF LiveInv, Objects, TypeOK, ControlTypeOK, Disconnecting
  <2> QED BY <2>1, <2>2, <2>3 DEF ReaderInv, StatusClosed, IndicatorSettles
<1>21. CASE Fault
  BY <1>21, NeedsMet
<1>22. CASE UNCHANGED vars
  BY <1>22 DEF vars, LiveInv, ReaderInv, StatusClosed, IndicatorSettles, Objects, Disconnecting
<1> QED
  BY SessionAssumption, <1>1, <1>2, <1>3, <1>4, <1>5, <1>6, <1>7, <1>8,
     <1>9, <1>10, <1>11, <1>12, <1>13, <1>14, <1>15, <1>16, <1>17, <1>18,
     <1>19, <1>20, <1>21, <1>22
     DEF Next, UiNext, LooperNext, ReaderNext

(* A session at an address Rcu::Connect rejects stays as it is.            *)
LEMMA StuckStart ==
  ASSUME TypeOK, LiveInv, Connect("unparsable")
  PROVE  Stuck'
BY DEF Connect, LiveInv, Objects, Stuck

(* Nothing leads out of it. *)
LEMMA StuckStep ==
  ASSUME TypeOK, Stuck, [Next]_vars
  PROVE  Stuck'
<1> USE DEF Stuck
<1>1. ASSUME NEW address \in Addresses, Connect(address) PROVE Stuck'
  BY <1>1 DEF Connect
<1>2. CASE JoinLooper \/ JoinReader
  BY <1>2 DEF JoinLooper, JoinReader, LooperJoined, ReaderJoined
<1>3. CASE CloseStatus \/ Free
  BY <1>3 DEF CloseStatus, Free, Alive, UiNeeds
<1>4. ASSUME NEW key \in Keys, SendKey(key) PROVE Stuck'
  BY <1>4 DEF SendKey
<1>5. CASE StartReader \/ WriteKey \/ BeginDisconnect \/ WriteClose
  BY <1>5 DEF StartReader, WriteKey, BeginDisconnect, WriteClose
<1>6. CASE Deinit \/ NotifyInDeinit \/ Deliver
  BY <1>6 DEF Deinit, NotifyInDeinit, Deliver
<1>7. ASSUME NEW state \in Notifications, OnStatus(state) PROVE Stuck'
  BY <1>7 DEF OnStatus
<1>8. CASE OnKeyAvailable \/ OnKeyRelease \/ WriteStatus \/ LooperReturn
  BY <1>8 DEF OnKeyAvailable, OnKeyRelease, WriteStatus, LooperReturn
<1>9. CASE ReadStatus \/ PostStatus
  BY <1>9 DEF ReadStatus, PostStatus, Alive, ReaderNeeds
<1>10. CASE Fault \/ UNCHANGED vars
  BY <1>10 DEF Fault, vars
<1> QED
  BY <1>1, <1>2, <1>3, <1>4, <1>5, <1>6, <1>7, <1>8, <1>9, <1>10
     DEF Next, UiNext, LooperNext, ReaderNext

(* SessionInv is inductive. *)
LEMMA SessionInit == Init => SessionInv
<1> SUFFICES ASSUME Init PROVE SessionInv
  OBVIOUS
<1>1. LiveInv /\ LooperInv
  BY DEF Init, LiveInv, LooperInv, Objects
<1>2. ReaderInv
  BY DEF Init, ReaderInv, HasNoClose, StatusClosed, IndicatorSettles
<1> QED BY <1>1, <1>2, TypeInit DEF SessionInv

(* Every step of the three threads keeps SessionInv. *)
LEMMA SessionStep == SessionInv /\ [Next]_vars => SessionInv'
<1> SUFFICES ASSUME SessionInv, [Next]_vars PROVE SessionInv'
  OBVIOUS
<1>1. TypeOK /\ TypeOK'
  BY TypeStep DEF SessionInv
<1>2. CASE Stuck
  BY <1>1, <1>2, StuckStep DEF SessionInv
<1>3. CASE LiveInv /\ LooperInv /\ ReaderInv /\ Connect("unparsable")
  BY <1>1, <1>3, StuckStart DEF SessionInv
<1>4. CASE LiveInv /\ LooperInv /\ ReaderInv /\ ~Connect("unparsable")
  BY <1>1, <1>4, LiveStep, LooperStep, ReaderStep DEF SessionInv
<1> QED BY <1>2, <1>3, <1>4 DEF SessionInv

(* The threads of a session follow one another as SessionInv says, at each *)
(* step of Freebox.connect and disconnect, Rcu.cpp and the two pipes.      *)
THEOREM SessionInvariant == SafeSpec => []SessionInv
BY SessionInit, SessionStep, PTL DEF SafeSpec

(* Disconnect never frees what another thread, or the HID client's last    *)
(* callback, is still going to use: Rcu.cpp, Freebox.java.                 *)
THEOREM NeverFaults == SafeSpec => []NoFault
<1>1. SessionInv => NoFault
  BY DEF SessionInv, LiveInv, Stuck, NoFault
<1> QED BY <1>1, SessionInvariant, PTL

(* The indicator is off between sessions once "EXIT" is delivered, and     *)
(* "EXIT" is the last text posted: Freebox.java, MainActivity.java.        *)
THEOREM IndicatorAlwaysSettles == SafeSpec => []IndicatorSettles
<1>1. SessionInv => IndicatorSettles
  BY DEF SessionInv, ReaderInv, Stuck, IndicatorSettles
<1> QED BY <1>1, SessionInvariant, PTL

(* The looper pipe is empty when Rcu::Disconnect deletes it.               *)
THEOREM NothingEverLost == SafeSpec => NothingLost
<1> DEFINE A == ("looperPipe" \in live /\ "looperPipe" \notin live')
                  => looperPipe = <<>>
<1>1. ASSUME SessionInv, SessionInv', [Next]_vars PROVE [A]_vars
  <2>1. ASSUME NEW address \in Addresses, Connect(address) PROVE A
    BY <2>1, SessionAssumption, <1>1 DEF Connect, Objects, SessionInv, LiveInv, Stuck
  <2>2. CASE JoinLooper
    BY <1>1, <2>2 DEF JoinLooper, LooperJoined, SessionInv, LooperInv, Stuck
  <2>3. ASSUME live' = live \/ CloseStatus \/ Free \/ JoinReader PROVE A
    BY <2>3 DEF CloseStatus, Free, JoinReader
  <2>4. Next => \/ \E address \in Addresses : Connect(address)
               \/ JoinLooper
               \/ live' = live \/ CloseStatus \/ Free \/ JoinReader
    <3>1. StartReader \/ (\E key \in Keys : SendKey(key)) \/ WriteKey
          \/ BeginDisconnect \/ WriteClose \/ Deinit \/ NotifyInDeinit
          \/ Deliver => live' = live
      BY DEF StartReader, SendKey, WriteKey, BeginDisconnect, WriteClose,
             Deinit, NotifyInDeinit, Deliver
    <3>2. LooperNext => live' = live
      BY DEF LooperNext, OnKeyAvailable, OnKeyRelease, OnStatus, WriteStatus,
             LooperReturn
    <3>3. ReaderNext \/ Fault => live' = live
      BY DEF ReaderNext, ReadStatus, PostStatus, Fault
    <3> QED BY <3>1, <3>2, <3>3 DEF Next, UiNext
  <2> QED BY <1>1, <2>1, <2>2, <2>3, <2>4
<1>2. SafeSpec => [][A]_vars
  BY <1>1, SessionInvariant, PTL DEF SafeSpec
<1> QED BY <1>2 DEF NothingLost

(* The pending release goes out, and its timer is gone, with CLOSE_PIPE at *)
(* the latest; nothing but the event loop sets either again.               *)
LEMMA ReleaseStep == SessionInv /\ ReleaseInv /\ [Next]_vars => ReleaseInv'
<1> SUFFICES ASSUME SessionInv, ReleaseInv, [Next]_vars PROVE ReleaseInv'
  OBVIOUS
<1> USE DEF ReleaseInv
<1>1. ASSUME NEW address \in Addresses, Connect(address) PROVE ReleaseInv'
  <2>1. looper = "none"
    BY <1>1 DEF Connect, SessionInv, LiveInv, Stuck, Objects
  <2> QED BY <1>1, <2>1 DEF Connect
<1>2. CASE JoinLooper
  BY <1>2 DEF JoinLooper, LooperJoined
<1>3. CASE CloseStatus
  BY <1>3 DEF CloseStatus
<1>4. CASE Free
  <2>1. looper = "none"
    BY <1>4 DEF Free, SessionInv, LiveInv, Stuck, Objects, Alive, UiNeeds
  <2> QED BY <1>4, <2>1 DEF Free
<1>5. CASE OnKeyAvailable
  <2> DEFINE m == Head(looperPipe)
  <2>1. ~exitRequested
    BY <1>5 DEF OnKeyAvailable, SessionInv, LooperInv, Stuck
  <2>2. m \in Keys \cup {ClosePipe}
    BY <1>5, PipeRead DEF OnKeyAvailable, SessionInv, TypeOK, KeyTypeOK
  <2>3. CASE m = ClosePipe
    <3>1. ~Timed(m)
      BY <2>3 DEF Timed, ClosePipe
    <3>2. pendingRelease' = NoKey /\ releaseArmed' = FALSE
      BY <1>5, <3>1 DEF OnKeyAvailable, PendingAfter, ArmedAfter
    <3> QED BY <3>2
  <2>4. CASE m \in Keys
    <3>1. m # ClosePipe /\ m # NoKey
      BY <2>4, KeyIsNoMarker
    <3>2. looper' = "loop" /\ ~exitRequested'
      BY <1>5, <3>1, <2>1 DEF OnKeyAvailable, AsksExit
    <3>3. pendingRelease' = (IF Timed(m) THEN m ELSE NoKey)
          /\ releaseArmed' = (Timed(m) \/ (releaseArmed /\ pendingRelease = NoKey))
      BY <1>5 DEF OnKeyAvailable, PendingAfter, ArmedAfter
    <3> HIDE DEF m
    <3> QED BY <2>1, <3>1, <3>2, <3>3
  <2> QED BY <2>2, <2>3, <2>4
<1>6. CASE OnKeyRelease
  BY <1>6 DEF OnKeyRelease
<1>7. ASSUME NEW state \in Notifications, OnStatus(state) PROVE ReleaseInv'
  BY <1>7 DEF OnStatus
<1>8. CASE WriteStatus
  BY <1>8 DEF WriteStatus
<1>9. CASE LooperReturn
  BY <1>9 DEF LooperReturn
<1>10. ASSUME UNCHANGED <<keyVars, looperVars>> PROVE ReleaseInv'
  BY <1>10
<1>11. StartReader \/ (\E key \in Keys : SendKey(key)) \/ WriteKey
       \/ BeginDisconnect \/ WriteClose \/ Deinit \/ NotifyInDeinit
       \/ JoinReader \/ Deliver => UNCHANGED <<keyVars, looperVars>>
  BY DEF StartReader, SendKey, WriteKey, BeginDisconnect, WriteClose, Deinit,
         NotifyInDeinit, JoinReader, Deliver
<1>12. ReaderNext \/ Fault \/ UNCHANGED vars => UNCHANGED <<keyVars, looperVars>>
  BY DEF ReaderNext, ReadStatus, PostStatus, Fault, vars
<1> QED
  BY <1>1, <1>2, <1>3, <1>4, <1>5, <1>6, <1>7, <1>8, <1>9, <1>10, <1>11, <1>12
     DEF Next, UiNext, LooperNext

(* No key pressed with automatic release is held down on the box once the  *)
(* event loop has ended, whichever of the timer, the next key and          *)
(* CLOSE_PIPE released it: Rcu.cpp, OnKeyAvailable and OnKeyRelease.       *)
THEOREM NeverLeftPressed == SafeSpec => []NoKeyLeftPressed
<1>1. Init => ReleaseInv
  BY DEF Init, ReleaseInv
<1>2. ReleaseInv => NoKeyLeftPressed
  BY DEF ReleaseInv, NoKeyLeftPressed
<1> QED BY <1>1, <1>2, ReleaseStep, SessionInvariant, PTL DEF SafeSpec

(* The indicator follows the texts in the order they are read. *)
LEMMA IndicatorStep == SessionInv /\ IndicatorInv /\ [Next]_vars => IndicatorInv'
<1> SUFFICES ASSUME SessionInv, IndicatorInv, [Next]_vars PROVE IndicatorInv'
  OBVIOUS
<1>0. TypeOK
  BY DEF SessionInv
<1> USE DEF IndicatorInv
<1>1. CASE StartReader
  <2>1. reader # "post"
    BY <1>1 DEF StartReader, SessionInv, LiveInv, Stuck
  <2> QED BY <1>1, <2>1 DEF StartReader
<1>2. CASE JoinReader
  BY <1>2 DEF JoinReader, ReaderJoined
<1>3. CASE Deliver
  <2> DEFINE q == Tail(posted)
  <2>1. posted \in Seq(Texts \cup {"EXIT"}) /\ posted # <<>>
    BY <1>0, <1>3 DEF Deliver, TypeOK, StatusTypeOK
  <2>2. /\ q = <<>> => Head(posted) = posted[Len(posted)]
        /\ q # <<>> => q[Len(q)] = posted[Len(posted)]
    BY <2>1, LastOfTail
  <2>3. posted' = q /\ mConnected' = (Head(posted) = "connected")
        /\ UNCHANGED readerVars
    BY <1>3 DEF Deliver, ConnectedBy
  <2> HIDE DEF q
  <2> QED BY <2>1, <2>2, <2>3
<1>4. CASE ReadStatus
  BY <1>4 DEF ReadStatus
<1>5. CASE PostStatus
  <2> DEFINE p == Append(posted, text)
  <2>0. posted \in Seq(Texts \cup {"EXIT"})
    BY <1>0 DEF TypeOK, StatusTypeOK
  <2>1. p # <<>> /\ p[Len(p)] = text
    BY <2>0, AppendProperties
  <2> HIDE DEF p
  <2>2. posted' = p /\ text' = text
    BY <1>5 DEF PostStatus, PostText, p
  <2> QED BY <2>1, <2>2
<1>6. ASSUME UNCHANGED <<readerVars, screenVars>> PROVE IndicatorInv'
  BY <1>6
<1>7. ASSUME \/ \E address \in Addresses : Connect(address)
             \/ \E key \in Keys : SendKey(key)
             \/ WriteKey \/ BeginDisconnect \/ WriteClose \/ JoinLooper
             \/ CloseStatus \/ Deinit \/ NotifyInDeinit \/ Free
      PROVE  UNCHANGED <<readerVars, screenVars>>
  BY <1>7 DEF Connect, SendKey, WriteKey, BeginDisconnect, WriteClose,
              JoinLooper, CloseStatus, Deinit, NotifyInDeinit, Free
<1>8. ASSUME LooperNext \/ Fault \/ UNCHANGED vars
      PROVE  UNCHANGED <<readerVars, screenVars>>
  BY <1>8 DEF LooperNext, OnKeyAvailable, OnKeyRelease, OnStatus, WriteStatus,
              LooperReturn, Fault, vars
<1> QED
  BY <1>1, <1>2, <1>3, <1>4, <1>5, <1>6, <1>7, <1>8 DEF Next, UiNext, ReaderNext

(* With every posted text delivered, the activity shows what the status    *)
(* thread last read, across sessions: Freebox.java, MainActivity.java.     *)
THEOREM IndicatorAlwaysCurrent == SafeSpec => []IndicatorCurrent
<1>1. Init => IndicatorInv
  BY DEF Init, IndicatorInv
<1>2. IndicatorInv => IndicatorCurrent
  BY DEF IndicatorInv, IndicatorCurrent
<1> QED BY <1>1, <1>2, IndicatorStep, SessionInvariant, PTL DEF SafeSpec

-----------------------------------------------------------------------------
(* A set of numbers that is not empty has a least one.                     *)
LEMMA LeastNumber ==
  ASSUME NEW T, T \subseteq Nat, T # {}
  PROVE  \E n \in T : \A m \in T : n <= m
<1>1. PICK n \in T : \A m \in T : ~(<<m, n>> \in OpToRel(<, Nat))
  BY NatLessThanWellFounded, WFMin
<1>2. \A m \in T : ~(m < n)
  BY <1>1 DEF OpToRel
<1> QED BY <1>2

Messages   == Keys \cup {ClosePipe}
HidReports == ReportIds \X (KeyCodes \cup {0})

(* Concatenation of reports is associative. *)
LEMMA ReportsAssociate ==
  ASSUME NEW a \in Seq(HidReports), NEW b \in Seq(HidReports), NEW c \in Seq(HidReports)
  PROVE  a \o (b \o c) = (a \o b) \o c
BY ConcatAssociative

(* What a message of the looper pipe makes the box receive, now and with   *)
(* its release.                                                            *)
LEMMA ReportsAre ==
  ASSUME NEW m \in Messages
  PROVE  /\ Reports(m) \in Seq(HidReports)
         /\ Immediate(m) \in Seq(HidReports)
         /\ Reports(m) = Immediate(m) \o (IF Timed(m) THEN <<Release(m)>> ELSE <<>>)
         /\ m = ClosePipe => Reports(m) = <<>>
<1>1. CASE m = ClosePipe
  <2>1. m.command = "CLOSE_PIPE"
    BY <1>1 DEF ClosePipe
  <2>2. Reports(m) = <<>> /\ Immediate(m) = <<>> /\ ~Timed(m)
    BY <1>1, <2>1 DEF Reports, Immediate, Timed
  <2>3. <<>> \in Seq(HidReports) /\ <<>> = <<>> \o <<>>
    OBVIOUS
  <2> QED BY <2>2, <2>3
<1>2. CASE m \in Keys
  <2>1. m # ClosePipe
    BY <1>2, KeyIsNoMarker
  <2>2. /\ m.command \in Commands
        /\ Press(m) \in HidReports /\ Release(m) \in HidReports
    BY <1>2 DEF Keys, HidReports, Press, Release
  <2> DEFINE p == Press(m)
             r == Release(m)
  <2>3. /\ <<p>> \in Seq(HidReports) /\ <<r>> \in Seq(HidReports)
        /\ <<p, r>> \in Seq(HidReports)
        /\ <<p, r>> = <<p>> \o <<r>>
        /\ <<p>> \o <<>> = <<p>> /\ <<r>> \o <<>> = <<r>>
    <3> HIDE DEF p, r
    <3>1. p \in HidReports /\ r \in HidReports
      BY <2>2 DEF p, r
    <3>2. <<p>> \in Seq(HidReports) /\ <<r>> \in Seq(HidReports)
      BY <3>1
    <3>3. <<p, r>> \in Seq(HidReports)
      BY <3>1
    <3>4. <<p, r>> = <<p>> \o <<r>>
      <4> DEFINE one == <<p, r>>
                 two == <<p>> \o <<r>>
      <4>1. one \in Seq(HidReports) /\ Len(one) = 2 /\ one[1] = p /\ one[2] = r
        BY <3>3
      <4>2. /\ Len(<<p>>) = 1 /\ Len(<<r>>) = 1 /\ <<p>>[1] = p /\ <<r>>[1] = r
        OBVIOUS
      <4>3. two \in Seq(HidReports) /\ Len(two) = 2 /\ two[1] = p /\ two[2] = r
        BY <3>2, <4>2, ConcatProperties
      <4> HIDE DEF one, two
      <4>4. Len(one) = Len(two) /\ \A i \in 1..Len(one) : one[i] = two[i]
        BY <4>1, <4>3
      <4>5. one = two
        BY <4>1, <4>3, <4>4, SeqEqual
      <4> QED BY <4>5 DEF one, two
    <3>5. <<p>> \o <<>> = <<p>> /\ <<r>> \o <<>> = <<r>>
      BY <3>2, ConcatEmptySeq
    <3> QED BY <3>2, <3>3, <3>4, <3>5
  <2> HIDE DEF p, r
  <2>4. CASE m.command = "KEY_PRESS"
    <3>1. Reports(m) = <<p>> /\ Immediate(m) = <<p>> /\ ~Timed(m)
      BY <2>1, <2>4 DEF Reports, Immediate, Timed, p
    <3> QED BY <2>1, <2>3, <3>1
  <2>5. CASE m.command = "KEY_PRESS_RELEASE"
    <3>1. Reports(m) = <<p, r>> /\ Immediate(m) = <<p>> /\ Timed(m) /\ Release(m) = r
      BY <2>1, <2>5 DEF Reports, Immediate, Timed, p, r
    <3> QED BY <2>1, <2>3, <3>1
  <2>6. CASE m.command = "KEY_RELEASE"
    <3>1. Reports(m) = <<r>> /\ Immediate(m) = <<r>> /\ ~Timed(m)
      BY <2>1, <2>6 DEF Reports, Immediate, Timed, r
    <3> QED BY <2>1, <2>3, <3>1
  <2> QED BY <2>2, <2>4, <2>5, <2>6 DEF Commands
<1> QED BY <1>1, <1>2 DEF Messages

(* One step of the recursion of AllReports.                                *)
UpToStep(messages, upTo, i) ==
  IF i = 0 THEN <<>> ELSE upTo[i - 1] \o Reports(messages[i])

(* The function that AllReports defines exists.                            *)
LEMMA UpToExists ==
  ASSUME NEW messages \in Seq(Messages)
  PROVE  \E upTo : /\ upTo = [i \in 0..Len(messages) |-> UpToStep(messages, upTo, i)]
                  /\ upTo \in [0..Len(messages) -> Seq(HidReports)]
<1> DEFINE N == Len(messages)
           Good(n, g) == /\ g = [i \in 0..n |-> UpToStep(messages, g, i)]
                         /\ g \in [0..n -> Seq(HidReports)]
           T == {n \in 0..N : ~ \E g : Good(n, g)}
<1>0. N \in Nat
  OBVIOUS
<1>1. T = {}
  <2> SUFFICES ASSUME T # {} PROVE FALSE
    OBVIOUS
  <2>1. T \subseteq Nat
    BY <1>0
  <2>2. PICK n \in T : \A m \in T : n <= m
    BY <2>1, LeastNumber
  <2>3. n \in 0..N
    OBVIOUS
  <2>4. CASE n = 0
    <3> DEFINE g == [i \in 0..0 |-> <<>>]
    <3>1. g \in [0..0 -> Seq(HidReports)]
      OBVIOUS
    <3>2. g = [i \in 0..0 |-> UpToStep(messages, g, i)]
      BY DEF UpToStep
    <3>3. Good(n, g)
      BY <2>4, <3>1, <3>2
    <3> QED BY <2>2, <3>3
  <2>5. CASE n > 0
    <3>1. n - 1 \in 0..N /\ ~(n <= n - 1) /\ n \in 1..N
      BY <1>0, <2>3, <2>5
    <3>2. n - 1 \notin T
      BY <2>2, <3>1
    <3>3. PICK h : Good(n - 1, h)
      BY <3>1, <3>2
    <3> DEFINE end == h[n - 1] \o Reports(messages[n])
               g == [i \in 0..n |-> IF i = n THEN end ELSE h[i]]
    <3>4. h[n - 1] \in Seq(HidReports) /\ Reports(messages[n]) \in Seq(HidReports)
      <4>1. h \in [0..(n - 1) -> Seq(HidReports)] /\ n - 1 \in 0..(n - 1)
        BY <2>3, <2>5, <3>3
      <4>2. messages[n] \in Messages
        BY <3>1
      <4>3. Reports(messages[n]) \in Seq(HidReports)
        BY <4>2, ReportsAre
      <4>4. h[n - 1] \in Seq(HidReports)
        BY <4>1
      <4> QED BY <4>3, <4>4
    <3>5. end \in Seq(HidReports)
      BY <3>4, ConcatProperties
    <3>6. \A i \in 0..(n - 1) : h[i] \in Seq(HidReports) /\ h[i] = UpToStep(messages, h, i)
      BY <3>3
    <3> HIDE DEF end
    <3>7. g \in [0..n -> Seq(HidReports)]
      BY <2>3, <3>5, <3>6
    <3>8. \A i \in 0..n : g[i] = UpToStep(messages, g, i)
      <4> SUFFICES ASSUME NEW i \in 0..n PROVE g[i] = UpToStep(messages, g, i)
        OBVIOUS
      <4>1. CASE i = n
        <5>1. g[n - 1] = h[n - 1] /\ g[i] = end /\ i # 0
          BY <2>3, <2>5, <4>1
        <5> HIDE DEF g
        <5> QED BY <4>1, <5>1 DEF UpToStep, end
      <4>2. CASE i # n
        <5>1. i \in 0..(n - 1) /\ g[i] = h[i]
          BY <2>3, <4>2
        <5>2. i # 0 => g[i - 1] = h[i - 1]
          BY <2>3, <4>2
        <5> HIDE DEF g
        <5> QED BY <3>6, <5>1, <5>2 DEF UpToStep
      <4> QED BY <4>1, <4>2
    <3>9. g = [i \in 0..n |-> UpToStep(messages, g, i)]
      BY <3>8
    <3> HIDE DEF g
    <3>10. Good(n, g)
      BY <3>7, <3>9
    <3> QED BY <2>2, <3>10
  <2> QED BY <2>3, <2>4, <2>5
<1>2. N \in 0..N
  BY <1>0
<1> HIDE DEF Good
<1>3. \E g : Good(N, g)
  BY <1>1, <1>2
<1> QED BY <1>3 DEF Good

(* The reports up to each place of a row of messages. *)
UpTo(row) == CHOOSE upTo : upTo = [i \in 0..Len(row) |-> UpToStep(row, upTo, i)]

(* They are defined by those up to the place before. *)
LEMMA UpToIs ==
  ASSUME NEW row \in Seq(Messages)
  PROVE  /\ Len(row) \in Nat
         /\ AllReports(row) = UpTo(row)[Len(row)]
         /\ \A i \in 0..Len(row) : UpTo(row)[i] = UpToStep(row, UpTo(row), i)
<1>1. UpTo(row) = [i \in 0..Len(row) |-> UpToStep(row, UpTo(row), i)]
  BY UpToExists DEF UpTo
<1>2. AllReports(row) = UpTo(row)[Len(row)]
  BY DEF AllReports, UpToStep, UpTo
<1> DEFINE upTo == UpTo(row)
<1>3. upTo = [i \in 0..Len(row) |-> UpToStep(row, upTo, i)] /\ AllReports(row) = upTo[Len(row)]
  BY <1>1, <1>2
<1>4. Len(row) \in Nat
  OBVIOUS
<1> HIDE DEF upTo
<1>5. \A i \in 0..Len(row) : upTo[i] = UpToStep(row, upTo, i)
  BY <1>3
<1> QED BY <1>3, <1>4, <1>5 DEF upTo

(* And are reports. *)
LEMMA UpToType ==
  ASSUME NEW row \in Seq(Messages)
  PROVE  \A i \in 0..Len(row) : UpTo(row)[i] \in Seq(HidReports)
<1> DEFINE N == Len(row)
           u == UpTo(row)
           T == {i \in 0..N : u[i] \notin Seq(HidReports)}
<1>1. N \in Nat /\ \A i \in 0..N : u[i] = UpToStep(row, u, i)
  BY UpToIs
<1> HIDE DEF u
<1>2. T = {}
  <2> SUFFICES ASSUME T # {} PROVE FALSE
    OBVIOUS
  <2>1. T \subseteq Nat
    BY <1>1
  <2>2. PICK n \in T : \A m \in T : n <= m
    BY <2>1, LeastNumber
  <2>3. n \in 0..N
    OBVIOUS
  <2>4. CASE n = 0
    <3>1. u[n] = <<>>
      BY <1>1, <2>3, <2>4 DEF UpToStep
    <3>2. u[n] \in Seq(HidReports)
      BY <3>1
    <3> QED BY <3>2
  <2>5. CASE n > 0
    <3>1. n - 1 \in 0..N /\ ~(n <= n - 1) /\ n \in 1..N
      BY <1>1, <2>3, <2>5
    <3>2. n - 1 \notin T
      BY <2>2, <3>1
    <3>3. u[n - 1] \in Seq(HidReports)
      BY <3>1, <3>2
    <3>4. u[n] = UpToStep(row, u, n) /\ n # 0
      BY <1>1, <2>3, <2>5
    <3>5. u[n] = u[n - 1] \o Reports(row[n])
      BY <3>4 DEF UpToStep
    <3>6. row[n] \in Messages
      BY <3>1
    <3>7. Reports(row[n]) \in Seq(HidReports)
      BY <3>6, ReportsAre
    <3>8. u[n] \in Seq(HidReports)
      BY <3>3, <3>5, <3>7, ConcatProperties
    <3> QED BY <3>8
  <2> QED BY <2>3, <2>4, <2>5
<1>3. \A i \in 0..N : u[i] \in Seq(HidReports)
  BY <1>2
<1> QED BY <1>3 DEF u

(* No messages, no reports; and nothing but reports. *)
LEMMA AllReportsType ==
  /\ \A row \in Seq(Messages) : AllReports(row) \in Seq(HidReports)
  /\ AllReports(<<>>) = <<>>
<1>1. ASSUME NEW row \in Seq(Messages) PROVE AllReports(row) \in Seq(HidReports)
  <2>1. Len(row) \in Nat /\ AllReports(row) = UpTo(row)[Len(row)]
    BY UpToIs
  <2>2. Len(row) \in 0..Len(row)
    BY <2>1
  <2> QED BY <2>1, <2>2, UpToType
<1>2. AllReports(<<>>) = <<>>
  <2>1. <<>> \in Seq(Messages) /\ Len(<<>>) = 0 /\ 0 \in 0..0
    OBVIOUS
  <2>2. AllReports(<<>>) = UpToStep(<<>>, UpTo(<<>>), 0)
    BY <2>1, UpToIs
  <2> QED BY <2>2 DEF UpToStep
<1> QED BY <1>1, <1>2

(* A message that is written adds its reports at the end.                  *)
LEMMA AppendReports ==
  ASSUME NEW q \in Seq(Messages), NEW m \in Messages
  PROVE  AllReports(Append(q, m)) = AllReports(q) \o Reports(m)
<1> DEFINE r == Append(q, m)
           N == Len(q)
           one == UpTo(r)
           other == UpTo(q)
           T == {i \in 0..N : one[i] # other[i]}
<1>1. /\ r \in Seq(Messages) /\ N \in Nat /\ Len(r) = N + 1 /\ r[N + 1] = m
      /\ \A i \in 1..N : r[i] = q[i]
  OBVIOUS
<1>2. /\ \A i \in 0..N + 1 : one[i] = UpToStep(r, one, i)
      /\ \A i \in 0..N : other[i] = UpToStep(q, other, i)
      /\ AllReports(r) = one[N + 1] /\ AllReports(q) = other[N]
  BY <1>1, UpToIs
<1> HIDE DEF r, one, other
<1>3. T = {}
  <2> SUFFICES ASSUME T # {} PROVE FALSE
    OBVIOUS
  <2>1. T \subseteq Nat
    BY <1>1
  <2>2. PICK n \in T : \A k \in T : n <= k
    BY <2>1, LeastNumber
  <2>3. n \in 0..N /\ n \in 0..N + 1
    BY <1>1
  <2>4. CASE n = 0
    <3>1. one[n] = <<>> /\ other[n] = <<>>
      BY <1>2, <2>3, <2>4 DEF UpToStep
    <3> QED BY <3>1
  <2>5. CASE n > 0
    <3>1. n - 1 \in 0..N /\ ~(n <= n - 1) /\ n \in 1..N /\ n # 0
      BY <1>1, <2>3, <2>5
    <3>2. n - 1 \notin T
      BY <2>2, <3>1
    <3>3. one[n - 1] = other[n - 1] /\ r[n] = q[n]
      BY <1>1, <3>1, <3>2
    <3>4. one[n] = UpToStep(r, one, n) /\ other[n] = UpToStep(q, other, n)
      BY <1>2, <2>3
    <3>5. one[n] = other[n]
      BY <3>1, <3>3, <3>4 DEF UpToStep
    <3> QED BY <3>5
  <2> QED BY <2>3, <2>4, <2>5
<1>4. one[N] = other[N]
  <2>1. N \in 0..N
    BY <1>1
  <2> QED BY <1>3, <2>1
<1>5. N + 1 \in 0..N + 1 /\ N + 1 # 0 /\ (N + 1) - 1 = N
  BY <1>1
<1>6. one[N + 1] = UpToStep(r, one, N + 1)
  BY <1>2, <1>5
<1>7. one[N + 1] = one[N] \o Reports(m)
  BY <1>1, <1>5, <1>6 DEF UpToStep
<1> QED BY <1>2, <1>4, <1>7 DEF r

(* A message that is read takes its reports from the start.                *)
LEMMA FirstReports ==
  ASSUME NEW q \in Seq(Messages), q # <<>>
  PROVE  AllReports(q) = Reports(Head(q)) \o AllReports(Tail(q))
<1> DEFINE t == Tail(q)
           first == Reports(Head(q))
           N == Len(t)
           one == UpTo(q)
           other == UpTo(t)
           T == {i \in 0..N : one[i + 1] # first \o other[i]}
<1>1. /\ t \in Seq(Messages) /\ N \in Nat /\ Len(q) = N + 1
      /\ \A i \in 1..N : t[i] = q[i + 1] /\ t[i] \in Messages
      /\ Head(q) = q[1] /\ Head(q) \in Messages
  OBVIOUS
<1>2. /\ \A i \in 0..N + 1 : one[i] = UpToStep(q, one, i)
      /\ \A i \in 0..N : other[i] = UpToStep(t, other, i)
      /\ AllReports(q) = one[N + 1] /\ AllReports(t) = other[N]
      /\ \A i \in 0..N : other[i] \in Seq(HidReports)
  BY <1>1, UpToIs, UpToType
<1>3. first \in Seq(HidReports)
  BY <1>1, ReportsAre
<1>e. first = Reports(q[1])
  BY <1>1
<1> HIDE DEF t, one, other, first
<1>4. T = {}
  <2> SUFFICES ASSUME T # {} PROVE FALSE
    OBVIOUS
  <2>1. T \subseteq Nat
    BY <1>1
  <2>2. PICK n \in T : \A k \in T : n <= k
    BY <2>1, LeastNumber
  <2>3. n \in 0..N /\ n + 1 \in 0..N + 1 /\ n + 1 # 0 /\ (n + 1) - 1 = n
    BY <1>1
  <2>4. one[n + 1] = one[n] \o Reports(q[n + 1])
    <3>1. one[n + 1] = UpToStep(q, one, n + 1)
      BY <1>2, <2>3
    <3> QED BY <2>3, <3>1 DEF UpToStep
  <2>5. CASE n = 0
    <3>1. 0 \in 0..N /\ 0 \in 0..N + 1
      BY <1>1
    <3>2. one[0] = <<>> /\ other[0] = <<>>
      BY <1>2, <3>1 DEF UpToStep
    <3>3. one[0 + 1] = <<>> \o first
      BY <1>e, <2>4, <2>5, <3>2
    <3>4. <<>> \o first = first /\ first \o <<>> = first
      BY <1>3
    <3>5. one[n + 1] = first \o other[n]
      BY <2>5, <3>2, <3>3, <3>4
    <3> QED BY <3>5
  <2>6. CASE n > 0
    <3>1. n - 1 \in 0..N /\ ~(n <= n - 1) /\ n \in 1..N /\ n # 0 /\ (n - 1) + 1 = n
      BY <1>1, <2>3, <2>6
    <3>2. n - 1 \notin T
      BY <2>2, <3>1
    <3>3. one[n] = first \o other[n - 1]
      BY <3>1, <3>2
    <3>4. other[n] = other[n - 1] \o Reports(t[n])
      <4>1. other[n] = UpToStep(t, other, n)
        BY <1>2, <2>3
      <4> QED BY <3>1, <4>1 DEF UpToStep
    <3>5. t[n] = q[n + 1] /\ t[n] \in Messages
      BY <1>1, <3>1
    <3>6. Reports(t[n]) \in Seq(HidReports) /\ other[n - 1] \in Seq(HidReports)
      BY <1>2, <3>1, <3>5, ReportsAre
    <3>7. first \o (other[n - 1] \o Reports(t[n])) = (first \o other[n - 1]) \o Reports(t[n])
      BY <1>3, <3>6, ReportsAssociate
    <3>8. one[n + 1] = first \o other[n]
      BY <2>4, <3>3, <3>4, <3>5, <3>7
    <3> QED BY <3>8
  <2> QED BY <2>3, <2>5, <2>6
<1>5. one[N + 1] = first \o other[N]
  <2>1. N \in 0..N
    BY <1>1
  <2> QED BY <1>4, <2>1
<1> QED BY <1>2, <1>5 DEF t, first

(* A key is followed through the pipe, the pending release and the box.    *)
LEMMA OrderStep ==
  SessionInv /\ ReleaseInv /\ KeysInOrder /\ [Next]_vars => KeysInOrder'
<1> SUFFICES ASSUME SessionInv, ReleaseInv, KeysInOrder, [Next]_vars
             PROVE  KeysInOrder'
  OBVIOUS
<1> DEFINE P == PendingReports
           A == AllReports(accepted)
           L == AllReports(looperPipe)
<1>1. /\ accepted \in Seq(Messages) /\ looperPipe \in Seq(Messages)
      /\ sent \in Seq(HidReports) /\ pendingRelease \in Keys \cup {NoKey}
  <2>1. accepted \in Seq(Keys) /\ Keys \subseteq Messages
    BY DEF SessionInv, TypeOK, KeyTypeOK, Messages
  <2>2. accepted \in Seq(Messages)
    BY <2>1
  <2> QED BY <2>2 DEF SessionInv, TypeOK, KeyTypeOK, Messages, HidReports
<1>2. A \in Seq(HidReports) /\ L \in Seq(HidReports)
  BY <1>1, AllReportsType
<1>3. P \in Seq(HidReports)
  <2>1. CASE pendingRelease = NoKey
    <3>1. P = <<>>
      BY <2>1 DEF PendingReports
    <3> HIDE DEF P
    <3> QED BY <3>1
  <2>2. CASE pendingRelease # NoKey
    <3>1. P = <<Release(pendingRelease)>>
      BY <2>2 DEF PendingReports
    <3>2. Release(pendingRelease) \in HidReports
      BY <1>1, <2>2 DEF Keys, HidReports, Release
    <3> HIDE DEF P
    <3> QED BY <3>1, <3>2
  <2> QED BY <2>1, <2>2
<1>4. A = (sent \o P) \o L
  BY DEF KeysInOrder
<1>5. ASSUME UNCHANGED <<accepted, sent, pendingRelease, looperPipe>> PROVE KeysInOrder'
  BY <1>5 DEF KeysInOrder, PendingReports
<1>6. ASSUME NEW address \in Addresses, Connect(address) PROVE KeysInOrder'
  <2>1. looper = "none"
    BY <1>6 DEF Connect, SessionInv, LiveInv, Stuck, Objects
  <2>2. pendingRelease = NoKey /\ pendingRelease' = pendingRelease
    BY <1>6, <2>1 DEF Connect, ReleaseInv
  <2>3. accepted' = <<>> /\ sent' = <<>> /\ looperPipe' = <<>>
    BY <1>6 DEF Connect
  <2>4. PendingReports' = <<>>
    BY <2>2 DEF PendingReports
  <2>5. AllReports(accepted') = <<>> /\ AllReports(looperPipe') = <<>>
    BY <2>3, AllReportsType
  <2>6. <<>> = <<>> \o <<>> \o <<>>
    OBVIOUS
  <2> QED BY <2>3, <2>4, <2>5, <2>6 DEF KeysInOrder
<1>7. CASE WriteKey
  <2> DEFINE M == Reports(uiKey)
  <2>1. /\ uiKey \in Messages
        /\ accepted' = Append(accepted, uiKey) /\ looperPipe' = Append(looperPipe, uiKey)
        /\ sent' = sent /\ pendingRelease' = pendingRelease
    BY <1>7 DEF WriteKey, SessionInv, TypeOK, KeyTypeOK, Messages
  <2>2. AllReports(accepted') = A \o M /\ AllReports(looperPipe') = L \o M
    BY <1>1, <2>1, AppendReports
  <2>3. PendingReports' = P
    BY <2>1 DEF PendingReports
  <2>4. M \in Seq(HidReports)
    BY <2>1, ReportsAre
  <2> HIDE DEF A, L, P, M
  <2>5. sent \o P \in Seq(HidReports)
    BY <1>1, <1>3, ConcatProperties
  <2>6. ((sent \o P) \o L) \o M = (sent \o P) \o (L \o M)
    BY <1>2, <2>4, <2>5, ReportsAssociate
  <2> QED BY <1>4, <2>1, <2>2, <2>3, <2>6 DEF KeysInOrder
<1>8. CASE WriteClose
  <2>1. /\ ClosePipe \in Messages /\ looperPipe' = Append(looperPipe, ClosePipe)
        /\ UNCHANGED <<accepted, sent, pendingRelease>>
    BY <1>8 DEF WriteClose, Messages
  <2>2. Reports(ClosePipe) = <<>>
    BY <2>1, ReportsAre
  <2>3. AllReports(looperPipe') = L \o <<>>
    BY <1>1, <2>1, <2>2, AppendReports
  <2>4. L \o <<>> = L
    <3> HIDE DEF L
    <3> QED BY <1>2
  <2>5. PendingReports' = P /\ AllReports(accepted') = A
    BY <2>1 DEF PendingReports
  <2> QED BY <1>4, <2>1, <2>3, <2>4, <2>5 DEF KeysInOrder
<1>9. CASE Free
  <2>1. looper = "none"
    BY <1>9 DEF Free, SessionInv, LiveInv, Stuck, Objects, Alive, UiNeeds
  <2>2. pendingRelease = NoKey
    BY <2>1 DEF ReleaseInv
  <2> QED BY <1>5, <1>9, <2>2 DEF Free
<1>10. CASE OnKeyAvailable
  <2> DEFINE m == Head(looperPipe)
             I == Immediate(m)
             Q == IF Timed(m) THEN <<Release(m)>> ELSE <<>>
             R == AllReports(Tail(looperPipe))
  <2>1. /\ looperPipe # <<>> /\ looperPipe' = Tail(looperPipe) /\ accepted' = accepted
        /\ sent' = sent \o (P \o I)
        /\ pendingRelease' = IF Timed(m) THEN m ELSE NoKey
    BY <1>10 DEF OnKeyAvailable, Handle, PendingAfter
  <2>2. m \in Messages /\ Tail(looperPipe) \in Seq(Messages)
    BY <1>1, <2>1, HeadTailProperties
  <2>3. PendingReports' = Q
    <3>1. Timed(m) => m # NoKey
      BY DEF Timed, NoKey
    <3> HIDE DEF m
    <3> QED BY <2>1, <3>1 DEF PendingReports
  <2>4. L = (I \o Q) \o R
    BY <1>1, <2>1, <2>2, FirstReports, ReportsAre
  <2>5. I \in Seq(HidReports) /\ R \in Seq(HidReports)
    BY <2>2, ReportsAre, AllReportsType
  <2>6. Q \in Seq(HidReports)
    <3>1. CASE Timed(m)
      <4>1. m \in Keys
        BY <2>2, <3>1 DEF Messages, ClosePipe, Timed
      <4>2. Release(m) \in HidReports
        BY <4>1 DEF Keys, HidReports, Release
      <4>3. Q = <<Release(m)>>
        BY <3>1
      <4> HIDE DEF Q
      <4> QED BY <4>2, <4>3
    <3>2. CASE ~Timed(m)
      BY <3>2
    <3> QED BY <3>1, <3>2
  <2> HIDE DEF A, L, P, I, Q, R, m
  <2>7. /\ sent \o P \in Seq(HidReports) /\ I \o Q \in Seq(HidReports)
        /\ P \o I \in Seq(HidReports) /\ (sent \o P) \o I \in Seq(HidReports)
    BY <1>1, <1>3, <2>5, <2>6, ConcatProperties
  <2>8. (sent \o P) \o ((I \o Q) \o R) = ((sent \o P) \o (I \o Q)) \o R
    <3> DEFINE before == sent \o P
               now    == I \o Q
    <3>1. before \in Seq(HidReports) /\ now \in Seq(HidReports)
      BY <2>7
    <3> HIDE DEF before, now
    <3>2. before \o (now \o R) = (before \o now) \o R
      BY <2>5, <3>1, ReportsAssociate
    <3> QED BY <3>2 DEF before, now
  <2>9. (sent \o P) \o (I \o Q) = ((sent \o P) \o I) \o Q
    <3> DEFINE before == sent \o P
    <3>1. before \in Seq(HidReports)
      BY <2>7
    <3> HIDE DEF before
    <3>2. before \o (I \o Q) = (before \o I) \o Q
      BY <2>5, <2>6, <3>1, ReportsAssociate
    <3> QED BY <3>2 DEF before
  <2>10. (sent \o P) \o I = sent \o (P \o I)
    BY <1>1, <1>3, <2>5, ReportsAssociate
  <2>11. A = (sent' \o Q) \o R
    BY <1>4, <2>1, <2>4, <2>8, <2>9, <2>10
  <2>12. AllReports(accepted') = A /\ AllReports(looperPipe') = R
    BY <2>1 DEF A, R
  <2> QED BY <2>3, <2>11, <2>12 DEF KeysInOrder
<1>11. CASE OnKeyRelease
  <2>1. sent' = sent \o P /\ pendingRelease' = NoKey /\ UNCHANGED <<accepted, looperPipe>>
    BY <1>11 DEF OnKeyRelease
  <2>2. PendingReports' = <<>> /\ AllReports(accepted') = A /\ AllReports(looperPipe') = L
    BY <2>1 DEF PendingReports
  <2> HIDE DEF A, L, P
  <2>3. (sent \o P) \in Seq(HidReports)
    BY <1>1, <1>3, ConcatProperties
  <2>4. (sent \o P) \o <<>> = sent \o P
    BY <2>3, ConcatEmptySeq
  <2> QED BY <1>4, <2>1, <2>2, <2>4 DEF KeysInOrder
<1>12. StartReader \/ (\E key \in Keys : SendKey(key)) \/ BeginDisconnect
       \/ JoinLooper \/ CloseStatus \/ Deinit \/ NotifyInDeinit
       \/ JoinReader \/ Deliver
         => UNCHANGED <<accepted, sent, pendingRelease, looperPipe>>
  BY DEF StartReader, SendKey, BeginDisconnect, JoinLooper, CloseStatus, Deinit,
         NotifyInDeinit, JoinReader, Deliver
<1>13. (\E state \in Notifications : OnStatus(state)) \/ WriteStatus \/ LooperReturn
       \/ ReaderNext \/ Fault \/ UNCHANGED vars
         => UNCHANGED <<accepted, sent, pendingRelease, looperPipe>>
  BY DEF OnStatus, WriteStatus, LooperReturn, ReaderNext, ReadStatus, PostStatus,
         Fault, vars
<1> QED
  BY <1>5, <1>6, <1>7, <1>8, <1>9, <1>10, <1>11, <1>12, <1>13
     DEF Next, UiNext, LooperNext

(* Each key reaches the box once and in order, with its release before     *)
(* anything of a later key: Rcu.cpp, OnKeyAvailable and OnKeyRelease.      *)
THEOREM KeysAlwaysInOrder == SafeSpec => []KeysInOrder
<1>1. Init => ReleaseInv /\ KeysInOrder
  <2> SUFFICES ASSUME Init PROVE ReleaseInv /\ KeysInOrder
    OBVIOUS
  <2>1. ReleaseInv
    BY DEF Init, ReleaseInv
  <2>2. accepted = <<>> /\ sent = <<>> /\ looperPipe = <<>> /\ PendingReports = <<>>
    BY DEF Init, PendingReports
  <2>3. <<>> = <<>> \o <<>> \o <<>>
    OBVIOUS
  <2> QED BY <2>1, <2>2, <2>3, AllReportsType DEF KeysInOrder
<1> QED BY <1>1, ReleaseStep, OrderStep, SessionInvariant, PTL DEF SafeSpec

-----------------------------------------------------------------------------
(* A step of each thread that only the pipes and the other threads can     *)
(* keep waiting: the guards of the thread's actions, with nothing of what  *)
(* the user, the timer or the network would have to do first.              *)
UiReady ==
  \/ ui \in {"startReader", "deinit", "free"}
  \/ ui \in {"sendKey", "writeClose"} /\ Room(looperPipe)
  \/ ui \in {"closeStatus", "notify"} /\ Room(statusPipe)
  \/ ui = "joinLooper" /\ LooperJoined
  \/ ui = "joinReader" /\ ReaderJoined

LooperReady ==
  \/ looper = "loop" /\ (looperPipe # <<>> \/ exitRequested)
  \/ looper = "notify" /\ Room(statusPipe)

ReaderReady == (reader = "read" /\ statusPipe # <<>>) \/ reader = "post"

(* While the main thread is in a call, one of the three threads can move.  *)
NeverStuck ==
  (mAddress = "numeric" /\ ui # "idle") => UiReady \/ LooperReady \/ ReaderReady

(* The status thread has read CLOSE_PIPE. *)
ReaderLeaving == reader = "done" \/ (reader = "post" /\ text = "EXIT")

(* Until the status thread has read it, CLOSE_PIPE is in the status pipe,  *)
(* and the last message of it up to foils_hid_deinit's own.                *)
CloseInv ==
  StatusClosed =>
    /\ ~ReaderLeaving =>
         \E i \in 1..Len(statusPipe) : statusPipe[i] = "CLOSE_PIPE"
    /\ (ui # "joinReader" /\ ui # "free") =>
         IF ReaderLeaving THEN statusPipe = <<>>
         ELSE \A i \in 1..Len(statusPipe) :
                statusPipe[i] = "CLOSE_PIPE" <=> i = Len(statusPipe)

(* How far the main thread is from the end of the call it is in ...        *)
UiRank ==
  [writeClose |-> 7, joinLooper |-> 6, closeStatus |-> 5, deinit |-> 4,
   notify |-> 3, free |-> 2, joinReader |-> 1, startReader |-> 1,
   sendKey |-> 1, idle |-> 0][ui]

(* ... how much the event loop still has to do ...                         *)
LooperRank == [none |-> 0, loop |-> 1, notify |-> 4, done |-> 0][looper]

Count(condition) == IF condition THEN 1 ELSE 0

(* ... and with what waits in the pipes, behind the timer, with the status *)
(* thread and with the HID client, how many steps there can be before the  *)
(* call returns.                                                           *)
StepsLeft ==
  3 * UiRank + LooperRank
  + 2 * Len(looperPipe) + Count(releaseArmed)
  + 2 * Len(statusPipe) + Count(reader = "post")
  + 4 * (MaxStatus - notified)

CallProgresses ==
  [][(mAddress = "numeric" /\ ui # "idle") => StepsLeft' < StepsLeft]_vars

(* CLOSE_PIPE reaches the status thread. *)
LEMMA CloseStep ==
  ASSUME TypeOK, LiveInv, ReaderInv, CloseInv, [Next]_vars, ~Connect("unparsable")
  PROVE  CloseInv'
<1>0. /\ statusPipe \in Seq(Notifications \cup {"CLOSE_PIPE"})
      /\ Len(statusPipe) \in Nat
  BY DEF TypeOK, StatusTypeOK
<1>1. ASSUME ui' \in {"idle", "startReader", "sendKey", "writeClose", "joinLooper",
                      "closeStatus"}
      PROVE  CloseInv'
  BY <1>1 DEF CloseInv, StatusClosed
<1>2. CASE CloseStatus
  <2> DEFINE q == Append(statusPipe, "CLOSE_PIPE")
  <2>1. ui = "closeStatus" /\ ui' = "deinit" /\ statusPipe' = q
        /\ UNCHANGED readerVars
    BY <1>2 DEF CloseStatus
  <2>2. HasNoClose(statusPipe, "CLOSE_PIPE") /\ ~ReaderLeaving
    BY <2>1 DEF LiveInv, ReaderInv, StatusClosed, ReaderLeaving, Objects
  <2>3. /\ Len(q) = Len(statusPipe) + 1 /\ Len(q) \in 1..Len(q)
        /\ q[Len(q)] = "CLOSE_PIPE"
        /\ \A i \in 1..Len(q) : i # Len(q) => q[i] = statusPipe[i] /\ i \in 1..Len(statusPipe)
    BY <1>0
  <2> HIDE DEF q
  <2>4. ~ReaderLeaving'
    BY <2>1, <2>2 DEF ReaderLeaving
  <2> QED BY <2>1, <2>2, <2>3, <2>4 DEF CloseInv, HasNoClose
<1>3. CASE Deinit
  <2>1. StatusClosed /\ ui = "deinit" /\ ui' \in {"free", "notify"}
        /\ UNCHANGED <<readerVars, statusPipe>>
    BY <1>3 DEF Deinit, StatusClosed
  <2> QED BY <2>1 DEF CloseInv, ReaderLeaving
<1>4. CASE NotifyInDeinit
  <2> DEFINE q == Append(statusPipe, uiStatus)
  <2>1. StatusClosed /\ ui' = "free" /\ statusPipe' = q /\ UNCHANGED readerVars
    BY <1>4 DEF NotifyInDeinit, StatusClosed
  <2>2. \A i \in 1..Len(statusPipe) : i \in 1..Len(q) /\ q[i] = statusPipe[i]
    BY <1>0
  <2> HIDE DEF q
  <2> QED BY <2>1, <2>2 DEF CloseInv, ReaderLeaving
<1>5. CASE Free
  <2>1. StatusClosed /\ ui' = "joinReader" /\ UNCHANGED <<readerVars, statusPipe>>
    BY <1>5 DEF Free, StatusClosed
  <2> QED BY <2>1 DEF CloseInv, ReaderLeaving
<1>6. CASE ReadStatus
  <2> DEFINE m == Head(statusPipe)
             q == Tail(statusPipe)
  <2>1. statusPipe # <<>> /\ reader = "read" /\ reader' = "post"
        /\ text' = StatusText(m) /\ statusPipe' = q /\ UNCHANGED ui
    BY <1>6 DEF ReadStatus
  <2>2. /\ m = statusPipe[1] /\ m \in Notifications \cup {"CLOSE_PIPE"}
        /\ Len(statusPipe) \in Nat \ {0} /\ Len(q) = Len(statusPipe) - 1
        /\ q \in Seq(Notifications \cup {"CLOSE_PIPE"})
        /\ \A i \in 1..Len(q) : q[i] = statusPipe[i + 1]
    BY <1>0, <2>1
  <2> HIDE DEF m, q
  <2>3. m = "CLOSE_PIPE" <=> ReaderLeaving'
    BY <2>1, <2>2, StatusTexts DEF StatusText, ReaderLeaving
  <2>4. ~ReaderLeaving
    BY <2>1 DEF ReaderLeaving
  <2>5. CASE m = "CLOSE_PIPE"
    <3>1. ASSUME StatusClosed, ui # "joinReader", ui # "free" PROVE q = <<>>
      <4>1. 1 \in 1..Len(statusPipe)
        BY <2>2
      <4>2. Len(statusPipe) = 1
        BY <2>2, <2>4, <2>5, <3>1, <4>1 DEF CloseInv
      <4> QED BY <2>2, <4>2
    <3>2. StatusClosed' = StatusClosed
      BY <2>1 DEF StatusClosed
    <3> QED BY <2>1, <2>3, <2>5, <3>1, <3>2 DEF CloseInv
  <2>6. CASE m # "CLOSE_PIPE"
    <3> SUFFICES ASSUME StatusClosed' PROVE CloseInv'
      BY DEF CloseInv
    <3>1. StatusClosed
      BY <2>1 DEF StatusClosed
    <3>2. PICK j \in 1..Len(statusPipe) : statusPipe[j] = "CLOSE_PIPE"
      BY <2>4, <3>1 DEF CloseInv
    <3>3. j - 1 \in 1..Len(q) /\ q[j - 1] = "CLOSE_PIPE"
      BY <2>2, <2>6, <3>2
    <3>4. ASSUME ui # "joinReader", ui # "free", NEW i \in 1..Len(q)
          PROVE  q[i] = "CLOSE_PIPE" <=> i = Len(q)
      <4>1. i + 1 \in 1..Len(statusPipe) /\ q[i] = statusPipe[i + 1]
        BY <2>2
      <4>2. statusPipe[i + 1] = "CLOSE_PIPE" <=> i + 1 = Len(statusPipe)
        BY <2>4, <3>1, <3>4, <4>1 DEF CloseInv
      <4> QED BY <2>2, <4>1, <4>2
    <3> QED BY <2>1, <2>3, <2>6, <3>3, <3>4 DEF CloseInv
  <2> QED BY <2>5, <2>6
<1>7. CASE PostStatus
  <2>1. /\ reader = "post" /\ (text = "EXIT" => reader' = "done")
        /\ (text # "EXIT" => reader' = "read")
        /\ UNCHANGED <<ui, statusPipe, text>>
    BY <1>7 DEF PostStatus
  <2>2. ReaderLeaving' <=> ReaderLeaving
    BY <2>1 DEF ReaderLeaving
  <2> QED BY <2>1, <2>2 DEF CloseInv, StatusClosed
<1>8. ASSUME looper # "none" PROVE ui \in {"idle", "startReader", "sendKey",
                                           "writeClose", "joinLooper"}
  BY <1>8 DEF LiveInv, Objects, TypeOK, ControlTypeOK, Disconnecting
<1>9. ASSUME LooperNext PROVE CloseInv'
  <2>1. looper # "none" /\ UNCHANGED ui
    BY <1>9 DEF LooperNext, OnKeyAvailable, OnKeyRelease, OnStatus, WriteStatus,
                LooperReturn
  <2> QED BY <1>1, <1>8, <2>1
<1>10. ASSUME BeginDisconnect PROVE ui' = "writeClose"
  BY <1>10 DEF BeginDisconnect, LiveInv, Objects
<1>11. ASSUME \/ \E address \in Addresses : Connect(address)
              \/ \E key \in Keys : SendKey(key)
              \/ StartReader \/ WriteKey \/ WriteClose
              \/ JoinLooper \/ JoinReader \/ Deliver
       PROVE  CloseInv'
  <2>1. ui' \in {"idle", "startReader", "sendKey", "joinLooper", "closeStatus"}
    BY <1>11 DEF Connect, SendKey, StartReader, WriteKey, WriteClose,
                 JoinLooper, JoinReader, Deliver
  <2> QED BY <1>1, <2>1
<1>12. CASE UNCHANGED vars
  BY <1>12 DEF vars, CloseInv, StatusClosed, ReaderLeaving
<1> QED
  BY NeedsMet, <1>1, <1>2, <1>3, <1>4, <1>5, <1>6, <1>7, <1>9, <1>10, <1>11, <1>12
  DEF Next, UiNext, ReaderNext

(* It does in every session that was opened. *)
LEMMA CloseAlways ==
  SessionInv /\ (Stuck \/ CloseInv) /\ [Next]_vars => (Stuck \/ CloseInv)'
<1> SUFFICES ASSUME SessionInv, Stuck \/ CloseInv, [Next]_vars
             PROVE  (Stuck \/ CloseInv)'
  OBVIOUS
<1>1. TypeOK
  BY DEF SessionInv
<1>2. CASE Stuck
  BY <1>1, <1>2, StuckStep
<1>3. CASE ~Stuck /\ Connect("unparsable")
  BY <1>1, <1>3, StuckStart DEF SessionInv
<1>4. CASE ~Stuck /\ ~Connect("unparsable")
  BY <1>1, <1>4, CloseStep DEF SessionInv
<1> QED BY <1>2, <1>3, <1>4

(* Each blocking write and each join waits for a thread that can move.     *)
LEMMA SomeoneMoves == SessionInv /\ (Stuck \/ CloseInv) => NeverStuck
<1> SUFFICES ASSUME SessionInv, Stuck \/ CloseInv, mAddress = "numeric", ui # "idle"
             PROVE  UiReady \/ LooperReady \/ ReaderReady
  BY DEF NeverStuck
<1>0. TypeOK /\ LiveInv /\ LooperInv /\ ReaderInv /\ CloseInv
  BY DEF SessionInv, Stuck
<1>1. /\ looperPipe \in Seq(Keys \cup {ClosePipe})
      /\ statusPipe \in Seq(Notifications \cup {"CLOSE_PIPE"})
      /\ reader \in {"none", "read", "post", "done"}
      /\ looper \in {"none", "loop", "notify", "done"}
      /\ ui \in {"idle", "startReader", "sendKey"} \cup Disconnecting
  BY <1>0 DEF TypeOK, ControlTypeOK, KeyTypeOK, StatusTypeOK
<1>2. /\ ~Room(looperPipe) => looperPipe # <<>>
      /\ ~Room(statusPipe) => statusPipe # <<>>
  BY <1>1, SessionAssumption DEF Room
<1>3. ASSUME statusPipe # <<>>, reader \in {"read", "post"} PROVE ReaderReady
  BY <1>3 DEF ReaderReady
<1>4. ui # "startReader" => reader # "none"
  BY <1>0, <1>1 DEF LiveInv, Objects, Disconnecting
<1>5. ui \notin {"deinit", "notify", "free", "joinReader"} => reader # "done"
  BY <1>0 DEF ReaderInv, StatusClosed
<1>6. CASE ui \in {"sendKey", "writeClose", "joinLooper"}
  <2>1. looper # "none" /\ reader \in {"read", "post"}
    BY <1>0, <1>1, <1>4, <1>5, <1>6 DEF LiveInv
  <2>2. CASE looper = "done"
    <3>1. ui = "joinLooper"
      BY <1>0, <2>2 DEF LooperInv
    <3> QED BY <2>2, <3>1 DEF UiReady, LooperJoined
  <2>3. CASE looper = "notify"
    BY <1>2, <1>3, <2>1, <2>3 DEF LooperReady
  <2>4. CASE looper = "loop" /\ ui = "joinLooper"
    BY <1>0, <2>4 DEF LooperReady, LooperInv
  <2>5. CASE looper = "loop" /\ ui # "joinLooper"
    BY <1>2, <1>6, <2>5 DEF UiReady, LooperReady
  <2> QED BY <1>1, <2>1, <2>2, <2>3, <2>4, <2>5
<1>7. CASE ui = "closeStatus"
  <2>1. reader \in {"read", "post"}
    BY <1>1, <1>4, <1>5, <1>7
  <2> QED BY <1>2, <1>3, <1>7, <2>1 DEF UiReady
<1>8. CASE ui = "notify"
  <2>1. CASE statusPipe = <<>>
    BY <1>2, <1>8, <2>1 DEF UiReady
  <2>2. CASE statusPipe # <<>>
    <3>1. reader # "none" /\ reader # "done"
      BY <1>0, <1>4, <1>8, <2>2 DEF CloseInv, StatusClosed, ReaderLeaving
    <3> QED BY <1>1, <1>3, <2>2, <3>1
  <2> QED BY <2>1, <2>2
<1>9. CASE ui = "joinReader"
  <2>1. CASE reader = "done"
    BY <1>9, <2>1 DEF UiReady, ReaderJoined
  <2>2. CASE reader = "post"
    BY <2>2 DEF ReaderReady
  <2>3. CASE reader = "read"
    <3>1. PICK i \in 1..Len(statusPipe) : statusPipe[i] = "CLOSE_PIPE"
      BY <1>0, <1>9, <2>3 DEF CloseInv, StatusClosed, ReaderLeaving
    <3>2. statusPipe # <<>>
      BY <1>1, <3>1
    <3> QED BY <1>3, <2>3, <3>2
  <2> QED BY <1>1, <1>4, <1>9, <2>1, <2>2, <2>3
<1>10. CASE ui \in {"startReader", "deinit", "free"}
  BY <1>10 DEF UiReady
<1> QED BY <1>1, <1>6, <1>7, <1>8, <1>9, <1>10 DEF Disconnecting

(* However full the pipes are and however the three threads interleave, a  *)
(* call of the main thread never waits for threads that wait for it: while *)
(* Freebox.connect, pressRcuKey or disconnect is running, the main thread, *)
(* the event loop or the status thread can take a step.                    *)
THEOREM MainThreadNeverStuck == SafeSpec => []NeverStuck
<1>1. Init => Stuck \/ CloseInv
  BY DEF Init, CloseInv, StatusClosed
<1> QED
  BY <1>1, SessionInvariant, CloseAlways, SomeoneMoves, PTL DEF SafeSpec

(* The steps left are a number. *)
LEMMA StepsLeftNat ==
  ASSUME TypeOK
  PROVE  /\ UiRank \in 0..7 /\ LooperRank \in 0..4
         /\ Len(looperPipe) \in Nat /\ Len(statusPipe) \in Nat
         /\ notified \in Nat /\ MaxStatus \in Nat /\ notified <= MaxStatus
         /\ Count(releaseArmed) \in 0..1 /\ Count(reader = "post") \in 0..1
         /\ StepsLeft \in Nat
<1>1. UiRank \in 0..7
  BY DEF UiRank, TypeOK, ControlTypeOK, Disconnecting
<1>2. LooperRank \in 0..4
  BY DEF LooperRank, TypeOK, ControlTypeOK
<1>3. Len(looperPipe) \in Nat /\ Len(statusPipe) \in Nat
  BY DEF TypeOK, KeyTypeOK, StatusTypeOK
<1>4. notified \in Nat /\ MaxStatus \in Nat /\ notified <= MaxStatus
  BY SessionAssumption DEF TypeOK, StatusTypeOK
<1>5. Count(releaseArmed) \in 0..1 /\ Count(reader = "post") \in 0..1
  BY DEF Count
<1> HIDE DEF UiRank, LooperRank, Count
<1> QED BY <1>1, <1>2, <1>3, <1>4, <1>5 DEF StepsLeft

(* Each step of any of the three threads that is taken while the main      *)
(* thread is in a call uses up at least one of the steps left.             *)
LEMMA ProgressStep ==
  ASSUME TypeOK, LiveInv, ReaderInv, TypeOK', Next, ui # "idle"
  PROVE  StepsLeft' < StepsLeft
<1> DEFINE L == Len(looperPipe)
           S == Len(statusPipe)
           A == Count(releaseArmed)
           P == Count(reader = "post")
<1>1. /\ UiRank \in 0..7 /\ LooperRank \in 0..4 /\ L \in Nat /\ S \in Nat
      /\ notified \in Nat /\ MaxStatus \in Nat /\ A \in 0..1 /\ P \in 0..1
  BY StepsLeftNat
<1>2. /\ UiRank' \in 0..7 /\ LooperRank' \in 0..4 /\ L' \in Nat /\ S' \in Nat
      /\ notified' \in Nat /\ A' \in 0..1 /\ P' \in 0..1
  <2>1. UiRank' \in 0..7 /\ LooperRank' \in 0..4
    BY DEF UiRank, LooperRank, TypeOK, ControlTypeOK, Disconnecting
  <2>2. L' \in Nat /\ S' \in Nat
    BY DEF TypeOK, KeyTypeOK, StatusTypeOK
  <2>3. notified' \in Nat
    BY SessionAssumption DEF TypeOK, StatusTypeOK
  <2>4. A' \in 0..1 /\ P' \in 0..1
    BY DEF Count
  <2> QED BY <2>1, <2>2, <2>3, <2>4
<1>3. /\ \A m : Len(Append(looperPipe, m)) = L + 1 /\ Len(Append(statusPipe, m)) = S + 1
      /\ looperPipe # <<>> => Len(Tail(looperPipe)) = L - 1
      /\ statusPipe # <<>> => Len(Tail(statusPipe)) = S - 1
  <2>1. /\ looperPipe \in Seq(Keys \cup {ClosePipe})
        /\ statusPipe \in Seq(Notifications \cup {"CLOSE_PIPE"})
    BY DEF TypeOK, KeyTypeOK, StatusTypeOK
  <2> QED BY <2>1
<1>4. /\ StepsLeft = 3 * UiRank + LooperRank + 2 * L + A + 2 * S + P
                       + 4 * (MaxStatus - notified)
      /\ StepsLeft' = 3 * UiRank' + LooperRank' + 2 * L' + A' + 2 * S' + P'
                       + 4 * (MaxStatus - notified')
  BY DEF StepsLeft
<1> HIDE DEF L, S, A, P
<1>5. CASE StartReader
  <2>1. UiRank = 1 /\ UiRank' = 0
    BY <1>5 DEF StartReader, UiRank
  <2>2. P' = 0
    BY <1>5 DEF StartReader, Count, P
  <2>3. LooperRank' = LooperRank /\ L' = L /\ S' = S /\ A' = A /\ notified' = notified
    BY <1>5 DEF StartReader, LooperRank, L, S, A
  <2> QED BY <1>1, <1>4, <2>1, <2>2, <2>3
<1>6. CASE WriteKey
  <2>1. UiRank = 1 /\ UiRank' = 0 /\ L' = L + 1
    BY <1>3, <1>6 DEF WriteKey, UiRank, L
  <2>2. LooperRank' = LooperRank /\ S' = S /\ A' = A /\ P' = P /\ notified' = notified
    BY <1>6 DEF WriteKey, LooperRank, S, A, P
  <2> QED BY <1>1, <1>4, <2>1, <2>2
<1>7. CASE WriteClose
  <2>1. UiRank = 7 /\ UiRank' = 6 /\ L' = L + 1
    BY <1>3, <1>7 DEF WriteClose, UiRank, L
  <2>2. LooperRank' = LooperRank /\ S' = S /\ A' = A /\ P' = P /\ notified' = notified
    BY <1>7 DEF WriteClose, LooperRank, S, A, P
  <2> QED BY <1>1, <1>4, <2>1, <2>2
<1>8. CASE JoinLooper
  <2>1. UiRank = 6 /\ UiRank' = 5 /\ LooperRank = 0 /\ LooperRank' = 0
    BY <1>8 DEF JoinLooper, LooperJoined, UiRank, LooperRank
  <2>2. L' = L /\ S' = S /\ A' = A /\ P' = P /\ notified' = notified
    BY <1>8 DEF JoinLooper, L, S, A, P
  <2> QED BY <1>1, <1>4, <2>1, <2>2
<1>9. CASE CloseStatus
  <2>1. UiRank = 5 /\ UiRank' = 4 /\ S' = S + 1 /\ A' = 0
    BY <1>3, <1>9 DEF CloseStatus, UiRank, Count, S, A
  <2>2. LooperRank' = LooperRank /\ L' = L /\ P' = P /\ notified' = notified
    BY <1>9 DEF CloseStatus, LooperRank, L, P
  <2> QED BY <1>1, <1>4, <2>1, <2>2
<1>10. CASE Deinit
  <2>1. LooperRank' = LooperRank /\ L' = L /\ S' = S /\ A' = A /\ P' = P
    BY <1>10 DEF Deinit, LooperRank, L, S, A, P
  <2>2. CASE ui' = "free" /\ notified' = notified
    <3>1. UiRank = 4 /\ UiRank' = 2
      BY <1>10, <2>2 DEF Deinit, UiRank
    <3> QED BY <1>1, <1>4, <2>1, <2>2, <3>1
  <2>3. CASE ui' = "notify" /\ notified' = notified + 1
    <3>1. UiRank = 4 /\ UiRank' = 3
      BY <1>10, <2>3 DEF Deinit, UiRank
    <3> QED BY <1>1, <1>4, <2>1, <2>3, <3>1
  <2> QED BY <1>10, <2>2, <2>3 DEF Deinit
<1>11. CASE NotifyInDeinit
  <2>1. UiRank = 3 /\ UiRank' = 2 /\ S' = S + 1
    BY <1>3, <1>11 DEF NotifyInDeinit, UiRank, S
  <2>2. LooperRank' = LooperRank /\ L' = L /\ A' = A /\ P' = P /\ notified' = notified
    BY <1>11 DEF NotifyInDeinit, LooperRank, L, A, P
  <2> QED BY <1>1, <1>4, <2>1, <2>2
<1>12. CASE Free
  <2>1. UiRank = 2 /\ UiRank' = 1
    BY <1>12 DEF Free, UiRank
  <2>2. LooperRank' = LooperRank /\ L' = L /\ S' = S /\ A' = A /\ P' = P
        /\ notified' = notified
    BY <1>12 DEF Free, LooperRank, L, S, A, P
  <2> QED BY <1>1, <1>4, <2>1, <2>2
<1>13. CASE JoinReader
  <2>1. UiRank = 1 /\ UiRank' = 0 /\ P' = 0
    BY <1>13 DEF JoinReader, UiRank, Count, P
  <2>2. LooperRank' = LooperRank /\ L' = L /\ S' = S /\ A' = A /\ notified' = notified
    BY <1>13 DEF JoinReader, LooperRank, L, S, A
  <2> QED BY <1>1, <1>4, <2>1, <2>2
<1>14. CASE OnKeyAvailable
  <2>1. L' = L - 1
    BY <1>3, <1>14 DEF OnKeyAvailable, L
  <2>2. UiRank' = UiRank /\ LooperRank' = LooperRank /\ S' = S /\ P' = P
        /\ notified' = notified
    BY <1>14 DEF OnKeyAvailable, UiRank, LooperRank, S, P
  <2>3. CASE A' = 0
    BY <1>1, <1>4, <2>1, <2>2, <2>3
  <2>4. CASE A' = 1
    BY <1>1, <1>4, <2>1, <2>2, <2>4
  <2>5. A' = 0 \/ A' = 1
    BY <1>2
  <2> QED BY <2>3, <2>4, <2>5
<1>15. CASE OnKeyRelease
  <2>1. A = 1 /\ A' = 0
    BY <1>15 DEF OnKeyRelease, Count, A
  <2>2. UiRank' = UiRank /\ LooperRank' = LooperRank /\ L' = L /\ S' = S /\ P' = P
        /\ notified' = notified
    BY <1>15 DEF OnKeyRelease, UiRank, LooperRank, L, S, P
  <2> QED BY <1>1, <1>4, <2>1, <2>2
<1>16. ASSUME NEW state \in Notifications, OnStatus(state)
       PROVE  StepsLeft' < StepsLeft
  <2>1. LooperRank = 1 /\ LooperRank' = 4 /\ notified' = notified + 1
    BY <1>16 DEF OnStatus, LooperRank
  <2>2. UiRank' = UiRank /\ L' = L /\ S' = S /\ A' = A /\ P' = P
    BY <1>16 DEF OnStatus, UiRank, L, S, A, P
  <2> QED BY <1>1, <1>4, <2>1, <2>2
<1>17. CASE WriteStatus
  <2>1. LooperRank = 4 /\ LooperRank' = 1 /\ S' = S + 1
    BY <1>3, <1>17 DEF WriteStatus, LooperRank, S
  <2>2. UiRank' = UiRank /\ L' = L /\ A' = A /\ P' = P /\ notified' = notified
    BY <1>17 DEF WriteStatus, UiRank, L, A, P
  <2> QED BY <1>1, <1>4, <2>1, <2>2
<1>18. CASE LooperReturn
  <2>1. LooperRank = 1 /\ LooperRank' = 0
    BY <1>18 DEF LooperReturn, LooperRank
  <2>2. UiRank' = UiRank /\ L' = L /\ S' = S /\ A' = A /\ P' = P
        /\ notified' = notified
    BY <1>18 DEF LooperReturn, UiRank, L, S, A, P
  <2> QED BY <1>1, <1>4, <2>1, <2>2
<1>19. CASE ReadStatus
  <2>1. S' = S - 1 /\ P = 0 /\ P' = 1
    BY <1>3, <1>19 DEF ReadStatus, Count, S, P
  <2>2. UiRank' = UiRank /\ LooperRank' = LooperRank /\ L' = L /\ A' = A
        /\ notified' = notified
    BY <1>19 DEF ReadStatus, UiRank, LooperRank, L, A
  <2> QED BY <1>1, <1>4, <2>1, <2>2
<1>20. CASE PostStatus
  <2>1. P = 1 /\ P' = 0
    BY <1>20 DEF PostStatus, Count, P
  <2>2. UiRank' = UiRank /\ LooperRank' = LooperRank /\ L' = L /\ S' = S /\ A' = A
        /\ notified' = notified
    BY <1>20 DEF PostStatus, UiRank, LooperRank, L, S, A
  <2> QED BY <1>1, <1>4, <2>1, <2>2
<1>21. ~(\E address \in Addresses : Connect(address)) /\ ~BeginDisconnect
       /\ ~(\E key \in Keys : SendKey(key)) /\ ~Deliver
  BY DEF Connect, BeginDisconnect, SendKey, Deliver
<1> QED
  BY NeedsMet, <1>5, <1>6, <1>7, <1>8, <1>9, <1>10, <1>11, <1>12, <1>13, <1>14,
     <1>15, <1>16, <1>17, <1>18, <1>19, <1>20, <1>21
  DEF Next, UiNext, LooperNext, ReaderNext

(* Every call of the main thread is over after a number of steps that is   *)
(* known when it starts, in whatever order the three threads take them:    *)
(* with MainThreadNeverStuck, Freebox.disconnect comes back as soon as the *)
(* threads that can run do.                                                *)
THEOREM CallsComeToAnEnd == SafeSpec => CallProgresses /\ [](StepsLeft \in Nat)
<1>1. SessionInv => StepsLeft \in Nat
  BY StepsLeftNat DEF SessionInv
<1>2. SessionInv /\ SessionInv' /\ [Next]_vars
        => [(mAddress = "numeric" /\ ui # "idle") => StepsLeft' < StepsLeft]_vars
  <2> SUFFICES ASSUME SessionInv, SessionInv', Next, mAddress = "numeric", ui # "idle"
               PROVE  StepsLeft' < StepsLeft
    OBVIOUS
  <2>1. TypeOK /\ LiveInv /\ ReaderInv /\ TypeOK'
    BY DEF SessionInv, Stuck
  <2> QED BY <2>1, ProgressStep
<1> QED BY <1>1, <1>2, SessionInvariant, PTL DEF SafeSpec, CallProgresses

(* A key held down by a timed press has its release coming: the timer is   *)
(* added to a loop that runs.                                              *)
ReleaseComing ==
  pendingRelease # NoKey =>
    releaseArmed /\ looper \in {"loop", "notify"} /\ ~exitRequested

(* Only what sends the pending release takes its timer out of the loop.    *)
LEMMA ReleaseComingStep ==
  SessionInv /\ ReleaseInv /\ ReleaseComing /\ [Next]_vars
    => (pendingRelease # NoKey => releaseArmed)'
<1> SUFFICES ASSUME SessionInv, ReleaseInv, ReleaseComing, [Next]_vars,
                    pendingRelease' # NoKey
             PROVE  releaseArmed'
  OBVIOUS
<1>1. CASE OnKeyAvailable
  BY <1>1 DEF OnKeyAvailable, PendingAfter, ArmedAfter
<1>2. CASE OnKeyRelease
  BY <1>2 DEF OnKeyRelease
<1>3. CASE CloseStatus
  <2>1. looper = "none"
    BY <1>3 DEF CloseStatus, SessionInv, LiveInv, Stuck, Objects, Alive, UiNeeds
  <2> QED BY <1>3, <2>1 DEF CloseStatus, ReleaseInv
<1>4. CASE Free
  BY <1>4 DEF Free
<1>5. ASSUME UNCHANGED <<pendingRelease, releaseArmed>> PROVE releaseArmed'
  BY <1>5 DEF ReleaseComing
<1>6. (\E address \in Addresses : Connect(address))
      \/ StartReader \/ (\E key \in Keys : SendKey(key)) \/ WriteKey
      \/ BeginDisconnect \/ WriteClose \/ JoinLooper \/ Deinit
      \/ NotifyInDeinit \/ JoinReader \/ Deliver
        => UNCHANGED <<pendingRelease, releaseArmed>>
  BY DEF Connect, StartReader, SendKey, WriteKey, BeginDisconnect, WriteClose,
         JoinLooper, Deinit, NotifyInDeinit, JoinReader, Deliver
<1>7. (\E state \in Notifications : OnStatus(state)) \/ WriteStatus \/ LooperReturn
      \/ ReaderNext \/ Fault \/ UNCHANGED vars
        => UNCHANGED <<pendingRelease, releaseArmed>>
  BY DEF OnStatus, WriteStatus, LooperReturn, ReaderNext, ReadStatus, PostStatus,
         Fault, vars
<1> QED
  BY <1>1, <1>2, <1>3, <1>4, <1>5, <1>6, <1>7 DEF Next, UiNext, LooperNext

(* A key pressed with automatic release is never left to a timer that was  *)
(* removed or to a loop that has ended: its release is on the way, or it   *)
(* has been sent (Rcu.cpp, OnKeyAvailable and OnKeyRelease).               *)
THEOREM ReleaseAlwaysComing == SafeSpec => []ReleaseComing
<1>1. Init => ReleaseInv /\ ReleaseComing
  BY DEF Init, ReleaseInv, ReleaseComing
<1>2. ReleaseInv /\ (pendingRelease # NoKey => releaseArmed) => ReleaseComing
  BY DEF ReleaseInv, ReleaseComing
<1>3. SessionInv /\ ReleaseInv /\ ReleaseComing /\ [Next]_vars
        => (ReleaseInv /\ ReleaseComing)'
  BY <1>2, ReleaseStep, ReleaseComingStep DEF ReleaseInv, ReleaseComing
<1> QED BY <1>1, <1>3, SessionInvariant, PTL DEF SafeSpec

-----------------------------------------------------------------------------
(* An "EXIT" that has been posted, at whatever place in the queue of the   *)
(* main thread, is not overtaken, dropped or posted past: each text that   *)
(* is delivered brings it one place nearer, and once it is first, switches *)
(* the indicator off, with a later session in progress or not.             *)
ExitNears ==
  [][\A i \in 1..Len(posted) :
       posted[i] = "EXIT" =>
         /\ Deliver => IF i = 1 THEN ~mConnected' ELSE posted'[i - 1] = "EXIT"
         /\ ~Deliver => i \in 1..Len(posted') /\ posted'[i] = "EXIT"]_vars

(* After a disconnection the indicator goes off with the texts that are in *)
(* front of its "EXIT", which IndicatorSettles says is there (Freebox.java *)
(* and MainActivity.onFreeboxStatus): the safety half of IndicatorClears.  *)
THEOREM ExitAlwaysNears == SafeSpec => ExitNears
<1>1. ASSUME SessionInv, [Next]_vars, NEW i \in 1..Len(posted), posted[i] = "EXIT"
      PROVE  /\ Deliver => IF i = 1 THEN ~mConnected' ELSE posted'[i - 1] = "EXIT"
             /\ ~Deliver => i \in 1..Len(posted') /\ posted'[i] = "EXIT"
  <2>0. posted \in Seq(Texts \cup {"EXIT"})
    BY <1>1 DEF SessionInv, TypeOK, StatusTypeOK
  <2>2. ASSUME posted # <<>>, posted' = Tail(posted),
               mConnected' = (Head(posted) = "connected")
        PROVE  IF i = 1 THEN ~mConnected' ELSE posted'[i - 1] = "EXIT"
    <3>1. CASE i = 1
      <4>1. Head(posted) = posted[1]
        BY <2>0, <2>2
      <4> QED BY <1>1, <2>2, <3>1, <4>1
    <3>2. CASE i # 1
      BY <1>1, <2>0, <2>2, <3>2
    <3> QED BY <3>1, <3>2
  <2>3. CASE Deliver
    BY <2>2, <2>3 DEF Deliver, ConnectedBy
  <2>4. CASE ~Deliver
    <3>1. (\/ \E address \in Addresses : Connect(address)
           \/ \E key \in Keys : SendKey(key)
           \/ StartReader \/ WriteKey \/ BeginDisconnect \/ WriteClose
           \/ JoinLooper \/ CloseStatus \/ Deinit \/ NotifyInDeinit \/ Free
           \/ JoinReader)
            => posted' = posted
      BY DEF Connect, SendKey, StartReader, WriteKey, BeginDisconnect, WriteClose,
             JoinLooper, CloseStatus, Deinit, NotifyInDeinit, Free, JoinReader
    <3>2. (LooperNext \/ ReadStatus \/ Fault \/ UNCHANGED vars) => posted' = posted
      BY DEF LooperNext, OnKeyAvailable, OnKeyRelease, OnStatus, WriteStatus,
             LooperReturn, ReadStatus, Fault, vars
    <3>3. PostStatus => posted' = Append(posted, text)
      BY DEF PostStatus, PostText
    <3>4. posted' = posted \/ posted' = Append(posted, text)
      BY <1>1, <2>4, <3>1, <3>2, <3>3 DEF Next, UiNext, ReaderNext
    <3>5. CASE posted' = posted
      BY <1>1, <2>4, <3>5
    <3>6. CASE posted' = Append(posted, text)
      BY <1>1, <2>0, <2>4, <3>6
    <3> QED BY <3>4, <3>5, <3>6
  <2> QED BY <2>3, <2>4
<1>2. SessionInv /\ [Next]_vars =>
        [\A i \in 1..Len(posted) :
           posted[i] = "EXIT" =>
             /\ Deliver => IF i = 1 THEN ~mConnected' ELSE posted'[i - 1] = "EXIT"
             /\ ~Deliver => i \in 1..Len(posted') /\ posted'[i] = "EXIT"]_vars
  BY <1>1
<1> QED BY <1>2, SessionInvariant, PTL DEF SafeSpec, ExitNears

=============================================================================
