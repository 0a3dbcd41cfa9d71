----------------------------- MODULE RcuSession -----------------------------
(***************************************************************************)
(* One Freebox remote-control session: Freebox.java and, below it, the     *)
(* native Rcu.  Three threads run it:                                      *)
(*                                                                         *)
(*   ui      the main thread, in Freebox.connect, pressRcuKey,             *)
(*           releaseRcuKey, disconnect, and running posted status texts;   *)
(*   looper  the native event loop (ela_run): keys, key-release timer and  *)
(*           the status callback of the HID client;                        *)
(*   reader  the Java status thread, which blocks in Rcu::ReadStatus.      *)
(*                                                                         *)
(* They meet at two pipes of pointers, and disconnect tears down, in       *)
(* order, what the other two threads are using.  `live' is the set of      *)
(* objects that exist; a thread that is about to use one that does not     *)
(* takes the process down (Fault).                                         *)
(*                                                                         *)
(* Sessions follow one another for ever: the state below is that of the    *)
(* session in progress, except for posted and mConnected, which outlive it *)
(* (the Handler queue and the activity's flag).                            *)
(***************************************************************************)
EXTENDS Naturals, Sequences

CONSTANTS
  ReportIds,       \* HID report ids used by the keys
  KeyCodes,        \* key codes
  Notifications,   \* foils_hid_state values the HID client reports
  Addresses,       \* kinds of address boxes are known by, see below
  PipeCapacity,    \* pointers a pipe holds
  MaxCommands,     \* bound: keys sent in one session
  MaxStatus,       \* bound: statuses reported in one session
  MaxBacklog       \* bound: texts still posted when a session is opened

(* Rcu::ReadStatus: the text of a status code. *)
StateText ==
  [FOILS_HID_IDLE           |-> "idle",
   FOILS_HID_CONNECTING     |-> "connecting",
   FOILS_HID_CONNECTED      |-> "connected",
   FOILS_HID_RESOLVE_FAILED |-> "resolve failed",
   FOILS_HID_DROPPED        |-> "dropped"]

ASSUME SessionAssumption ==
  /\ KeyCodes \subseteq Nat \ {0}
  /\ Notifications \subseteq DOMAIN StateText
  /\ Addresses \subseteq {"numeric", "unparsable"}
  /\ PipeCapacity \in Nat \ {0}
  /\ {MaxCommands, MaxStatus, MaxBacklog} \subseteq Nat

VARIABLES
  crashed,          \* a thread has used an object that does not exist
  live,             \* objects that exist
  mAddress,         \* kind of the session's address
  currentRcu,       \* Rcu::_current_rcu is set
  ui, uiKey, uiStatus,            \* main thread: step, key or status being written
  looper, looperStatus,           \* looper thread: step, status being written
  exitRequested,    \* ela_exit has been called
  pendingRelease,   \* Rcu::_pending_release
  releaseArmed,     \* the key-release timer is added to the loop
  reader, text,     \* status thread: step, text last read
  looperPipe, statusPipe,
  posted,           \* texts posted to the main thread and not yet delivered
  mConnected,       \* MainActivity.mConnected
  notified,         \* history: statuses reported in this session
  accepted,         \* history: keys written to the looper pipe
  sent              \* history: HID reports sent, as <<report id, code>>

sessionVars == <<live, mAddress, currentRcu>>
uiVars      == <<ui, uiKey, uiStatus>>
keyVars     == <<pendingRelease, releaseArmed, sent>>
looperVars  == <<looper, looperStatus, exitRequested>>
readerVars  == <<reader, text>>
screenVars  == <<posted, mConnected>>
vars == <<crashed, sessionVars, uiVars, keyVars, looperVars, readerVars,
          screenVars, looperPipe, statusPipe, notified, accepted>>

-----------------------------------------------------------------------------
Objects == {"rcu", "looperPipe", "statusPipe", "loop", "hid",
            "pressSource", "releaseSource"}

Commands  == {"KEY_PRESS", "KEY_PRESS_RELEASE", "KEY_RELEASE"}
Keys      == [command : Commands, report : ReportIds, code : KeyCodes]
ClosePipe == [command |-> "CLOSE_PIPE"]
NoKey     == [command |-> "none"]

Texts == {StateText[n] : n \in Notifications}

(* Rcu::ReadStatus on a message of the status pipe. *)
StatusText(message) ==
  IF message = "CLOSE_PIPE" THEN "EXIT" ELSE StateText[message]

(* Key::Press and Key::Release: the HID report each sends. *)
Press(key)   == <<key.report, key.code>>
Release(key) == <<key.report, 0>>

(* What Rcu::OnKeyRelease sends: the release that is pending, if any. *)
PendingReports ==
  IF pendingRelease = NoKey THEN <<>> ELSE <<Release(pendingRelease)>>

(* The report a message of the looper pipe calls for at once. *)
Immediate(message) ==
  IF message = ClosePipe THEN <<>>
  ELSE IF message.command = "KEY_RELEASE" THEN <<Release(message)>>
  ELSE <<Press(message)>>

Timed(message) == message.command = "KEY_PRESS_RELEASE"

(* Mutant: the key is sent before the release of the one before it. *)
HandlePressFirst(message) == Immediate(message) \o PendingReports

(* Rcu::OnKeyAvailable sends the pending release before anything else. *)
Handle(message) == PendingReports \o Immediate(message)

(* Mutant: the pending release is flushed for keys only, not on CLOSE_PIPE. *)
PendingKeptOnClose(message) ==
  IF message = ClosePipe THEN pendingRelease
  ELSE IF Timed(message) THEN message ELSE NoKey

(* The release Rcu::OnKeyAvailable leaves pending. *)
PendingAfter(message) == IF Timed(message) THEN message ELSE NoKey

(* Mutant: the release is noted but its timer is not added to the loop. *)
NeverArmed(message) == FALSE

(* The timer after Rcu::OnKeyAvailable: ela_remove if a release was        *)
(* pending, ela_add for a timed press.                                     *)
ArmedAfter(message) ==
  Timed(message) \/ (releaseArmed /\ pendingRelease = NoKey)

(* Mutant: CLOSE_PIPE does not call ela_exit. *)
NeverAsked(message) == FALSE

AsksExit(message) == message = ClosePipe

(* Mutant: the limit of a pipe is off by one. *)
RoomForOneMore(pipe) == Len(pipe) <= PipeCapacity

(* Pipe::Write blocks until there is room. *)
Room(pipe) == Len(pipe) < PipeCapacity

(* Mutant: pthread_join is left out. *)
LooperDetached == TRUE

(* pthread_join returns. *)
LooperJoined == looper = "done"

(* Mutant: mStatusLooper.join is left out. *)
ReaderDetached == TRUE

(* mStatusLooper.join returns. *)
ReaderJoined == reader = "done"

(* Mutant: the status thread ends on "EXIT" before it posts it. *)
PostUnlessExit == IF text = "EXIT" THEN posted ELSE Append(posted, text)

PostText == Append(posted, text)

(* Mutant: the flag is raised but never lowered. *)
ConnectedOnce(status) == mConnected \/ status = "connected"

(* mConnected after MainActivity.onFreeboxStatus. *)
ConnectedBy(status) == status = "connected"

(* Objects a thread is about to use at each of its steps. *)
Disconnecting ==
  {"writeClose", "joinLooper", "closeStatus", "deinit", "notify", "free",
   "joinReader"}

UiNeeds ==
  CASE ui \in {"sendKey", "writeClose", "joinLooper"} -> {"rcu", "looperPipe"}
    [] ui = "closeStatus" ->
         {"rcu", "statusPipe", "loop", "pressSource", "releaseSource"}
    [] ui \in {"deinit", "free"} -> {"rcu", "hid", "loop"}
    [] ui = "notify"             -> {"rcu", "statusPipe", "hid"}
    [] ui = "joinReader"         -> {"rcu", "statusPipe"}
    [] OTHER                     -> {}

LooperNeeds ==
  CASE looper = "loop"   -> Objects \ {"statusPipe"}
    [] looper = "notify" -> {"rcu", "statusPipe", "loop", "hid"}
    [] OTHER             -> {}

ReaderNeeds == IF reader = "read" THEN {"rcu", "statusPipe"} ELSE {}

Alive(needs) == ~crashed /\ needs \subseteq live
-----------------------------------------------------------------------------
Init ==
  /\ crashed = FALSE
  /\ live = {}
  /\ mAddress \in Addresses
  /\ currentRcu = FALSE
  /\ ui = "idle" /\ uiKey = NoKey /\ uiStatus = "none"
  /\ looper = "none" /\ looperStatus = "none" /\ exitRequested = FALSE
  /\ pendingRelease = NoKey /\ releaseArmed = FALSE
  /\ reader = "none" /\ text = "none"
  /\ looperPipe = <<>> /\ statusPipe = <<>>
  /\ posted = <<>> /\ mConnected = FALSE
  /\ notified = 0 /\ accepted = <<>> /\ sent = <<>>

(* Freebox.connect as far as the start of the looper thread.  The HID      *)
(* client may report a status while it connects: the callback runs on this *)
(* thread and finds an empty pipe.  An address that inet_pton rejects      *)
(* leaves the Rcu as the constructor made it.                              *)
Connect(address) ==
  /\ Alive(UiNeeds)
  /\ ui = "idle" /\ "rcu" \notin live
  /\ Len(posted) <= MaxBacklog
  /\ mAddress' = address
  /\ \/ /\ address = "numeric"
        /\ live' = Objects
        /\ currentRcu' = TRUE
        /\ looper' = "loop"
        /\ \/ statusPipe' = <<>> /\ notified' = 0
           \/ MaxStatus > 0 /\ notified' = 1
              /\ \E s \in Notifications : statusPipe' = <<s>>
     \/ /\ address = "unparsable"
        /\ live' = {"rcu"}
        /\ statusPipe' = <<>> /\ notified' = 0
        /\ UNCHANGED <<currentRcu, looper>>
  /\ ui' = "startReader"
  /\ looperPipe' = <<>>
  /\ exitRequested' = FALSE
  /\ accepted' = <<>> /\ sent' = <<>>
  /\ UNCHANGED <<crashed, uiKey, uiStatus, looperStatus, pendingRelease,
                 releaseArmed, readerVars, screenVars>>

(* mStatusLooper.start *)
StartReader ==
  /\ Alive(UiNeeds)
  /\ ui = "startReader"
  /\ ui' = "idle"
  /\ reader' = "read"
  /\ UNCHANGED <<crashed, sessionVars, uiKey, uiStatus, keyVars, looperVars,
                 text, screenVars, looperPipe, statusPipe, notified, accepted>>

(* Rcu::SendKeyPress and Rcu::SendKeyRelease build the key ... *)
SendKey(key) ==
  /\ Alive(UiNeeds)
  /\ ui = "idle" /\ "pressSource" \in live
  /\ Len(accepted) < MaxCommands
  /\ ui' = "sendKey"
  /\ uiKey' = key
  /\ UNCHANGED <<crashed, sessionVars, uiStatus, keyVars, looperVars,
                 readerVars, screenVars, looperPipe, statusPipe, notified,
                 accepted>>

(* ... and write it to the looper pipe, blocking while that is full. *)
WriteKey ==
  /\ Alive(UiNeeds)
  /\ ui = "sendKey"
  /\ Room(looperPipe)
  /\ looperPipe' = Append(looperPipe, uiKey)
  /\ accepted' = Append(accepted, uiKey)
  /\ ui' = "idle"
  /\ uiKey' = NoKey
  /\ UNCHANGED <<crashed, sessionVars, uiStatus, keyVars, looperVars,
                 readerVars, screenVars, statusPipe, notified>>

(* Freebox.disconnect, entering Rcu::Disconnect. *)
BeginDisconnect ==
  /\ Alive(UiNeeds)
  /\ ui = "idle" /\ reader # "none" /\ "rcu" \in live
  /\ ui' = IF "pressSource" \in live THEN "writeClose" ELSE "deinit"
  /\ UNCHANGED <<crashed, sessionVars, uiKey, uiStatus, keyVars, looperVars,
                 readerVars, screenVars, looperPipe, statusPipe, notified,
                 accepted>>

(* Mutant: the looper pipe is deleted before pthread_join, not after it. *)
WriteCloseAndDelete ==
  /\ Alive(UiNeeds)
  /\ ui = "writeClose"
  /\ Room(looperPipe)
  /\ looperPipe' = Append(looperPipe, ClosePipe)
  /\ live' = live \ {"looperPipe"}
  /\ ui' = "joinLooper"
  /\ UNCHANGED <<crashed, mAddress, currentRcu, uiKey, uiStatus, keyVars,
                 looperVars, readerVars, screenVars, statusPipe, notified,
                 accepted>>

(* Rcu::Disconnect begins: CLOSE_PIPE goes to the looper pipe. *)
WriteClose ==
  /\ Alive(UiNeeds)
  /\ ui = "writeClose"
  /\ Room(looperPipe)
  /\ looperPipe' = Append(looperPipe, ClosePipe)
  /\ ui' = "joinLooper"
  /\ UNCHANGED <<crashed, sessionVars, uiKey, uiStatus, keyVars, looperVars,
                 readerVars, screenVars, statusPipe, notified, accepted>>

(* pthread_join, then delete _looper_pipe. *)
JoinLooper ==
  /\ Alive(UiNeeds)
  /\ ui = "joinLooper" /\ LooperJoined
  /\ looper' = "none"
  /\ live' = live \ {"looperPipe"}
  /\ ui' = "closeStatus"
  /\ UNCHANGED <<crashed, mAddress, currentRcu, uiKey, uiStatus, keyVars,
                 looperStatus, exitRequested, readerVars, screenVars,
                 looperPipe, statusPipe, notified, accepted>>

(* CLOSE_PIPE goes to the status pipe, then both event sources are freed. *)
CloseStatus ==
  /\ Alive(UiNeeds)
  /\ ui = "closeStatus"
  /\ Room(statusPipe)
  /\ statusPipe' = Append(statusPipe, "CLOSE_PIPE")
  /\ live' = live \ {"pressSource", "releaseSource"}
  /\ releaseArmed' = FALSE
  /\ ui' = "deinit"
  /\ UNCHANGED <<crashed, mAddress, currentRcu, uiKey, uiStatus, looperVars,
                 pendingRelease, sent, readerVars, screenVars, looperPipe,
                 notified, accepted>>

(* foils_hid_deinit: the HID client may report one last status from inside *)
(* it, on this thread.                                                     *)
Deinit ==
  /\ Alive(UiNeeds)
  /\ ui = "deinit"
  /\ \/ ui' = "free" /\ UNCHANGED <<uiStatus, notified>>
     \/ /\ currentRcu /\ notified < MaxStatus
        /\ notified' = notified + 1
        /\ uiStatus' \in Notifications
        /\ ui' = "notify"
  /\ UNCHANGED <<crashed, sessionVars, uiKey, keyVars, looperVars, readerVars,
                 screenVars, looperPipe, statusPipe, accepted>>

(* Rcu::OnStatus on the main thread. *)
NotifyInDeinit ==
  /\ Alive(UiNeeds)
  /\ ui = "notify"
  /\ Room(statusPipe)
  /\ statusPipe' = Append(statusPipe, uiStatus)
  /\ uiStatus' = "none"
  /\ ui' = "free"
  /\ UNCHANGED <<crashed, sessionVars, uiKey, keyVars, looperVars, readerVars,
                 screenVars, looperPipe, notified, accepted>>

(* Mutant: the Rcu is destroyed before mStatusLooper.join, not after it. *)
FreeAll ==
  /\ Alive(UiNeeds)
  /\ ui = "free"
  /\ live' = {}
  /\ pendingRelease' = NoKey
  /\ currentRcu' = FALSE
  /\ ui' = "joinReader"
  /\ UNCHANGED <<crashed, mAddress, uiKey, uiStatus, releaseArmed, sent,
                 looperVars, readerVars, screenVars, looperPipe, statusPipe,
                 notified, accepted>>

(* free (_hid_client) to the end of Rcu::Disconnect. *)
Free ==
  /\ Alive(UiNeeds)
  /\ ui = "free"
  /\ live' = live \ {"hid", "loop"}
  /\ pendingRelease' = NoKey
  /\ currentRcu' = FALSE
  /\ ui' = "joinReader"
  /\ UNCHANGED <<crashed, mAddress, uiKey, uiStatus, releaseArmed, sent,
                 looperVars, readerVars, screenVars, looperPipe, statusPipe,
                 notified, accepted>>

(* mStatusLooper.join, then delete rcu and with it the status pipe. *)
JoinReader ==
  /\ Alive(UiNeeds)
  /\ ui = "joinReader" /\ ReaderJoined
  /\ reader' = "none"
  /\ live' = live \ {"rcu", "statusPipe"}
  /\ ui' = "idle"
  /\ UNCHANGED <<crashed, mAddress, currentRcu, uiKey, uiStatus, keyVars,
                 looperVars, text, screenVars, looperPipe, statusPipe,
                 notified, accepted>>

(* The main thread runs a posted runnable: MainActivity.onFreeboxStatus. *)
Deliver ==
  /\ Alive(UiNeeds)
  /\ ui = "idle" /\ posted # <<>>
  /\ mConnected' = ConnectedBy(Head(posted))
  /\ posted' = Tail(posted)
  /\ UNCHANGED <<crashed, sessionVars, uiVars, keyVars, looperVars,
                 readerVars, looperPipe, statusPipe, notified, accepted>>
-----------------------------------------------------------------------------
(* Rcu::OnKeyAvailable.  Whatever the message is, CLOSE_PIPE included, the *)
(* pending release goes out first.                                         *)
OnKeyAvailable ==
  /\ Alive(LooperNeeds)
  /\ looper = "loop" /\ looperPipe # <<>>
  /\ LET message == Head(looperPipe)
     IN  /\ exitRequested' = (exitRequested \/ AsksExit(message))
         /\ sent' = sent \o Handle(message)
         /\ pendingRelease' = PendingAfter(message)
         /\ releaseArmed' = ArmedAfter(message)
  /\ looperPipe' = Tail(looperPipe)
  /\ UNCHANGED <<crashed, sessionVars, uiVars, looper, looperStatus,
                 readerVars, screenVars, statusPipe, notified, accepted>>

(* Rcu::OnKeyRelease: the timer fires, once. *)
OnKeyRelease ==
  /\ Alive(LooperNeeds)
  /\ looper = "loop" /\ releaseArmed
  /\ sent' = sent \o PendingReports
  /\ pendingRelease' = NoKey
  /\ releaseArmed' = FALSE
  /\ UNCHANGED <<crashed, sessionVars, uiVars, looperVars, readerVars,
                 screenVars, looperPipe, statusPipe, notified, accepted>>

(* Rcu::OnStatus, called by the HID client from the event loop ... *)
OnStatus(state) ==
  /\ Alive(LooperNeeds)
  /\ looper = "loop" /\ currentRcu
  /\ notified < MaxStatus
  /\ notified' = notified + 1
  /\ looperStatus' = state
  /\ looper' = "notify"
  /\ UNCHANGED <<crashed, sessionVars, uiVars, keyVars, exitRequested,
                 readerVars, screenVars, looperPipe, statusPipe, accepted>>

(* ... writes to the status pipe, blocking while that is full. *)
WriteStatus ==
  /\ Alive(LooperNeeds)
  /\ looper = "notify"
  /\ Room(statusPipe)
  /\ statusPipe' = Append(statusPipe, looperStatus)
  /\ looperStatus' = "none"
  /\ looper' = "loop"
  /\ UNCHANGED <<crashed, sessionVars, uiVars, keyVars, exitRequested,
                 readerVars, screenVars, looperPipe, notified, accepted>>

(* ela_run returns: the callbacks of the iteration that called ela_exit    *)
(* may run before it does.                                                 *)
LooperReturn ==
  /\ Alive(LooperNeeds)
  /\ looper = "loop" /\ exitRequested
  /\ looper' = "done"
  /\ UNCHANGED <<crashed, sessionVars, uiVars, keyVars, looperStatus,
                 exitRequested, readerVars, screenVars, looperPipe,
                 statusPipe, notified, accepted>>

-----------------------------------------------------------------------------
(* Rcu::ReadStatus blocks until there is a message. *)
ReadStatus ==
  /\ Alive(ReaderNeeds)
  /\ reader = "read" /\ statusPipe # <<>>
  /\ text' = StatusText(Head(statusPipe))
  /\ statusPipe' = Tail(statusPipe)
  /\ reader' = "post"
  /\ UNCHANGED <<crashed, sessionVars, uiVars, keyVars, looperVars,
                 screenVars, looperPipe, notified, accepted>>

(* The status thread posts the text; "EXIT" is the last one. *)
PostStatus ==
  /\ Alive(ReaderNeeds)
  /\ reader = "post"
  /\ posted' = PostText
  /\ reader' = IF text = "EXIT" THEN "done" ELSE "read"
  /\ UNCHANGED <<crashed, sessionVars, uiVars, keyVars, looperVars, text,
                 mConnected, looperPipe, statusPipe, notified, accepted>>

-----------------------------------------------------------------------------
(* A thread uses an object that has been destroyed or was never made. *)
Fault ==
  /\ ~crashed
  /\ ~(UiNeeds \cup LooperNeeds \cup ReaderNeeds \subseteq live)
  /\ crashed' = TRUE
  /\ UNCHANGED <<sessionVars, uiVars, keyVars, looperVars, readerVars,
                 screenVars, looperPipe, statusPipe, notified, accepted>>

UiNext ==
  \/ \E address \in Addresses : Connect(address)
  \/ StartReader
  \/ \E key \in Keys : SendKey(key)
  \/ WriteKey
  \/ BeginDisconnect
  \/ WriteClose
  \/ JoinLooper
  \/ CloseStatus
  \/ Deinit
  \/ NotifyInDeinit
  \/ Free
  \/ JoinReader
  \/ Deliver

LooperNext ==
  \/ OnKeyAvailable
  \/ OnKeyRelease
  \/ \E state \in Notifications : OnStatus(state)
  \/ WriteStatus
  \/ LooperReturn

ReaderNext == ReadStatus \/ PostStatus

Next == UiNext \/ LooperNext \/ ReaderNext \/ Fault

(* A thread that is in the middle of a call goes on with it.  The event    *)
(* loop serves every source that stays ready, and the Handler queue is     *)
(* first in, first out, whatever else the two threads do in between: these *)
(* are strong.  Nothing makes the user press keys or switch boxes, nor the *)
(* network report statuses.                                                *)
UiContinues ==
  \/ StartReader \/ WriteKey \/ WriteClose \/ JoinLooper \/ CloseStatus
  \/ Deinit \/ NotifyInDeinit \/ Free \/ JoinReader

Fairness ==
  /\ WF_vars(UiContinues)
  /\ WF_vars(ReaderNext)
  /\ WF_vars(WriteStatus)
  /\ WF_vars(LooperReturn)
  /\ SF_vars(OnKeyAvailable)
  /\ SF_vars(OnKeyRelease)
  /\ SF_vars(Deliver)

SafeSpec == Init /\ [][Next]_vars
Spec == SafeSpec /\ Fairness

-----------------------------------------------------------------------------
ControlTypeOK ==
  /\ crashed \in BOOLEAN /\ currentRcu \in BOOLEAN
  /\ live \subseteq Objects
  /\ mAddress \in Addresses
  /\ ui \in {"idle", "startReader", "sendKey"} \cup Disconnecting
  /\ looper \in {"none", "loop", "notify", "done"}
  /\ reader \in {"none", "read", "post", "done"}
  /\ exitRequested \in BOOLEAN /\ releaseArmed \in BOOLEAN
  /\ mConnected \in BOOLEAN

KeyTypeOK ==
  /\ uiKey \in Keys \cup {NoKey}
  /\ ui = "sendKey" => uiKey \in Keys
  /\ pendingRelease \in Keys \cup {NoKey}
  /\ looperPipe \in Seq(Keys \cup {ClosePipe})
  /\ Len(looperPipe) <= PipeCapacity
  /\ accepted \in Seq(Keys)
  /\ sent \in Seq(ReportIds \X (KeyCodes \cup {0}))

StatusTypeOK ==
  /\ uiStatus \in Notifications \cup {"none"}
  /\ ui = "notify" => uiStatus \in Notifications
  /\ looperStatus \in Notifications \cup {"none"}
  /\ looper = "notify" => looperStatus \in Notifications
  /\ text \in Texts \cup {"EXIT", "none"}
  /\ reader = "post" => text # "none"
  /\ statusPipe \in Seq(Notifications \cup {"CLOSE_PIPE"})
  /\ Len(statusPipe) <= PipeCapacity
  /\ posted \in Seq(Texts \cup {"EXIT"})
  /\ notified \in 0..MaxStatus

(* Every variable keeps to its type; each pipe holds what its writers      *)
(* write, and no more than it can.                                         *)
TypeOK == ControlTypeOK /\ KeyTypeOK /\ StatusTypeOK

(* Connect, disconnect and the two other threads never use a pipe, an      *)
(* event source, the loop, the HID client or the Rcu before it is made or  *)
(* after it is destroyed - as long as the box's address is one that        *)
(* Rcu::Connect understands.                                               *)
NoFault == mAddress = "numeric" => ~crashed

(* Rcu::Disconnect deletes the looper pipe when it holds nothing any more: *)
(* no key accepted before the disconnection is dropped with it.            *)
NothingLost ==
  [][("looperPipe" \in live /\ "looperPipe" \notin live') => looperPipe = <<>>]_vars

(* The HID reports a key stands for. *)
Reports(key) ==
  CASE key.command = "KEY_PRESS"         -> <<Press(key)>>
    [] key.command = "KEY_PRESS_RELEASE" -> <<Press(key), Release(key)>>
    [] key.command = "KEY_RELEASE"       -> <<Release(key)>>
    [] OTHER                             -> <<>>

AllReports(messages) ==
  LET upTo[i \in 0..Len(messages)] ==
        IF i = 0 THEN <<>> ELSE upTo[i - 1] \o Reports(messages[i])
  IN  upTo[Len(messages)]

(* The box receives exactly the reports of the keys the user entered, in   *)
(* order: a timed press is followed by its own release before anything of  *)
(* a later key, whichever of the timer, the next key and CLOSE_PIPE comes  *)
(* first, and no report is sent twice or dropped.                          *)
KeysInOrder ==
  AllReports(accepted) = sent \o PendingReports \o AllReports(looperPipe)

(* A key pressed with automatic release is released by the time the event  *)
(* loop has ended: a closing session leaves no such key held down.  (A key *)
(* pressed without it is the user's to release.)                           *)
NoKeyLeftPressed == looper = "done" => pendingRelease = NoKey /\ ~releaseArmed

(* Between sessions the activity's indicator is, or is about to be, off:   *)
(* the last text posted by a session that is over is "EXIT".               *)
IndicatorSettles ==
  "rcu" \notin live =>
    IF posted = <<>> THEN ~mConnected ELSE posted[Len(posted)] = "EXIT"

(* Once all posted texts are delivered, the indicator agrees with the last *)
(* status the session's thread has read, whatever session they came from.  *)
IndicatorCurrent ==
  (posted = <<>> /\ reader # "post") => (mConnected <=> text = "connected")

-----------------------------------------------------------------------------
(* The inductive invariant behind the safety properties: what exists at    *)
(* each step of the main thread, and how far each CLOSE_PIPE has got.      *)
HasNoClose(pipe, closing) == \A i \in 1..Len(pipe) : pipe[i] # closing

(* CLOSE_PIPE has been written to the status pipe. *)
StatusClosed == ui \in {"deinit", "notify", "free", "joinReader"}

LiveInv ==
  /\ ~crashed
  /\ ui = "idle" => live \in {{}, Objects}
  /\ ui \in {"startReader", "sendKey", "writeClose", "joinLooper"} => live = Objects
  /\ ui = "closeStatus" => live = Objects \ {"looperPipe"}
  /\ ui \in {"deinit", "notify", "free"} => live = {"rcu", "statusPipe", "loop", "hid"}
  /\ ui = "joinReader" => live = {"rcu", "statusPipe"}
  /\ looper # "none" <=> live = Objects
  /\ reader = "none" <=> (ui = "startReader" \/ live = {})

LooperInv ==
  looper # "none" =>
    /\ looper = "done" => exitRequested
    /\ exitRequested => ui = "joinLooper" /\ looperPipe = <<>>
    /\ ui # "joinLooper" => HasNoClose(looperPipe, ClosePipe)
    /\ (ui = "joinLooper" /\ ~exitRequested) =>
         /\ looperPipe # <<>>
         /\ looperPipe[Len(looperPipe)] = ClosePipe
         /\ \A i \in 1..(Len(looperPipe) - 1) : looperPipe[i] # ClosePipe

ReaderInv ==
  /\ ("statusPipe" \in live /\ ~StatusClosed) => HasNoClose(statusPipe, "CLOSE_PIPE")
  /\ (reader = "post" /\ text = "EXIT") => StatusClosed
  /\ reader = "done" =>
       StatusClosed /\ posted # <<>> /\ posted[Len(posted)] = "EXIT"
  /\ IndicatorSettles

(* A session at an address Rcu::Connect rejects has only its Rcu object:   *)
(* nothing that would destroy it can run.                                  *)
Stuck ==
  /\ mAddress = "unparsable"
  /\ live = {"rcu"}
  /\ looper = "none"
  /\ reader \in {"none", "read"}

SessionInv == TypeOK /\ ((LiveInv /\ LooperInv /\ ReaderInv) \/ Stuck)

(* A release that is pending belongs to an event loop that is running and  *)
(* has not seen CLOSE_PIPE; the timer is only added for such a release.    *)
ReleaseInv ==
  /\ pendingRelease # NoKey => looper \in {"loop", "notify"} /\ ~exitRequested
  /\ releaseArmed => pendingRelease # NoKey

(* Unless the status thread is about to post what it has just read, that   *)
(* is the last text posted, or, when all are delivered, what mConnected    *)
(* was last set from.                                                      *)
IndicatorInv ==
  reader # "post" =>
    IF posted = <<>> THEN mConnected <=> text = "connected"
                     ELSE posted[Len(posted)] = text

-----------------------------------------------------------------------------
(* Freebox.disconnect, which runs on the main thread, comes back: neither  *)
(* of its two joins nor any of its pipe writes blocks for ever.            *)
DisconnectReturns == ui = "writeClose" ~> ui = "idle"

(* A key pressed with automatic release is eventually released.            *)
PressReleased == pendingRelease # NoKey ~> pendingRelease = NoKey

(* After a disconnection the indicator goes off, even if the user opens    *)
(* another session before the old session's texts are all delivered.       *)
IndicatorClears == ui = "joinReader" ~> ~mConnected

(* The session as MainActivity sees it (FreeboxSession).                   *)
Phase ==
  IF "rcu" \notin live THEN "closed"
  ELSE IF reader = "done" THEN "ended"
  ELSE IF ui \in Disconnecting THEN "closing"
  ELSE "open"

Session == INSTANCE FreeboxSession WITH phase <- Phase

(* The threads, pipes and teardown implement the session that MainActivity *)
(* relies on: texts one by one, "EXIT" last, nothing after disconnect has  *)
(* returned, and disconnect returns.                                       *)
ImplementsSession == Session!Spec

=============================================================================
