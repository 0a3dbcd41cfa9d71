------------------------------ MODULE Activity ------------------------------
(***************************************************************************)
(* MainActivity with its Home: the boxes that are known, the one that is   *)
(* active, its session, and what survives onPause and a dead process.      *)
(*                                                                         *)
(* The main thread does one thing at a time: a user action, onResume,      *)
(* onPause, or the next message of its queue.  All Handlers post to that   *)
(* one queue, so status texts and detections keep their order across       *)
(* threads.  A session is what FreeboxSession says it is; while the main   *)
(* thread is in Freebox.disconnect the status thread and the sniffers'     *)
(* threads still run.                                                      *)
(*                                                                         *)
(* Sniffers call FreeboxSniffer.onFreeboxDetected on their own threads,    *)
(* also for a while after stop() has removed what they had posted: such    *)
(* detections are late.                                                    *)
(***************************************************************************)
EXTENDS Naturals, Sequences, FiniteSets

CONSTANTS
  Endpoints,       \* address and port of the boxes of the network
  Connectable,     \* those whose port is not 0
  Colors,          \* Painter.mColors
  Texts,           \* status texts other than "EXIT"
  MaxQueue,        \* bound: messages waiting when a thread posts or the user acts
  MaxLate,         \* bound: late detections
  MaxRestarts      \* bound: deaths of the process

ASSUME ActivityAssumption ==
  /\ Connectable \subseteq Endpoints
  /\ "none" \notin Endpoints
  /\ Colors \in Seq(STRING) /\ Colors # <<>>
  /\ "EXIT" \notin Texts
  /\ {MaxQueue, MaxLate, MaxRestarts} \subseteq Nat

VARIABLES
  resumed,       \* between onResume and onPause
  mBoxes,        \* Home.mBoxes
  usedColors,    \* colors whose count in Painter.mColorTable is not 0
  saved,         \* "freebox_pool" in the preferences
  active,        \* MainActivity.mActiveFreebox: an endpoint, or "none"
  listed,        \* the active box is an element of mBoxes
  mConnected,    \* MainActivity.mConnected
  ui,            \* main thread: "ready", in "disconnect", about to "connect"
  target,        \* box connectFreebox was called with, "none" in onPause
  phase,         \* of the session, as in FreeboxSession
  queue,         \* messages posted to the main thread
  sniffing,      \* the sniffers are started
  crashed,       \* paintBoxButtons was called with no active box
  late,          \* history: late detections
  lastActive,    \* history: box that was active at the last onPause
  restarts       \* history: deaths of the process

homeVars    == <<mBoxes, usedColors, saved>>
sessionVars == <<active, listed, mConnected, ui, target, phase>>
ghostVars   == <<late, lastActive, restarts>>
vars == <<resumed, homeVars, sessionVars, queue, sniffing, crashed, ghostVars>>

-----------------------------------------------------------------------------
Indices(boxes, P(_)) == {i \in DOMAIN boxes : P(boxes[i])}

Least(S)    == CHOOSE i \in S : \A j \in S : i <= j
Greatest(S) == CHOOSE i \in S : \A j \in S : j <= i

Known(boxes, endpoint) == \E i \in DOMAIN boxes : boxes[i].endpoint = endpoint

SetFocus(boxes, endpoint, focus) ==
  [i \in DOMAIN boxes |->
     IF boxes[i].endpoint = endpoint THEN [boxes[i] EXCEPT !.focus = focus]
                                     ELSE boxes[i]]

Focused == Indices(mBoxes, LAMBDA box : box.focus)

(* Home.getNextReachable: the first reachable box after the given one. *)
NextReachable(of) ==
  LET after == {j \in Indices(mBoxes, LAMBDA box : box.reachable) :
                  \E i \in 1..(j - 1) : mBoxes[i].endpoint = of}
  IN  IF after = {} THEN "none" ELSE mBoxes[Least(after)].endpoint

(* Mutant: a box that is not reachable is selected too. *)
PreviousOfAny(of) ==
  LET before == {j \in DOMAIN mBoxes : \A i \in 1..j : mBoxes[i].endpoint # of}
  IN  IF before = {} THEN "none" ELSE mBoxes[Greatest(before)].endpoint

(* Home.getPreviousReachable: the last reachable box before the given one, *)
(* or of all of them if that one is not in the list.                       *)
PreviousReachable(of) ==
  LET before == {j \in Indices(mBoxes, LAMBDA box : box.reachable) :
                   \A i \in 1..j : mBoxes[i].endpoint # of}
  IN  IF before = {} THEN "none" ELSE mBoxes[Greatest(before)].endpoint

(* Mutant: the comparison is strict, so that no color ever replaces the    *)
(* first one.                                                              *)
FirstColor == Colors[1]

(* Painter.getColor.  Its lowest count starts at 0, so that only counts of *)
(* 0 matter: the last unused color, or the first color when all are used.  *)
FreshColor ==
  LET unused == Indices(Colors, LAMBDA color : color \notin usedColors)
  IN  IF unused = {} THEN Colors[1] ELSE Colors[Greatest(unused)]

(* Freebox.getJson and the constructor from JSON: a box comes back not     *)
(* reachable.                                                              *)
Save(boxes) ==
  [i \in DOMAIN boxes |->
     [endpoint |-> boxes[i].endpoint, focus |-> boxes[i].focus,
      color |-> boxes[i].color]]

Recover(pool) ==
  [i \in DOMAIN pool |->
     [endpoint |-> pool[i].endpoint, reachable |-> FALSE,
      focus |-> pool[i].focus, color |-> pool[i].color]]

(* Mutant: without a box that has the focus, none is selected. *)
FocusedOnly(pool) ==
  LET focused == Indices(pool, LAMBDA box : box.focus)
  IN  IF focused = {} THEN "none" ELSE pool[Greatest(focused)].endpoint

(* The box Home.recoverSavedBoxes selects: the last one with the focus, or *)
(* else the first one.                                                     *)
FocusOf(pool) ==
  LET focused == Indices(pool, LAMBDA box : box.focus)
  IN  IF pool = <<>> THEN "none"
      ELSE IF focused = {} THEN pool[1].endpoint
      ELSE pool[Greatest(focused)].endpoint

Status(text)       == [kind |-> "status", value |-> text]
Detected(endpoint) == [kind |-> "detected", value |-> endpoint]
IsStatus(message)  == message.kind = "status"

(* What is left of a queue without its detections: a recursive function,   *)
(* which can be proved about, in place of SelectSeq.                       *)
Statuses(messages) ==
  LET kept[i \in 0..Len(messages)] ==
        IF i = 0 THEN <<>>
        ELSE IF IsStatus(messages[i]) THEN Append(kept[i - 1], messages[i])
        ELSE kept[i - 1]
  IN  kept[Len(messages)]

-----------------------------------------------------------------------------
Init ==
  /\ resumed = FALSE
  /\ mBoxes = <<>> /\ usedColors = {} /\ saved = <<>>
  /\ active = "none" /\ listed = FALSE /\ mConnected = FALSE
  /\ ui = "ready" /\ target = "none" /\ phase = "closed"
  /\ queue = <<>>
  /\ sniffing = FALSE
  /\ crashed = FALSE
  /\ late = 0 /\ lastActive = "none" /\ restarts = 0

Ready == ui = "ready" /\ ~crashed

(* Bound: the user waits for the main thread to catch up with its queue. *)
Patient == Len(queue) <= MaxQueue

(* Mutant: the box that was active keeps the focus. *)
KeepFocus(boxes) == boxes

(* mActiveFreebox.releaseFocus: on the element of the list, or on a box    *)
(* that is no longer in it.                                                *)
ReleaseFocus(boxes) == IF listed THEN SetFocus(boxes, active, FALSE) ELSE boxes

(* Mutant: connectFreebox does not disconnect the active box. *)
NeverDisconnect(inSession, endpoint) ==
  /\ target' = endpoint
  /\ ui' = "connect"
  /\ phase' = phase

(* disconnectFreebox is entered, then connectFreebox goes on with a box if *)
(* one is given.  Freebox.disconnect does nothing without a session.       *)
Switch(inSession, endpoint) ==
  /\ target' = endpoint
  /\ ui' = IF inSession THEN "disconnect" ELSE "connect"
  /\ phase' = IF inSession THEN "closing" ELSE phase

(* connectFreebox, on the given list of boxes. *)
ConnectFreebox(boxes, endpoint) ==
  /\ mBoxes' = ReleaseFocus(boxes)
  /\ Switch(phase = "open", endpoint)
  /\ UNCHANGED <<active, listed, mConnected>>

(* connectFreebox goes on: grabFocus, Freebox.connect; then the buttons    *)
(* are painted.  In onResume, the sniffers are started after that.         *)
Connect ==
  /\ ui = "connect" /\ target # "none"
  /\ active' = target
  /\ listed' = TRUE
  /\ mBoxes' = SetFocus(mBoxes, target, TRUE)
  /\ phase' = IF target \in Connectable THEN "open" ELSE "closed"
  /\ ui' = "ready" /\ target' = "none"
  /\ sniffing' = resumed
  /\ UNCHANGED <<resumed, usedColors, saved, mConnected, queue, crashed,
                 ghostVars>>

(* disconnectFreebox in onPause is over. *)
Disconnected ==
  /\ ui = "connect" /\ target = "none"
  /\ active' = "none"
  /\ ui' = "ready"
  /\ UNCHANGED <<resumed, homeVars, listed, mConnected, target, phase, queue,
                 sniffing, crashed, ghostVars>>

(* Mutant: Freebox.disconnect does not join the status thread. *)
NotJoined == phase \in {"closing", "ended"}

(* mStatusLooper.join returns. *)
Joined == phase = "ended"

(* Freebox.disconnect returns. *)
Return ==
  /\ ui = "disconnect" /\ Joined
  /\ phase' = "closed"
  /\ ui' = "connect"
  /\ UNCHANGED <<resumed, homeVars, active, listed, mConnected, target, queue,
                 sniffing, crashed, ghostVars>>

(* The status thread of the session posts a text, or its last one. *)
Report(text) ==
  /\ phase \in {"open", "closing"} /\ ~crashed
  /\ Len(queue) < MaxQueue
  /\ queue' = Append(queue, Status(text))
  /\ UNCHANGED <<resumed, homeVars, sessionVars, sniffing, crashed, ghostVars>>

Exit ==
  /\ phase = "closing" /\ ~crashed
  /\ phase' = "ended"
  /\ queue' = Append(queue, Status("EXIT"))
  /\ UNCHANGED <<resumed, homeVars, active, listed, mConnected, ui, target,
                 sniffing, crashed, ghostVars>>

(* FreeboxSniffer.onFreeboxDetected, on a thread of its own. *)
Detect(endpoint) ==
  /\ ~crashed /\ Len(queue) < MaxQueue
  /\ \/ sniffing /\ late' = late
     \/ ~sniffing /\ late < MaxLate /\ late' = late + 1
  /\ queue' = Append(queue, Detected(endpoint))
  /\ UNCHANGED <<resumed, homeVars, sessionVars, sniffing, crashed,
                 lastActive, restarts>>

-----------------------------------------------------------------------------
(* onResume: Home.discloseBoxes recovers the saved boxes, connects to the  *)
(* one that had the focus and starts the sniffers.                         *)
Resume ==
  /\ Ready /\ Patient /\ ~resumed
  /\ resumed' = TRUE
  /\ listed' = FALSE
  /\ usedColors' = usedColors \cup {saved[i].color : i \in DOMAIN saved}
  /\ mBoxes' = Recover(saved)
  /\ IF saved = <<>>
       THEN sniffing' = TRUE /\ UNCHANGED <<ui, target, phase>>
       ELSE sniffing' = FALSE /\ Switch(phase = "open", FocusOf(saved))
  /\ UNCHANGED <<saved, active, mConnected, queue, crashed, ghostVars>>

(* Mutant: the pool is saved after disconnectFreebox has released the box. *)
SavedUnfocused(boxes) == Save(SetFocus(boxes, active, FALSE))

(* Home.save *)
SavedPool(boxes) == Save(boxes)

(* Mutant: what the sniffers have posted is kept. *)
KeepDetections == queue

(* FreeboxSniffer.stop: removeCallbacksAndMessages, on every sniffer. *)
DropDetections == Statuses(queue)

(* onPause: Home.concealBoxes stops the sniffers, which drops what they    *)
(* posted, saves and clears the list; then disconnectFreebox.              *)
Pause ==
  /\ Ready /\ Patient /\ resumed
  /\ resumed' = FALSE
  /\ sniffing' = FALSE
  /\ queue' = DropDetections
  /\ saved' = SavedPool(mBoxes)
  /\ mBoxes' = <<>>
  /\ Switch(phase = "open", "none")
  /\ lastActive' = IF listed THEN active ELSE "none"
  /\ listed' = FALSE
  /\ UNCHANGED <<usedColors, active, mConnected, crashed, late, restarts>>

(* onNextFreebox and onPreviousFreebox; a button that leads nowhere is     *)
(* hidden.                                                                 *)
Select(endpoint) ==
  /\ Ready /\ Patient /\ resumed /\ active # "none" /\ endpoint # "none"
  /\ ConnectFreebox(mBoxes, endpoint)
  /\ UNCHANGED <<resumed, usedColors, saved, queue, sniffing, crashed,
                 ghostVars>>

(* The main thread delivers a status text: onFreeboxStatus. *)
DeliverStatus ==
  /\ Ready /\ queue # <<>> /\ IsStatus(Head(queue))
  /\ mConnected' = (Head(queue).value = "connected")
  /\ queue' = Tail(queue)
  /\ UNCHANGED <<resumed, homeVars, active, listed, ui, target, phase,
                 sniffing, crashed, ghostVars>>

(* Mutant: the box is added again each time it is detected. *)
AddAlways(endpoint) ==
  Append(mBoxes, [endpoint |-> endpoint, reachable |-> TRUE, focus |-> FALSE,
                  color |-> FreshColor])

(* Mutant: a box that is new is added without a color. *)
AddColorless(endpoint) ==
  IF Known(mBoxes, endpoint) THEN mBoxes
  ELSE Append(mBoxes, [endpoint |-> endpoint, reachable |-> TRUE,
                       focus |-> FALSE, color |-> "null"])

(* Home.onFreeboxDetected: the list after a detection. *)
AddOrUpdate(endpoint) ==
  IF Known(mBoxes, endpoint)
    THEN [i \in DOMAIN mBoxes |->
            IF mBoxes[i].endpoint = endpoint
              THEN [mBoxes[i] EXCEPT !.reachable = TRUE] ELSE mBoxes[i]]
    ELSE Append(mBoxes, [endpoint |-> endpoint, reachable |-> TRUE,
                         focus |-> FALSE, color |-> FreshColor])

(* The main thread delivers a detection: Home.onFreeboxDetected and        *)
(* MainActivity.onFreeboxDetected, which then paints the buttons of a box  *)
(* that must not be null.                                                  *)
DeliverDetection ==
  /\ Ready /\ queue # <<>> /\ ~IsStatus(Head(queue))
  /\ queue' = Tail(queue)
  /\ LET endpoint == Head(queue).value
     IN  /\ usedColors' = IF Known(mBoxes, endpoint) THEN usedColors
                          ELSE usedColors \cup {FreshColor}
         /\ IF mConnected
              THEN /\ mBoxes' = AddOrUpdate(endpoint)
                   /\ crashed' = (active = "none")
                   /\ UNCHANGED sessionVars
              ELSE /\ ConnectFreebox(AddOrUpdate(endpoint), endpoint)
                   /\ UNCHANGED crashed
  /\ UNCHANGED <<resumed, saved, sniffing, ghostVars>>

(* The process dies, or the system kills it, at any point; what Home.save  *)
(* has committed is all that is left.                                      *)
Restart ==
  /\ restarts < MaxRestarts
  /\ restarts' = restarts + 1
  /\ resumed' = FALSE /\ sniffing' = FALSE /\ crashed' = FALSE
  /\ mBoxes' = <<>> /\ usedColors' = {}
  /\ active' = "none" /\ listed' = FALSE /\ mConnected' = FALSE
  /\ ui' = "ready" /\ target' = "none" /\ phase' = "closed"
  /\ queue' = <<>>
  /\ UNCHANGED <<saved, late, lastActive>>

MainNext == Return \/ Connect \/ Disconnected \/ DeliverStatus \/ DeliverDetection

Next ==
  \/ MainNext
  \/ Exit
  \/ Resume
  \/ Pause
  \/ Select(NextReachable(active))
  \/ Select(PreviousReachable(active))
  \/ \E text \in Texts : Report(text)
  \/ \E endpoint \in Endpoints : Detect(endpoint)
  \/ Restart

(* The main thread serves its queue, and the status thread ends a session  *)
(* that is being closed (RcuSession).  The user and the network are free.  *)
Fairness == WF_vars(MainNext) /\ WF_vars(Exit)

SafeSpec == Init /\ [][Next]_vars
Spec == SafeSpec /\ Fairness

-----------------------------------------------------------------------------
Boxes == [endpoint : Endpoints, reachable : BOOLEAN, focus : BOOLEAN,
          color : {Colors[i] : i \in DOMAIN Colors}]
Pool  == [endpoint : Endpoints, focus : BOOLEAN,
          color : {Colors[i] : i \in DOMAIN Colors}]
Messages ==
  [kind : {"status"}, value : Texts \cup {"EXIT"}]
    \cup [kind : {"detected"}, value : Endpoints]

(* Every variable keeps to its type; in particular each box of the list    *)
(* and of the saved pool has a color, without which reading the pool back  *)
(* would fail in Painter.useColor.                                         *)
TypeOK ==
  /\ {resumed, listed, mConnected, sniffing, crashed} \subseteq BOOLEAN
  /\ mBoxes \in Seq(Boxes) /\ saved \in Seq(Pool)
  /\ usedColors \subseteq {Colors[i] : i \in DOMAIN Colors}
  /\ {active, target, lastActive} \subseteq Endpoints \cup {"none"}
  /\ ui \in {"ready", "disconnect", "connect"}
  /\ phase \in {"closed", "open", "closing", "ended"}
  /\ queue \in Seq(Messages)
  /\ late \in 0..MaxLate /\ restarts \in 0..MaxRestarts

(* A box appears once in the list and once in the preferences, however     *)
(* often and by whichever sniffer it is detected, before or after it is    *)
(* recovered.                                                              *)
NoDuplicates ==
  \A boxes \in {mBoxes, saved} :
    \A i, j \in DOMAIN boxes : boxes[i].endpoint = boxes[j].endpoint => i = j

(* Whenever the main thread is idle, the session in progress, if any, is   *)
(* that of the active box, and the active box has its session: none is     *)
(* left behind by a selection, a detection, onPause or onResume.           *)
SessionIsActive ==
  ui = "ready" => (phase = "open" <=> active \in Connectable)
                  /\ phase \in {"open", "closed"}

(* The active box, as long as it is in the list, is the one box with the   *)
(* focus: it is what the next onResume selects.                            *)
FocusFollowsActive ==
  (ui = "ready" /\ active # "none" /\ listed) =>
    Focused = Indices(mBoxes, LAMBDA box : box.endpoint = active)

(* The pool in the preferences selects the box that was active at the last *)
(* onPause, even if the process has died since, or boxes were detected     *)
(* late.                                                                   *)
SelectionRestored == lastActive # "none" => FocusOf(saved) = lastActive

(* Without late detections, two boxes are painted in one color only when   *)
(* there is no unused one, across restarts and the boxes they forget.      *)
ColorsSharedLast ==
  (late = 0 /\ \E i, j \in DOMAIN mBoxes : i # j /\ mBoxes[i].color = mBoxes[j].color)
    => usedColors = {Colors[i] : i \in DOMAIN Colors}

(* From a reachable box, the next button and then the previous button lead *)
(* back to it.                                                             *)
PreviousUndoesNext ==
  \A i \in DOMAIN mBoxes :
    LET of == mBoxes[i].endpoint
    IN  (mBoxes[i].reachable /\ NextReachable(of) # "none") =>
          PreviousReachable(NextReachable(of)) = of

(* Without late detections, onPause leaves no session and no active box.   *)
QuietWhenPaused ==
  (late = 0 /\ ~resumed /\ ui = "ready") => active = "none" /\ phase = "closed"

(* Without late detections, the buttons are never painted for a box that   *)
(* is null.                                                                *)
NoNullPaint == late = 0 => ~crashed

(* While the activity is resumed, a list with a box in it leads to a box   *)
(* being active.                                                           *)
BoxGetsActive ==
  (resumed /\ mBoxes # <<>>) ~> (active # "none" \/ ~resumed \/ crashed)

(* The activity uses its sessions as FreeboxSession, which RcuSession      *)
(* implements, allows, and so is entitled to what it promises.             *)
PostedTexts ==
  [i \in DOMAIN Statuses(queue) |-> Statuses(queue)[i].value]

Session == INSTANCE FreeboxSession WITH posted <- PostedTexts

UsesSession == Session!Spec

=============================================================================
