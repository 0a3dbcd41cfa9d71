------------------------------ MODULE KeyInput ------------------------------
(***************************************************************************)
(* How keys get from the user to the session of the active box: touch,     *)
(* click and key events in MainActivity, and the macros MultiClicker       *)
(* plays.                                                                  *)
(*                                                                         *)
(* A session passes on the keys it is given, each once and in order        *)
(* (RcuSession), so that what a box sees is the effect of the calls made   *)
(* here.  Home and its list are left to Activity: any box may be selected  *)
(* or detected.  Everything happens on the main thread; between two        *)
(* callbacks of a macro come all other events.                             *)
(***************************************************************************)
EXTENDS Naturals, Sequences

CONSTANTS
  Boxes,           \* boxes that may become active
  Connectable,     \* those whose port is not 0: they get a session
  ClickKeys,       \* buttons with an "onClick" tag, and typed characters
  TouchKeys,       \* buttons with an "onTouch" tag
  SpecialKeys,     \* volume and delete keys of the device
  ReportOf,        \* HID report of each key
  Macros           \* sequences of button names and delays, from the tags

Keys     == ClickKeys \cup TouchKeys \cup SpecialKeys
HoldKeys == TouchKeys \cup SpecialKeys

ASSUME KeyInputAssumption ==
  /\ Connectable \subseteq Boxes /\ "none" \notin Boxes
  /\ {"none", "delay"} \cap Keys = {}
  /\ DOMAIN ReportOf = Keys
  /\ Macros \subseteq Seq(ClickKeys \cup TouchKeys \cup {"delay"}) \ {<<>>}

Reports == {ReportOf[key] : key \in Keys}

VARIABLES
  resumed,       \* between onResume and onPause
  active,        \* MainActivity.mActiveFreebox, or "none"
  mConnected,    \* MainActivity.mConnected
  down,          \* key each report of the active box is left at, or "none"
  running,       \* MultiClicker.mIterator is not null
  remaining,     \* items mIterator has not returned yet
  callbacks,     \* posts of the MultiClicker that have not run
  held,          \* history: keys the user holds down
  forgotten,     \* history: those let go of in this session without being released
  macro,         \* history: macro started last
  typed,         \* history: keys sent while it is being played
  macroBoxes,    \* history: boxes it has been played on
  disturbed      \* history: a detection has changed the box meanwhile

boxVars   == <<resumed, active, mConnected>>
clickVars == <<running, remaining, callbacks>>
fingers   == <<held, forgotten>>
macroVars == <<macro, macroBoxes, disturbed>>
vars == <<boxVars, down, clickVars, fingers, macroVars, typed>>

-----------------------------------------------------------------------------
AllUp == [report \in Reports |-> "none"]

(* The calls do nothing while there is no Rcu: jniPressRcuKey. *)
InSession == active \in Connectable

AfterPress(key) ==
  IF InSession THEN [down EXCEPT ![ReportOf[key]] = key] ELSE down

(* Mutant: a release leaves its report as it is. *)
ReleaseNothing(key) == down

(* Code 0 on the key's report: Key::Release. *)
AfterRelease(key) ==
  IF InSession THEN [down EXCEPT ![ReportOf[key]] = "none"] ELSE down

(* A press with automatic release leaves the report as a release does. *)
AfterClick(key) == AfterRelease(key)

(* History: a key sent while a macro is being played. *)
Recorded(key) == IF running THEN Append(typed, key) ELSE typed

(* Mutant: input is not locked while a macro is being played. *)
NeverLocked == resumed /\ active # "none"

(* mMultiClicker.stopped () && mActiveFreebox != null *)
Unlocked == resumed /\ ~running /\ active # "none"

(* Long.parseLong succeeds. *)
IsDelay(item) == item = "delay"

(* Mutant: a delay is looked at and left in place. *)
RestAfterKey(items) == IF IsDelay(Head(items)) THEN items ELSE Tail(items)

(* What is left after mIterator.next. *)
Rest(items) == Tail(items)

(* Mutant: MultiClicker.stop leaves the posted callback in the queue. *)
KeptCallbacks == callbacks

(* Handler.removeCallbacks *)
RemainingCallbacks == 0

-----------------------------------------------------------------------------
Init ==
  /\ resumed = FALSE /\ active = "none" /\ mConnected = FALSE
  /\ down = AllUp
  /\ running = FALSE /\ remaining = <<>> /\ callbacks = 0
  /\ held = {} /\ forgotten = {}
  /\ macro = <<>> /\ typed = <<>> /\ macroBoxes = {} /\ disturbed = FALSE

(* connectFreebox: the old session ends, a new one starts with no key down. *)
ConnectFreebox(box) ==
  /\ active' = box
  /\ down' = AllUp
  /\ forgotten' = {}

(* onResume, with the box Home recovers, if any. *)
Resume(box) ==
  /\ ~resumed
  /\ resumed' = TRUE
  /\ ConnectFreebox(box)
  /\ UNCHANGED <<mConnected, clickVars, held, macroVars, typed>>

StopMacro ==
  /\ running' = FALSE
  /\ remaining' = <<>>
  /\ callbacks' = RemainingCallbacks

(* onPause: mMultiClicker.stop, then disconnectFreebox. *)
Pause ==
  /\ resumed
  /\ resumed' = FALSE
  /\ StopMacro
  /\ ConnectFreebox("none")
  /\ UNCHANGED <<mConnected, held, macroVars, typed>>

(* onPreviousFreebox and onNextFreebox: the buttons show with a box only. *)
Select(box) ==
  /\ Unlocked
  /\ box # active
  /\ ConnectFreebox(box)
  /\ UNCHANGED <<resumed, mConnected, clickVars, held, macroVars, typed>>

(* onFreeboxDetected looks at mConnected only, macro or not. *)
Detect(box) ==
  /\ resumed /\ ~mConnected
  /\ ConnectFreebox(box)
  /\ disturbed' = (disturbed \/ (running /\ box # active))
  /\ UNCHANGED <<resumed, mConnected, clickVars, held, macro, macroBoxes,
                 typed>>

(* onFreeboxStatus *)
Report(connected) ==
  /\ mConnected' = connected
  /\ UNCHANGED <<resumed, active, down, clickVars, fingers, macroVars, typed>>

(* onClick on an "onClick" button, or a character in dispatchKeyEvent. *)
Click(key) ==
  /\ Unlocked
  /\ down' = AfterClick(key)
  /\ typed' = Recorded(key)
  /\ UNCHANGED <<boxVars, clickVars, fingers, macroVars>>

(* ACTION_DOWN: onTouch, or dispatchKeyEvent and onSpecialKeyPressed.  The *)
(* user may press while the event is ignored.                              *)
Press(key) ==
  /\ resumed /\ key \notin held
  /\ held' = held \cup {key}
  /\ IF Unlocked
       THEN /\ down' = AfterPress(key)
            /\ typed' = Recorded(key)
            /\ forgotten' = forgotten \ {key}
       ELSE UNCHANGED <<down, typed, forgotten>>
  /\ UNCHANGED <<boxVars, clickVars, macroVars>>

(* ACTION_UP: onTouch, or dispatchKeyEvent and onSpecialKeyReleased.  It   *)
(* may come after onPause.                                                 *)
Release(key) ==
  /\ key \in held
  /\ held' = held \ {key}
  /\ IF Unlocked
       THEN /\ down' = AfterRelease(key)
            /\ UNCHANGED forgotten
       ELSE /\ forgotten' = forgotten \cup {key}
            /\ UNCHANGED down
  /\ UNCHANGED <<boxVars, clickVars, macroVars, typed>>

(* ACTION_CANCEL: onTouch does nothing. *)
Cancel(key) ==
  /\ key \in held
  /\ held' = held \ {key}
  /\ forgotten' = forgotten \cup {key}
  /\ UNCHANGED <<boxVars, down, clickVars, macroVars, typed>>

-----------------------------------------------------------------------------
(* MultiClicker.run on the items of its iterator; the callback it posts    *)
(* joins those that are posted already.  onMultiClickStep presses the key  *)
(* of a button on the active box.                                          *)
PlayDelay(items) ==
  /\ IsDelay(Head(items))
  /\ UNCHANGED down

PlayKey(items) ==
  /\ ~IsDelay(Head(items))
  /\ down' = AfterClick(Head(items))

Continue(items, posted) ==
  /\ running' = TRUE
  /\ remaining' = Rest(items)
  /\ callbacks' = posted + 1

(* onClick on an "onMultiClick" button: MultiClicker.start runs at once.   *)
StartMacro(items) ==
  /\ Unlocked
  /\ Continue(items, callbacks)
  /\ macro' = items
  /\ disturbed' = FALSE
  /\ \/ PlayDelay(items) /\ typed' = <<>> /\ macroBoxes' = {}
     \/ PlayKey(items) /\ typed' = <<Head(items)>> /\ macroBoxes' = {active}
  /\ UNCHANGED <<boxVars, fingers>>

(* The main thread runs the posted callback.  With no iterator, run would  *)
(* throw: OneCallback says that this does not happen.                      *)
RunMacro ==
  /\ callbacks > 0 /\ running
  /\ \/ /\ remaining = <<>>
        /\ StopMacro
        /\ UNCHANGED <<down, typed, macroBoxes>>
     \/ /\ remaining # <<>>
        /\ Continue(remaining, callbacks - 1)
        /\ PlayDelay(remaining)
        /\ UNCHANGED <<typed, macroBoxes>>
     \/ /\ remaining # <<>>
        /\ Continue(remaining, callbacks - 1)
        /\ PlayKey(remaining)
        /\ typed' = Append(typed, Head(remaining))
        /\ macroBoxes' = macroBoxes \cup {active}
  /\ UNCHANGED <<boxVars, fingers, macro, disturbed>>

Next ==
  \/ \E box \in Boxes \cup {"none"} : Resume(box)
  \/ Pause
  \/ \E box \in Boxes : Select(box) \/ Detect(box)
  \/ \E connected \in BOOLEAN : Report(connected)
  \/ \E key \in ClickKeys : Click(key)
  \/ \E key \in HoldKeys : Press(key) \/ Release(key)
  \/ \E key \in TouchKeys : Cancel(key)
  \/ \E items \in Macros : StartMacro(items)
  \/ RunMacro

(* The main thread runs what is posted, or its delay is over.  The user    *)
(* and the network are free.                                               *)
SafeSpec == Init /\ [][Next]_vars
Spec == SafeSpec /\ WF_vars(RunMacro)

-----------------------------------------------------------------------------
(* Every variable keeps to its type; only keys are ever sent, and a macro  *)
(* is never played without a box.                                          *)
TypeOK ==
  /\ resumed \in BOOLEAN /\ mConnected \in BOOLEAN
  /\ running \in BOOLEAN /\ disturbed \in BOOLEAN
  /\ active \in Boxes \cup {"none"}
  /\ down \in [Reports -> Keys \cup {"none"}]
  /\ remaining \in Seq(Keys \cup {"delay"})
  /\ callbacks \in Nat
  /\ held \subseteq HoldKeys /\ forgotten \subseteq HoldKeys
  /\ macro \in Seq(Keys \cup {"delay"})
  /\ typed \in Seq(Keys)
  /\ macroBoxes \subseteq Boxes

(* A macro that is being played has exactly one callback posted, and one   *)
(* that is over has none: MultiClicker.run never finds its iterator null   *)
(* and no macro is played twice as fast.                                   *)
OneCallback == callbacks = (IF running THEN 1 ELSE 0)

(* A macro is played on the box it was started on, whatever the user does  *)
(* meanwhile; only a detection may move it to another box.                 *)
MacroOnOneBox ==
  running => /\ active # "none" /\ resumed
             /\ disturbed \/ macroBoxes \subseteq {active}

(* While a macro is being played its keys, in order, are all that is sent: *)
(* no touch, click, character or second macro comes in between.            *)
KeyIn(item) == IF item = "delay" THEN <<>> ELSE <<item>>
KeysOf(items) ==
  LET last[i \in 0..Len(items)] ==    \* among the last i items
        IF i = 0 THEN <<>>
        ELSE KeyIn(items[Len(items) - i + 1]) \o last[i - 1]
  IN  last[Len(items)]
MacroUninterrupted == running => KeysOf(macro) = typed \o KeysOf(remaining)

(* A key that stays down on the active box is held by the user, or was let *)
(* go of in this session while a macro locked input, or by ACTION_CANCEL.  *)
NoStuckKey ==
  \A report \in Reports : down[report] \in held \cup forgotten \cup {"none"}

(* A report is left at one of its own keys, and at none without a session: *)
(* what NoStuckKey needs to be inductive.                                  *)
DownInv ==
  /\ \A report \in Reports : down[report] # "none" => ReportOf[down[report]] = report
  /\ ~InSession => down = AllUp

(* A macro comes to its end. *)
MacroEnds == running ~> ~running

=============================================================================
