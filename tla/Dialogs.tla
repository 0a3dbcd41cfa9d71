------------------------------ MODULE Dialogs ------------------------------
(***************************************************************************)
(* The two dialogs over the activity: the alert of Wifi, and the log that  *)
(* Logger opens when CheatCode discovers its code in the keys clicked.     *)
(*                                                                         *)
(* Both follow the life of the activity.  The alert is shown by broadcasts *)
(* about the network, and paused and resumed by the statuses of a session. *)
(* A status is delivered on the main thread at any time, paused or not.    *)
(***************************************************************************)
EXTENDS Naturals, Sequences

CONSTANTS
  Networks,        \* what the device may be connected to
  Usable,          \* those on which onReceive shows no alert
  Keys,            \* codes of the "onClick" buttons
  Code,            \* CheatCode.mSecret
  MaxClicks        \* bound: keys clicked between onResume and onPause

ASSUME DialogsAssumption ==
  /\ Usable \subseteq Networks /\ "none" \notin Networks
  /\ Code \in Seq(Keys) \ {<<>>}
  /\ MaxClicks \in Nat

VARIABLES
  resumed,       \* between onResume and onPause
  network,       \* what getActiveNetworkInfo and getSSID would say
  broadcast,     \* a broadcast for the registered Wifi has not been delivered
  mConnected,    \* MainActivity.mConnected
  alert,         \* Wifi.mAlert: "none" (null), "shown", "hidden" or "dismissed"
  about,         \* the network its text was made for, "none" without one
  log,           \* Logger.mAlert: "none", "shown" or "dismissed"
  position,      \* keys that mIterator of the logger's CheatCode has returned
  warned,        \* history: a broadcast has shown the alert since the last status
  clicked,       \* history: keys clicked since onResume
  fresh,         \* history: whether the code was looked for from its start at each
  discovered     \* history: the last one made discovered return true

cheatVars == <<log, position, clicked, fresh, discovered>>
vars ==
  <<resumed, network, broadcast, mConnected, alert, about, warned, cheatVars>>

-----------------------------------------------------------------------------
(* Wifi.onReceive: hideAlert, and displayAlert on the wrong network.       *)
AlertAfterBroadcast == IF network \in Usable THEN "none" ELSE "shown"

(* Mutant: the dialog that there is, shown or not, is shown again.         *)
OldText == IF network \in Usable THEN "none"
           ELSE IF alert = "none" THEN network ELSE about

(* Wifi.displayAlert makes a dialog, with a text for the network of now.   *)
TextAfterBroadcast == IF network \in Usable THEN "none" ELSE network

(* Mutant: the status of a session does not reach the alert. *)
NotPaused == alert

(* Wifi.pause: AlertDialog.hide does nothing once the user has dismissed   *)
(* the dialog.                                                             *)
PausedAlert == IF alert = "shown" THEN "hidden" ELSE alert

(* Wifi.resume: AlertDialog.show also brings back one that was dismissed.  *)
ResumedAlert == IF alert = "none" THEN "none" ELSE "shown"

(* CheatCode.discovered: an iterator at its end is started again, ...      *)
From == IF position = Len(Code) THEN 0 ELSE position

(* Mutant: after a mismatch the code goes on where it was. *)
StayAfter(key) == IF key = Code[From + 1] THEN From + 1 ELSE From

(* ... and so is one that returned another key, which is not looked at     *)
(* again.                                                                  *)
PositionAfter(key) == IF key = Code[From + 1] THEN From + 1 ELSE 0

(* Mutant: Logger.stop does not hide the log. *)
LeftLog == log

(* Logger.stop: hideAlert *)
StoppedLog == "none"

-----------------------------------------------------------------------------
Init ==
  /\ resumed = FALSE /\ network \in Networks /\ broadcast = FALSE
  /\ mConnected = FALSE
  /\ alert = "none" /\ about = "none" /\ warned = FALSE
  /\ log = "none" /\ position = 0
  /\ clicked = <<>> /\ fresh = <<>> /\ discovered = FALSE

(* onResume: discloseBoxes makes the Logger; the receiver of a new Wifi    *)
(* gets the last broadcast at once.                                        *)
Resume ==
  /\ ~resumed
  /\ resumed' = TRUE
  /\ broadcast' = TRUE
  /\ alert' = "none" /\ about' = "none" /\ warned' = FALSE
  /\ position' = 0
  /\ clicked' = <<>> /\ fresh' = <<>> /\ discovered' = FALSE
  /\ UNCHANGED <<network, mConnected, log>>

(* onPause: Wifi.stop and Logger.stop. *)
Pause ==
  /\ resumed
  /\ resumed' = FALSE
  /\ broadcast' = FALSE
  /\ alert' = "none" /\ about' = "none"
  /\ log' = StoppedLog
  /\ UNCHANGED <<network, mConnected, warned, position, clicked, fresh,
                 discovered>>

(* The device changes its network; the system broadcasts it. *)
ChangeNetwork(to) ==
  /\ network' = to
  /\ broadcast' = resumed
  /\ UNCHANGED <<resumed, mConnected, alert, about, warned, cheatVars>>

(* Wifi.onReceive, which does not look at mConnected. *)
Receive ==
  /\ broadcast
  /\ broadcast' = FALSE
  /\ alert' = AlertAfterBroadcast
  /\ about' = TextAfterBroadcast
  /\ warned' = (warned \/ network \notin Usable)
  /\ UNCHANGED <<resumed, network, mConnected, cheatVars>>

(* onFreeboxStatus *)
Status(connected) ==
  /\ mConnected' = connected
  /\ alert' = IF connected THEN PausedAlert ELSE ResumedAlert
  /\ warned' = FALSE
  /\ UNCHANGED <<resumed, network, broadcast, about, cheatVars>>

(* The button of the alert: onClick hides it and opens the settings.       *)
OpenSettings ==
  /\ alert = "shown"
  /\ alert' = "none" /\ about' = "none"
  /\ UNCHANGED <<resumed, network, broadcast, mConnected, warned, cheatVars>>

(* The user dismisses the alert: mAlert keeps it. *)
DismissAlert ==
  /\ alert = "shown"
  /\ alert' = "dismissed"
  /\ UNCHANGED <<resumed, network, broadcast, mConnected, about, warned, cheatVars>>

(* onClick on an "onClick" button, not covered by a dialog: Logger.onClick *)
(* and display.                                                            *)
Click(key) ==
  /\ resumed /\ alert # "shown" /\ log # "shown"
  /\ Len(clicked) < MaxClicks
  /\ position' = PositionAfter(key)
  /\ discovered' = (position' = Len(Code))
  /\ log' = IF discovered' THEN "shown" ELSE log
  /\ clicked' = Append(clicked, key)
  /\ fresh' = Append(fresh, From = 0)
  /\ UNCHANGED <<resumed, network, broadcast, mConnected, alert, about, warned>>

(* The log is closed by its button, or dismissed. *)
CloseLog ==
  /\ log = "shown"
  /\ log' \in {"none", "dismissed"}
  /\ UNCHANGED <<resumed, network, broadcast, mConnected, alert, about, warned,
                 position, clicked, fresh, discovered>>

Next ==
  \/ Resume \/ Pause
  \/ \E to \in Networks : ChangeNetwork(to)
  \/ Receive
  \/ \E connected \in BOOLEAN : Status(connected)
  \/ OpenSettings \/ DismissAlert
  \/ \E key \in Keys : Click(key)
  \/ CloseLog

Spec == Init /\ [][Next]_vars

-----------------------------------------------------------------------------
TypeOK ==
  /\ {resumed, broadcast, mConnected, warned, discovered} \subseteq BOOLEAN
  /\ network \in Networks
  /\ alert \in {"none", "shown", "hidden", "dismissed"}
  /\ about \in Networks \cup {"none"}
  /\ log \in {"none", "shown", "dismissed"}
  /\ position \in 0..Len(Code)
  /\ clicked \in Seq(Keys) /\ fresh \in Seq(BOOLEAN)
  /\ Len(fresh) = Len(clicked)

(* Once the broadcasts are delivered, an alert that exists - shown, hidden *)
(* for a session or dismissed, and so one that a status may bring back -   *)
(* has the text for the network the device is on, after any changes of it; *)
(* none exists once it is on one that can be used.                         *)
AlertCurrent ==
  (alert # "none" /\ ~broadcast) => about = network /\ network \notin Usable

(* While a box is connected the alert is in the way only if a broadcast    *)
(* has come since: Wifi.onReceive does not know about the session.         *)
AlertOutOfTheWay == (mConnected /\ alert = "shown") => warned

(* No dialog outlives onPause, whatever comes after it. *)
NoDialogWhenPaused == ~resumed => alert = "none" /\ log # "shown"

(* The code is discovered exactly when the last keys clicked are the code  *)
(* and it was looked for from its start when the first of them came.  So   *)
(* it is missed exactly when its first key came while an earlier attempt   *)
(* was under way, which that key or a later one then ended, failed or not. *)
LastKeys == SubSeq(clicked, Len(clicked) - Len(Code) + 1, Len(clicked))
CodeExact ==
  discovered <=>
    /\ Len(clicked) >= Len(Code)
    /\ LastKeys = Code
    /\ fresh[Len(clicked) - Len(Code) + 1]

=============================================================================
