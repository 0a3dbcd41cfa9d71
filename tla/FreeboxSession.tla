--------------------------- MODULE FreeboxSession ---------------------------
(***************************************************************************)
(* What MainActivity may rely on when it calls Freebox.connect and         *)
(* Freebox.disconnect: a session is opened, its status texts are posted    *)
(* one by one to the main thread, and once disconnect has returned no      *)
(* further text of that session is ever posted.  The last text of every    *)
(* session is "EXIT".  Native code, threads and pipes do not appear here;  *)
(* RcuSession is shown to implement this specification.                    *)
(***************************************************************************)
EXTENDS Naturals, Sequences

CONSTANT Texts        \* texts a session may post before "EXIT", which is not one

VARIABLES
  phase,       \* "closed", "open", "closing" (in disconnect), "ended" (EXIT posted)
  posted,      \* runnables posted to the main thread and not yet run
  mConnected   \* MainActivity.mConnected

vars == <<phase, posted, mConnected>>

Init ==
  /\ phase = "closed"
  /\ posted = <<>>
  /\ mConnected = FALSE

(* Freebox.connect *)
Open ==
  /\ phase = "closed"
  /\ phase' = "open"
  /\ UNCHANGED <<posted, mConnected>>

(* The status thread posts a text. *)
Report(text) ==
  /\ phase \in {"open", "closing"}
  /\ posted' = Append(posted, text)
  /\ UNCHANGED <<phase, mConnected>>

(* Freebox.disconnect is entered: from here on it occupies the main thread. *)
Close ==
  /\ phase = "open"
  /\ phase' = "closing"
  /\ UNCHANGED <<posted, mConnected>>

(* The status thread posts "EXIT" and ends. *)
Exit ==
  /\ phase = "closing"
  /\ phase' = "ended"
  /\ posted' = Append(posted, "EXIT")
  /\ UNCHANGED mConnected

(* Freebox.disconnect returns. *)
Return ==
  /\ phase = "ended"
  /\ phase' = "closed"
  /\ UNCHANGED <<posted, mConnected>>

(* The main thread, when not in disconnect, runs the oldest runnable. *)
Deliver ==
  /\ phase \in {"closed", "open"}
  /\ posted # <<>>
  /\ posted' = Tail(posted)
  /\ mConnected' = (Head(posted) = "connected")
  /\ UNCHANGED phase

Next ==
  \/ Open
  \/ \E text \in Texts : Report(text)
  \/ Close
  \/ Exit
  \/ Return
  \/ Deliver

(* Safety part, and the promise that disconnect returns. *)
SafeSpec == Init /\ [][Next]_vars
Spec == SafeSpec /\ WF_vars(Exit) /\ WF_vars(Return)

=============================================================================
