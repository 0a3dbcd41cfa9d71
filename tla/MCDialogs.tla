----------------------------- MODULE MCDialogs -----------------------------
(* Dialogs for TLC: the code of Home's logger, "0x221", "0x18f", "0x221",  *)
(* "0x59", which overlaps itself, and one more key.                        *)
EXTENDS Dialogs

HomeCode == <<"tv", "guide", "tv", "select">>

=============================================================================
