----------------------------- MODULE MCActivity -----------------------------
(* Activity for TLC: a painter with two colors for three boxes. *)
EXTENDS Activity

TwoColors == <<"yellow", "green">>

=============================================================================
