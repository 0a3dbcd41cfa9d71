----------------------------- MODULE MCKeyInput -----------------------------
(* KeyInput for TLC: volume and a touch button share report 1, and the two *)
(* shortest macros in which a key comes before, between and after delays.  *)
EXTENDS KeyInput

ReportTable == [ok |-> 1, up |-> 2, vol |-> 1]

TwoMacros == {<<"ok", "delay", "up", "ok">>, <<"delay", "ok">>}

=============================================================================
