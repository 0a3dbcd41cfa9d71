---------------------------- MODULE MCRcuSession ----------------------------
(* RcuSession for TLC: the configurations give pipes of one or two         *)
(* pointers, so that most of the writes may block, and one key code, as    *)
(* codes are never compared.                                               *)
EXTENDS RcuSession

=============================================================================
