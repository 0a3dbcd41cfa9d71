------------------------- MODULE MCBonjourSniffer -------------------------
(* BonjourSniffer for TLC: the two types of Home, and two sniffers, so     *)
(* that the first may still have two services queued, and one that is      *)
(* being resolved, when the second starts.                                 *)
EXTENDS BonjourSniffer

HomeTypes == <<"_hid._udp", "_device-info._tcp">>

ThreeAndOne == <<3, 1>>

=============================================================================
