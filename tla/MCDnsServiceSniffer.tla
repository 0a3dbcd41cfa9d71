------------------------ MODULE MCDnsServiceSniffer ------------------------
(* DnsServiceSniffer for TLC: two sniffers, so that the thread of the      *)
(* first may be at any step while the second is used.                      *)
EXTENDS DnsServiceSniffer

=============================================================================
