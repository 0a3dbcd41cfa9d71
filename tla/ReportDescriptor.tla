-------------------------- MODULE ReportDescriptor --------------------------
(***************************************************************************)
(* rcu_report_descriptor, as a reader of HID report descriptors walks it.  *)
(*                                                                         *)
(* A descriptor is a row of items.  The two low bits of the first byte of  *)
(* an item give the size of its data: 0, 1, 2 or, for 3, four bytes (HID   *)
(* 1.11, 6.2.2.2).  Rcu.cpp writes an item per line, with a comment that   *)
(* names it.                                                               *)
(***************************************************************************)
EXTENDS Naturals, Sequences, SequencesExt

VARIABLES
  at             \* bytes the reader has gone past

-----------------------------------------------------------------------------
(* A line of Rcu.cpp each; 0xA1 is 161, 0xC0 is 192. *)
TvKeys ==
  << <<5, 12>>, <<9, 1>>, <<161, 1>>, <<133, 1>>, <<149, 1>>, <<117, 32>>,
     <<25, 0>>, <<42, 156, 2>>, <<21, 0>>, <<38, 140, 2>>, <<128>>, <<192>> >>

NavigationKeys ==
  << <<5, 1>>, <<9, 6>>, <<161, 1>>, <<133, 2>>, <<5, 7>>, <<149, 1>>,
     <<117, 32>>, <<25, 0>>, <<42, 255, 0>>, <<21, 0>>, <<38, 255, 0>>,
     <<128>>, <<192>> >>

Unicode ==
  << <<161, 1>>, <<133, 3>>, <<5, 16>>, <<8>>, <<149, 1>>, <<117, 32>>, <<20>>,
     <<39, 255, 255, 255>>, <<129, 98>>, <<192>> >>

Lines      == TvKeys \o NavigationKeys \o Unicode
Descriptor == FlattenSeq(Lines)

(* Where line n starts. *)
StartOf(n) == Len(FlattenSeq(SubSeq(Lines, 1, n - 1)))

DataSize(prefix) == IF prefix % 4 = 3 THEN 4 ELSE prefix % 4

Init == at = 0

(* The reader goes past an item. *)
NextItem ==
  /\ at < Len(Descriptor)
  /\ at' = at + 1 + DataSize(Descriptor[at + 1])

Spec == Init /\ [][NextItem]_at

-----------------------------------------------------------------------------
(* Every item is the one that the comment of its line names: the reader    *)
(* comes to the start of a line after each item, and to the end.           *)
ItemPerLine ==
  at \in {StartOf(n) : n \in DOMAIN Lines} \cup {Len(Descriptor)}

=============================================================================
