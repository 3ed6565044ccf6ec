--------------------------- MODULE MCLegacyNode ---------------------------
(* Two nodes, the first of them the main node; two data ids distributed  *)
(* and a third one computed by one instruction over them.                 *)
EXTENDS LegacyNode

CONSTANTS n1, n2, d1, d2, d3, none

MCNodes == {n1, n2}
MCVids == {d1, d2, d3}
MCInitData == <<d1, d2>>
MCNot == << [op |-> "Not", args |-> <<d1>>, dest |-> d3] >>
MCOneDatum == <<d1>>
MCNotVids == {d1, d3}
=============================================================================
