------------------------- MODULE MCShardExecution -------------------------
(* Three data ids (model values) and one-byte shards over {0,1,2,3}. The programs are    *)
(* the spec's example shape (a result read by a later instruction), an   *)
(* instruction overwriting its own operand, and one reading an id that a *)
(* failed instruction did not produce.                                    *)
EXTENDS ShardExecution

CONSTANTS none, v1, v2, v3

I(op, args, r) == [op |-> op, args |-> args, result |-> r]

MCPrograms ==
  { << I("Plus", <<v1, v2>>, v3), I("Nand", <<v3, v2>>, v1) >>,
    << I("Nor", <<v1, v1>>, v2), I("Inv", <<v2>>, v1), I("Sub", <<v1, v3>>, v3) >> }
=============================================================================
