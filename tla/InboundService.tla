--------------------------- MODULE InboundService ---------------------------
(***************************************************************************)
(* What a node promises the peers that send it requests (spec, section 3, *)
(* invariants 3 and 4; section 4.3, phase 3 and respond_to): every        *)
(* inbound request gets a fresh request id; a request is answered only    *)
(* after it arrived, at most once, and with the response to that request  *)
(* (a GetShard with a GetShard response for the same shard, a ServeShard  *)
(* with a ServeShard one).  Several requests may be answered at once; a   *)
(* request may also never be answered (data memory missed it, or the node *)
(* stopped): this specification says nothing about progress.              *)
(*                                                                         *)
(* Module Node implements it with arrived <- inbound and                  *)
(* served <- answered.                                                    *)
(***************************************************************************)
EXTENDS Naturals

CONSTANTS
  Ids,       \* request ids
  Requests   \* the requests a peer can send: [kind, key]

VARIABLES
  arrived,   \* request id -> the request that arrived under it
  served     \* [id, resp]: the answers given

Served == {a.id : a \in served}

Init ==
  /\ arrived = <<>>
  /\ served = {}

(* A request arrives under an id no earlier request had.                  *)
Arrive ==
  /\ \E i \in Ids \ DOMAIN arrived, r \in Requests :
       arrived' = [j \in DOMAIN arrived \cup {i} |-> IF j = i THEN r ELSE arrived[j]]
  /\ UNCHANGED served

(* A nonempty set of arrived, unanswered requests is answered, each with  *)
(* the response to its own request.                                       *)
Answer ==
  /\ \E S \in SUBSET (DOMAIN arrived \ Served) :
       /\ S # {}
       /\ served' = served \cup {[id |-> i, resp |-> arrived[i]] : i \in S}
  /\ UNCHANGED arrived

Next == Arrive \/ Answer

Spec == Init /\ [][Next]_<<arrived, served>>
=============================================================================
