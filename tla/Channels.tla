------------------------------ MODULE Channels ------------------------------
(***************************************************************************)
(* The inter-module channel (ModuleChannelClient / ModuleChannelServer):  *)
(* a pair of bounded FIFO queues between the orchestrator and each module *)
(* task, the module's published state, and the shutdown token of the user *)
(* channel.  The channel code (src/module) is not in this repository; it  *)
(* is modelled from the spec, section 4.1.                                *)
(*                                                                         *)
(* chan[c] is the content of queue c.  A module in `closed` has returned  *)
(* from its run loop and dropped its halves: a send to it fails, and a    *)
(* receive from it yields None once the queue is drained (tokio mpsc).    *)
(***************************************************************************)
EXTENDS Naturals, Sequences

CONSTANTS
  Capacity,   \* bound of every module queue
  Keys,       \* full shard ids that requests and shards name
  Peers,      \* remote peers
  Self,       \* the local peer
  NoPeer,     \* placeholder for a message without a peer
  NoKey       \* placeholder for a message without a shard id

ASSUME Capacity \in Nat \ {0}

VARIABLES
  chan,       \* queue name -> sequence of messages
  closed,     \* modules whose task has returned
  shutdown,   \* the user channel's cancellation token has been tripped
  processor_state \* the processor's SharedState: "Ready" or "Executing"

Modules == {"consensus", "data_memory", "instruction_memory", "processor", "user"}

(* Every module has an input queue (orchestrator to module) and an output *)
(* queue (module to orchestrator).  For the user channel the orchestrator *)
(* is the server: user_in is what the user sends.                         *)
Queues == {"consensus_in", "consensus_out", "data_memory_in", "data_memory_out",
           "instruction_memory_in", "instruction_memory_out", "processor_in",
           "processor_out", "user_in", "user_out"}

Owner == [q \in Queues |->
            CASE q \in {"consensus_in", "consensus_out"}                   -> "consensus"
              [] q \in {"data_memory_in", "data_memory_out"}               -> "data_memory"
              [] q \in {"instruction_memory_in", "instruction_memory_out"} -> "instruction_memory"
              [] q \in {"processor_in", "processor_out"}                   -> "processor"
              [] q \in {"user_in", "user_out"}                             -> "user"]

(* A message is a variant name and the few arguments the model tells apart: *)
(* a shard id, a peer and a program id (0 when absent).                     *)
Msg(type, key, peer, pid) == [type |-> type, key |-> key, peer |-> peer, pid |-> pid]

(* Fault: the queue is taken as full only beyond its capacity.           *)
SendOutcomeInOffByOne(c, q) ==
  IF Owner[q] \in closed THEN "Err"
  ELSE IF Len(c[q]) > Capacity THEN "Pending"
  ELSE "Ok"

(* The single poll of a send future on queues c: Ready(Ok), Ready(Err)   *)
(* when the other half was dropped, Pending when the queue is full.       *)
SendOutcomeIn(c, q) ==
  IF Owner[q] \in closed THEN "Err"
  ELSE IF Len(c[q]) >= Capacity THEN "Pending"
  ELSE "Ok"

SendOutcome(q) == SendOutcomeIn(chan, q)

(* poll_recv: Some(head), None when drained and the sender dropped, or    *)
(* Pending.                                                               *)
RecvReady(q)  == chan[q] # <<>>
RecvClosed(q) == chan[q] = <<>> /\ Owner[q] \in closed

(* ModuleState::accepts_input of the processor (single_threaded.rs).     *)
ProcessorAcceptsInput == processor_state = "Ready"

Enqueue(q, m) == [chan EXCEPT ![q] = Append(@, m)]
Dequeue(q)    == [chan EXCEPT ![q] = Tail(@)]
=============================================================================
