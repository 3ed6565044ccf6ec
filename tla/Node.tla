-------------------------------- MODULE Node --------------------------------
(***************************************************************************)
(* One node: the orchestrator (Behaviour), the processor task (Processor) *)
(* and the collaborators the repository does not contain, modelled from   *)
(* their interfaces in the spec (sections 4.2, 4.5, 6): the consensus     *)
(* task, data memory, instruction memory, the network and the user.       *)
(* Every task is an independent process; any of them may step between    *)
(* two phases of one poll.                                                *)
(***************************************************************************)
EXTENDS Behaviour, Processor

CONSTANTS
  MaxPrograms,   \* bound: programs finalized (event hashes as program ids)
  MaxUser,       \* bound: requests the user sends
  MaxNet         \* bound: events the network delivers (gossip, requests, connections)

VARIABLES
  consensus_txs, \* transactions scheduled at the consensus task, not yet finalized
  next_pid,      \* the next program id a finalized Execute gets
  inbound,       \* inbound request id -> the request the peer sent
  user_sent,     \* requests the user has sent
  net_events,    \* events the network has delivered
  confirmed      \* program ids instruction memory got ExecutedProgram for

env_vars == <<consensus_txs, next_pid, inbound, user_sent, net_events, confirmed>>
channel_vars == <<chan, closed, shutdown, processor_state>>
vars == <<behaviour_vars, waker_vars, processor_vars, env_vars, channel_vars>>

Pids == 1..MaxPrograms

(* Request ids are bounded: the inner behaviour assigns one to every      *)
(* inbound request and to every request data memory has queued.           *)
ReservedIds ==
  request_counter + Len(SelectSeq(chan["data_memory_out"],
                                  LAMBDA m : m.type \in DOMAIN OutboundRequest))

IdsLeft == ReservedIds < MaxRequestId

UserRequests == {"Get", "Put", "ListStored", "InitializeStorage", "ScheduleProgram"}

Init ==
  /\ chan = [q \in Queues |-> <<>>]
  /\ closed = {}
  /\ shutdown = FALSE
  /\ processor_state = "Ready"
  /\ status = "Running"
  /\ pc = "shutdown"
  /\ discovered_peers = <<>>
  /\ conns = [p \in Peers |-> 0]
  /\ connected_peers = {}
  /\ oneshot_events = <<>>
  /\ request_response_events = <<>>
  /\ pending_response = <<>>
  /\ processed_requests = [r \in Requests |-> {}]
  /\ gossip_timer = "armed"
  /\ request_counter = 0
  /\ outbound = {}
  /\ answered = {}
  /\ proc_pc = "select"
  /\ proc_program = 0
  /\ consensus_txs = {}
  /\ next_pid = 1
  /\ inbound = <<>>
  /\ user_sent = 0
  /\ net_events = 0
  /\ task = "polling"
  /\ registered = {}
  /\ confirmed = {}

-----------------------------------------------------------------------------
(* The consensus task (spec 4.2, 6): ScheduleTx buffers a transaction     *)
(* that is later finalized; KnownPeersRequest and GenerateSyncRequest are *)
(* answered on consensus.output; ApplySync and CreateStandalone change    *)
(* only the graph (module ConsensusGraph).  Its sends await room.         *)
FinalizedOf ==
  [ScheduleTx_Stored            |-> "Finalized_Stored",
   ScheduleTx_StorageRequest    |-> "Finalized_StorageRequest",
   ScheduleTx_Execute           |-> "Finalized_Execute",
   ScheduleTx_Executed          |-> "Finalized_Executed",
   ScheduleTx_InitializeStorage |-> "Finalized_InitializeStorage"]

Answer == [KnownPeersRequest |-> "KnownPeersResponse", GenerateSyncRequest |-> "GenerateSyncResponse"]

ConsensusHandle ==
  LET m == Head(chan["consensus_in"]) IN
  /\ "consensus" \notin closed
  /\ RecvReady("consensus_in")
  /\ \/ /\ m.type \in DOMAIN FinalizedOf
        /\ consensus_txs' = consensus_txs \cup {Msg(FinalizedOf[m.type], m.key, Self, m.pid)}
        /\ chan' = Dequeue("consensus_in")
     \/ /\ m.type \in DOMAIN Answer
        /\ Len(chan["consensus_out"]) < Capacity
        /\ chan' = [Dequeue("consensus_in") EXCEPT !["consensus_out"] =
                      Append(@, Msg(Answer[m.type], NoKey, m.peer, 0))]
        /\ UNCHANGED consensus_txs
     \/ /\ m.type \in {"ApplySync", "CreateStandalone"}
        /\ chan' = Dequeue("consensus_in")
        /\ UNCHANGED consensus_txs
  /\ UNCHANGED <<next_pid, inbound, user_sent, net_events, confirmed>>

(* A finalized Execute gets the event hash as program id.                 *)
Finalize(tx) ==
  /\ Len(chan["consensus_out"]) < Capacity
  /\ IF tx.type = "Finalized_Execute"
     THEN /\ next_pid <= MaxPrograms
          /\ chan' = Enqueue("consensus_out", [tx EXCEPT !.pid = next_pid])
          /\ next_pid' = next_pid + 1
     ELSE /\ chan' = Enqueue("consensus_out", tx)
          /\ UNCHANGED next_pid

ConsensusFinalize ==
  /\ "consensus" \notin closed
  /\ \E tx \in consensus_txs :
       /\ Finalize(tx)
       /\ consensus_txs' = consensus_txs \ {tx}
  /\ UNCHANGED <<inbound, user_sent, net_events, confirmed>>

(* A transaction another peer scheduled is finalized.                     *)
RemoteFinalize ==
  /\ "consensus" \notin closed
  /\ net_events < MaxNet
  /\ \E p \in Peers, t \in {"Finalized_Execute", "Finalized_Stored", "Finalized_StorageRequest"}, k \in Keys :
       Finalize(Msg(t, k, p, 0))
  /\ net_events' = net_events + 1
  /\ UNCHANGED <<consensus_txs, inbound, user_sent, confirmed>>

-----------------------------------------------------------------------------
(* Data memory (spec 4.3 phase 4, 4.5): each input may produce one of the *)
(* outputs that answer it, or none (a miss, or a step not yet complete).  *)
DataMemoryReplies ==
  [AssignedRequest       |-> {"AssignedResponse"},
   ServeShardRequest     |-> {"ServeShardResponse"},
   AssignedResponse      |-> {"RecollectResponse"},
   ServeShardResponse    |-> {"AssignedStoreSuccess"},
   StorageRequestTx      |-> {"ServeShardRequest"},
   StoreConfirmed        |-> {"DistributionSuccess"},
   PrepareServiceRequest |-> {"PreparedServiceResponse"},
   RecollectRequest      |-> {"RecollectResponse", "AssignedRequest"},
   ListDistributed       |-> {"ListDistributed"},
   Initialize            |-> {"Initialized"}]

DataMemoryHandle ==
  LET m == Head(chan["data_memory_in"]) IN
  /\ "data_memory" \notin closed
  /\ RecvReady("data_memory_in")
  /\ \/ chan' = Dequeue("data_memory_in")
     \/ /\ Len(chan["data_memory_out"]) < Capacity
        /\ \E out \in DataMemoryReplies[m.type], p \in Peers :
             /\ out \in DOMAIN OutboundRequest => IdsLeft
             /\ chan' = [Dequeue("data_memory_in") EXCEPT !["data_memory_out"] =
                           Append(@, Msg(out, m.key, p, 0))]
  /\ UNCHANGED env_vars

(* Instruction memory: a finalized program is queued and handed out as    *)
(* NextProgram; ExecutedProgram is bookkeeping.                           *)
InstructionMemoryHandle ==
  LET m == Head(chan["instruction_memory_in"]) IN
  /\ "instruction_memory" \notin closed
  /\ RecvReady("instruction_memory_in")
  /\ \/ /\ m.type = "FinalizedProgram"
        /\ Len(chan["instruction_memory_out"]) < Capacity
        /\ chan' = [Dequeue("instruction_memory_in") EXCEPT !["instruction_memory_out"] =
                      Append(@, Msg("NextProgram", NoKey, NoPeer, m.pid))]
        /\ UNCHANGED confirmed
     \/ /\ m.type = "ExecutedProgram"
        /\ chan' = Dequeue("instruction_memory_in")
        /\ confirmed' = confirmed \cup {m.pid}
  /\ UNCHANGED <<consensus_txs, next_pid, inbound, user_sent, net_events>>

(* Every module task selects on the shutdown token and returns.           *)
ModuleExit(m) ==
  /\ shutdown
  /\ m \notin closed
  /\ closed' = closed \cup {m}
  /\ UNCHANGED <<chan, shutdown, env_vars>>

-----------------------------------------------------------------------------
(* The network and the swarm: discovery, connections, gossip, inbound     *)
(* requests, and the answer (or the failure) of every outbound request.   *)
NetworkEvent ==
  /\ net_events < MaxNet
  /\ net_events' = net_events + 1
  /\ \/ \E p \in Peers : inject_peer_discovered(p)
     \/ \E p \in Peers : ConnectionEstablished(p)
     \/ \E p \in Peers : ConnectionClosed(p)
     \/ \E p \in connected_peers : OnGossipReceived(p)
  /\ UNCHANGED <<consensus_txs, next_pid, inbound, user_sent, confirmed>>

(* A connected peer sends a request; it takes the next request id.        *)
InboundRequest ==
  /\ IdsLeft
  /\ \E p \in connected_peers, r \in Requests :
       /\ OnInboundRequest(p, r)
       /\ inbound' = inbound @@ (request_counter :> r)
  /\ UNCHANGED <<consensus_txs, next_pid, user_sent, net_events, confirmed>>

(* A peer answers an outbound request (with either variant; GetShard with *)
(* or without a shard), or the request fails (timeout, dial failure).     *)
PeerAnswers ==
  \E o \in outbound :
    /\ outbound' = outbound \ {o}
    /\ \/ \E kind \in RequestKinds, some \in BOOLEAN :
            OnRequestResponseEvent([type |-> "Response", id |-> o.id, kind |-> kind,
                                    some |-> some, peer |-> o.peer])
       \/ OnRequestResponseEvent([type |-> "Timeout", id |-> o.id, peer |-> o.peer])
    /\ UNCHANGED env_vars

(* The gossip Sleep elapses; it wakes the task only if it was polled.     *)
TimerFires ==
  /\ gossip_timer = "armed"
  /\ gossip_timer' = "fired"
  /\ UNCHANGED env_vars

(* The user side of the user channel: requests (sends await room),        *)
(* reading answers, and tripping the shutdown token.                      *)
UserSend ==
  /\ user_sent < MaxUser
  /\ Len(chan["user_in"]) < Capacity
  /\ \E t \in UserRequests, k \in Keys : chan' = Enqueue("user_in", Msg(t, k, NoPeer, 0))
  /\ user_sent' = user_sent + 1
  /\ UNCHANGED <<consensus_txs, next_pid, inbound, net_events, confirmed>>

UserRecv ==
  /\ RecvReady("user_out")
  /\ chan' = Dequeue("user_out")
  /\ UNCHANGED env_vars

UserShutdown ==
  /\ ~shutdown
  /\ shutdown' = TRUE
  /\ UNCHANGED <<chan, closed, env_vars>>

-----------------------------------------------------------------------------
(* The node runs while the orchestrator has not returned an error; then   *)
(* the swarm ends and so does the process.                                *)
Terminated ==
  /\ ~Running
  /\ UNCHANGED vars

(* The receivers of the orchestrator a step sends to or closes: their     *)
(* wakers fire (tokio's Sender::send and the drop of the last sender).    *)
OrchestratorReceivers == WakeSources \ {"timer"}

Signalled ==
  {q \in OrchestratorReceivers : Len(chan'[q]) > Len(chan[q]) \/ Owner[q] \in closed' \ closed}

(* The tasks of one node.  Each is a step of its own.                     *)
Orchestrator ==
  PollStep /\ UNCHANGED <<processor_vars, env_vars, closed, shutdown, processor_state>>

ProcessorTask ==
  Running /\ ProcessorStep /\ UNCHANGED <<behaviour_vars, env_vars>> /\ Wake(Signalled)

ModuleTask(A) ==
  Running /\ A /\ UNCHANGED <<behaviour_vars, processor_vars, closed, shutdown, processor_state>>
  /\ Wake(Signalled)

Module(m) ==
  Running /\ ModuleExit(m) /\ UNCHANGED <<behaviour_vars, processor_vars, processor_state>>
  /\ Wake(Signalled)

User ==
  Running /\ UNCHANGED <<behaviour_vars, processor_vars, processor_state>>
  /\ \/ UserSend /\ UNCHANGED <<closed, shutdown>>
     \/ UserRecv /\ UNCHANGED <<closed, shutdown>>
     \/ UserShutdown
  /\ Wake(Signalled)

SwarmEvent ==
  /\ Running
  /\ \/ NetworkEvent
     \/ InboundRequest
  /\ Kick
  /\ UNCHANGED <<status, pc, pending_response, processed_requests, gossip_timer,
                 outbound, answered, processor_vars, channel_vars>>

PeerResponse ==
  Running /\ PeerAnswers /\ Kick /\ UNCHANGED <<processor_vars, closed, shutdown, processor_state>>

Timer ==
  /\ Running /\ TimerFires /\ Wake({"timer"})
  /\ UNCHANGED <<status, pc, discovered_peers, conns, connected_peers, oneshot_events,
                 request_response_events, pending_response, processed_requests,
                 request_counter, outbound, answered, processor_vars, channel_vars>>

ModuleExits == {"consensus", "data_memory", "instruction_memory"}

Next ==
  \/ Orchestrator
  \/ ProcessorTask
  \/ ModuleTask(ConsensusHandle)
  \/ ModuleTask(ConsensusFinalize)
  \/ ModuleTask(RemoteFinalize)
  \/ ModuleTask(DataMemoryHandle)
  \/ ModuleTask(InstructionMemoryHandle)
  \/ \E m \in ModuleExits : Module(m)
  \/ User
  \/ SwarmEvent
  \/ PeerResponse
  \/ Timer
  \/ Terminated

Spec == Init /\ [][Next]_vars

(* The runtime polls every task that is not asleep, and each module task  *)
(* eventually handles what is in its queue; time passes, so an armed      *)
(* gossip Sleep elapses.  The user, the network and remote peers are not  *)
(* obliged to do anything.                                                *)
Fairness ==
  /\ WF_vars(Orchestrator)
  /\ WF_vars(ProcessorTask)
  /\ WF_vars(ModuleTask(ConsensusHandle))
  /\ WF_vars(ModuleTask(ConsensusFinalize))
  /\ WF_vars(ModuleTask(DataMemoryHandle))
  /\ WF_vars(ModuleTask(InstructionMemoryHandle))
  /\ \A m \in ModuleExits : WF_vars(Module(m))
  /\ WF_vars(Timer)

FairSpec == Spec /\ Fairness

-----------------------------------------------------------------------------
TypeOK ==
  /\ status \in {"Running", "CancelSignal", "UnableToOperate"}
  /\ pc \in Phases
  /\ conns \in [Peers -> Nat]
  /\ connected_peers \subseteq Peers
  /\ DOMAIN pending_response \subseteq Ids
  /\ \A id \in DOMAIN pending_response : pending_response[id] \in Requests
  /\ processed_requests \in [Requests -> SUBSET Ids]
  /\ gossip_timer \in {"armed", "fired"}
  /\ request_counter \in Ids
  /\ processor_state \in {"Ready", "Executing"}
  /\ proc_pc \in {"select", "executing", "sending", "resetting"}
  /\ closed \subseteq Modules
  /\ \A q \in Queues : Len(chan[q]) <= Capacity
  /\ task \in {"polling", "notified", "asleep"}
  /\ registered \subseteq WakeSources

(* connected_peers is exactly the set of peers with at least one          *)
(* established connection (spec 3, invariant 2), as maintained from the   *)
(* other_established / remaining_established counts of on_swarm_event.    *)
ConnectedPeersConsistent == connected_peers = {p \in Peers : conns[p] > 0}

(* The node implements InboundService: respond_to answers only requests  *)
(* that arrived, once each, with the response to the request that waiter *)
(* sent, whatever other requests are coalesced with it in                *)
(* processed_requests (mod.rs:440), and whichever data-memory answer and *)
(* poll phase deliver it.  Id freshness is libp2p's: its RequestId        *)
(* counter, outside this repository, is modelled by request_counter and  *)
(* taken as given, so the refinement checks the answering side only.      *)
Service == INSTANCE InboundService WITH arrived <- inbound, served <- answered

InboundServiceRefined == Service!Spec

(* Every RequestId in pending_response is still unresolved (spec 3,       *)
(* invariant 3): its request is still out on the network, or the response *)
(* or failure for it is queued and not yet handled by poll (the Response  *)
(* arm at mod.rs:445 and the failure arm at mod.rs:507 have not run).     *)
Unresolved(id) ==
  \/ \E o \in outbound : o.id = id
  \/ \E i \in DOMAIN request_response_events :
        /\ request_response_events[i].type \in {"Response", "Timeout"}
        /\ request_response_events[i].id = id

ProcessorInboxAtMostOne ==
  Len(chan["processor_in"]) + (IF proc_pc = "select" THEN 0 ELSE 1) <= 1

(* A shutdown requested by the user ends the node with CancelSignal       *)
(* (spec 5, Cancellation; exit code 0 on a clean shutdown signal, 6), not *)
(* with the UnableToOperate of a module whose task returned on the token. *)
ShutdownExitsClean ==
  (shutdown /\ status = "UnableToOperate") => closed = {}

(* A gossip tick never ends the node while the consensus task is alive:   *)
(* a full consensus.input only skips CreateStandalone or the sync request *)
(* (spec 4.3 phase 9, scenario 8e); every other saturated send is fatal.  *)
GossipSaturationTolerated ==
  [][(pc = "gossip" /\ "consensus" \notin closed) => status' = status]_vars

(* Where program pid is on its way from finalization to confirmation.     *)
Carries(q, type, pid) == \E i \in 1..Len(chan[q]) : chan[q][i].type = type /\ chan[q][i].pid = pid

InPipeline(pid) ==
  \/ Carries("consensus_out", "Finalized_Execute", pid)
  \/ Carries("instruction_memory_in", "FinalizedProgram", pid)
  \/ Carries("instruction_memory_out", "NextProgram", pid)
  \/ Carries("processor_in", "Execute", pid)
  \/ proc_program = pid
  \/ Carries("processor_out", "FinishedExecution", pid)
  \/ Carries("consensus_in", "ScheduleTx_Executed", pid)
  \/ \E tx \in consensus_txs : tx.type = "Finalized_Executed" /\ tx.pid = pid
  \/ Carries("consensus_out", "Finalized_Executed", pid)
  \/ Carries("instruction_memory_in", "ExecutedProgram", pid)
  \/ pid \in confirmed

(* No finalized program is lost (spec 8, invariant 6): while the node     *)
(* runs and no shutdown was requested, every program finalized by         *)
(* consensus is queued, handed to the processor, executed, or confirmed;  *)
(* losses are only allowed with UnableToOperate.                          *)
ProgramNotLost ==
  (Running /\ ~shutdown) => \A pid \in 1..(next_pid - 1) : InPipeline(pid)

(* A program instruction memory offers on its output is taken by the      *)
(* orchestrator while the node runs (spec 4.3 phase 7, scenario 9c).      *)
(* Phase 7 polls instruction_memory.output only while the processor       *)
(* accepts input, and the processor's set_state(Ready) wakes no task: the *)
(* program is then taken only when another waker fires.                  *)
Waiting(pid) == Running /\ Carries("instruction_memory_out", "NextProgram", pid)

NextProgramHandedOver == \A pid \in Pids : Waiting(pid) ~> ~Waiting(pid)
=============================================================================
