------------------------------ MODULE Behaviour -----------------------------
(***************************************************************************)
(* The orchestrator of one node: Behaviour in src/behaviour/mod.rs.       *)
(*                                                                         *)
(* `poll` is a sequence of phases, each of which either returns an action *)
(* to the swarm (the poll ends, the next poll starts again at the top) or *)
(* falls through to the next phase.  `pc` is the phase the current poll   *)
(* is in; each phase, and each arm of a phase's match, is an action, so   *)
(* the module tasks (which run as separate tasks of the runtime) may step *)
(* between two phases of one poll.  A failed or saturated send ends the   *)
(* node with UnableToOperate (cant_operate_error_return!).                *)
(*                                                                         *)
(* The handlers the swarm calls between polls (on_swarm_event,            *)
(* on_connection_handler_event, inject_peer_discovered) are actions with  *)
(* the event as parameter; the network that produces the events is in    *)
(* module Node.                                                           *)
(***************************************************************************)
EXTENDS Channels, SequencesExt, FiniteSets

CONSTANTS
  MaxRequestId,  \* bound: request ids the inner request-response assigns
  WakersModelled \* FALSE: a poll may start at any time (see Wake)

VARIABLES
  status,                  \* Running, or the error the poll generated
  pc,                      \* the phase of the current poll
  discovered_peers,        \* VecDeque<PeerId>: push_front, pop_back
  conns,                   \* the swarm's established connections per peer
  connected_peers,         \* HashSet<PeerId>
  oneshot_events,          \* VecDeque of GossipGraph senders
  request_response_events, \* VecDeque of request-response handler events
  pending_response,        \* HashMap<RequestId, Request>
  processed_requests,      \* HashMap<Request, Vec<(RequestId, sender)>>
  gossip_timer,            \* "armed" or "fired"
  request_counter,         \* next RequestId of the inner request-response
  outbound,                \* requests sent to peers and not yet answered
  answered,                \* [id, resp]: inbound request id and the response it got
  task,                    \* the runtime's view of the task: polling, notified or asleep
  registered               \* receivers and the timer holding the task's waker

behaviour_vars == <<status, pc, discovered_peers, conns, connected_peers,
                    oneshot_events, request_response_events, pending_response,
                    processed_requests, gossip_timer, request_counter,
                    outbound, answered>>

waker_vars == <<task, registered>>

Phases == {"shutdown", "dial", "inbound", "data_memory", "user", "processor",
           "instruction_memory", "consensus", "gossip"}

RequestKinds == {"GetShard", "ServeShard"}
Requests == [kind: RequestKinds, key: Keys]
Request(kind, key) == [kind |-> kind, key |-> key]

Ids == 0..MaxRequestId

(* Events the connection handlers report (handler::Event of              *)
(* libp2p_request_response); `some` is whether a GetShard response        *)
(* carries a shard.  Timeout stands for the four timeout and unsupported- *)
(* protocol variants, which are handled alike; each carries its RequestId.*)
RREvents ==
  [type: {"Request"}, id: Ids, req: Requests, peer: Peers] \cup
  [type: {"Response"}, id: Ids, kind: RequestKinds, some: BOOLEAN, peer: Peers] \cup
  [type: {"Timeout"}, id: Ids, peer: Peers]

(* The poll ended (a swarm action, or Pending after phase 9): the next    *)
(* poll starts from the top.                                              *)
Return == pc' = "shutdown"

(* cant_operate_error_return!: GenerateEvent(Err(UnableToOperate)).       *)
Fatal == /\ status' = "UnableToOperate"
         /\ UNCHANGED <<pc, chan>>

(* A phase sends m to queue q and then goes on to phase `next`; a failed *)
(* or saturated send is fatal.                                            *)
SendThen(q, m, next) ==
  IF SendOutcome(q) = "Ok"
  THEN /\ chan' = Enqueue(q, m)
       /\ pc' = next
       /\ UNCHANGED status
  ELSE Fatal

Running == status = "Running"

-----------------------------------------------------------------------------
(* Handlers the swarm calls outside poll.                                 *)

inject_peer_discovered(p) ==
  /\ discovered_peers' = Cons(p, discovered_peers)
  /\ UNCHANGED <<status, pc, conns, connected_peers, oneshot_events,
                 request_response_events, pending_response, processed_requests,
                 gossip_timer, request_counter, outbound, answered, chan>>

(* FromSwarm::ConnectionEstablished: other_established is the number of  *)
(* connections to p before this one.                                      *)
ConnectionEstablished(p) ==
  /\ conns' = [conns EXCEPT ![p] = @ + 1]
  /\ connected_peers' = IF conns[p] > 0 THEN connected_peers
                        ELSE connected_peers \cup {p}
  /\ UNCHANGED <<status, pc, discovered_peers, oneshot_events,
                 request_response_events, pending_response, processed_requests,
                 gossip_timer, request_counter, outbound, answered, chan>>

(* Fault: the peer is kept when the count before the close is positive.  *)
ConnectionClosedOffByOne(p) ==
  /\ conns[p] > 0
  /\ conns' = [conns EXCEPT ![p] = @ - 1]
  /\ connected_peers' = IF conns[p] > 0 THEN connected_peers
                        ELSE connected_peers \ {p}
  /\ UNCHANGED <<status, pc, discovered_peers, oneshot_events,
                 request_response_events, pending_response, processed_requests,
                 gossip_timer, request_counter, outbound, answered, chan>>

(* FromSwarm::ConnectionClosed: remaining_established is the number of    *)
(* connections to p left after this one.                                  *)
ConnectionClosed(p) ==
  /\ conns[p] > 0
  /\ conns' = [conns EXCEPT ![p] = @ - 1]
  /\ connected_peers' = IF conns[p] - 1 > 0 THEN connected_peers
                        ELSE connected_peers \ {p}
  /\ UNCHANGED <<status, pc, discovered_peers, oneshot_events,
                 request_response_events, pending_response, processed_requests,
                 gossip_timer, request_counter, outbound, answered, chan>>

(* on_connection_handler_event: Left (one-shot) events and Right          *)
(* (request-response) events are pushed to the front of their deques.     *)
OnGossipReceived(p) ==
  /\ oneshot_events' = Cons(p, oneshot_events)
  /\ UNCHANGED <<status, pc, discovered_peers, conns, connected_peers,
                 request_response_events, pending_response, processed_requests,
                 gossip_timer, request_counter, outbound, answered, chan>>

(* An inbound request gets the next RequestId of the inner behaviour.    *)
OnInboundRequest(p, req) ==
  /\ request_response_events' =
       Cons([type |-> "Request", id |-> request_counter, req |-> req, peer |-> p],
            request_response_events)
  /\ request_counter' = request_counter + 1
  /\ UNCHANGED <<status, pc, discovered_peers, conns, connected_peers,
                 oneshot_events, pending_response, processed_requests,
                 gossip_timer, outbound, answered, chan>>

(* The handler's event for an outbound request; the request leaves the   *)
(* network's `outbound` in the same step (module Node).                   *)
OnRequestResponseEvent(e) ==
  /\ request_response_events' = Cons(e, request_response_events)
  /\ UNCHANGED <<status, pc, discovered_peers, conns, connected_peers,
                 oneshot_events, pending_response, processed_requests,
                 gossip_timer, request_counter, answered, chan>>

-----------------------------------------------------------------------------
(* poll, phase 1: the shutdown token of the user channel.                 *)
PollShutdown ==
  /\ Running /\ pc = "shutdown"
  /\ \/ /\ shutdown
        /\ status' = "CancelSignal"
        /\ UNCHANGED pc
     \/ /\ ~shutdown
        /\ pc' = "dial"
        /\ UNCHANGED status
  /\ UNCHANGED <<discovered_peers, conns, connected_peers, oneshot_events,
                 request_response_events, pending_response, processed_requests,
                 gossip_timer, request_counter, outbound, answered, chan>>

(* Phase 2: dial one discovered peer (pop_back) and return Dial.          *)
PollDial ==
  /\ Running /\ pc = "dial"
  /\ \/ /\ discovered_peers # <<>>
        /\ discovered_peers' = Front(discovered_peers)
        /\ Return
     \/ /\ discovered_peers = <<>>
        /\ pc' = "inbound"
        /\ UNCHANGED discovered_peers
  /\ UNCHANGED <<status, conns, connected_peers, oneshot_events,
                 request_response_events, pending_response, processed_requests,
                 gossip_timer, request_counter, outbound, answered, chan>>

(* Phase 3, the inner loop: a GossipGraph is forwarded to consensus as    *)
(* ApplySync and the loop continues.                                      *)
PollGossipGraph ==
  /\ Running /\ pc = "inbound"
  /\ oneshot_events # <<>>
  /\ oneshot_events' = Front(oneshot_events)
  /\ SendThen("consensus_in", Msg("ApplySync", NoKey, Last(oneshot_events), 0), "inbound")
  /\ UNCHANGED <<discovered_peers, conns, connected_peers, request_response_events,
                 pending_response, processed_requests, gossip_timer,
                 request_counter, outbound, answered>>

(* The data-memory event an inbound request is translated into.           *)
InboundEvent == [GetShard |-> "AssignedRequest", ServeShard |-> "ServeShardRequest"]

(* Event::Request: forward to data memory, then register the response     *)
(* sender under the request so that data memory's answer reaches it.      *)
(* After one request-response event the loop breaks.                      *)
PollInboundRequest ==
  LET e == Last(request_response_events) IN
  /\ Running /\ pc = "inbound" /\ oneshot_events = <<>>
  /\ request_response_events # <<>>
  /\ e.type = "Request"
  /\ request_response_events' = Front(request_response_events)
  /\ SendThen("data_memory_in", Msg(InboundEvent[e.req.kind], e.req.key, NoPeer, 0), "data_memory")
  /\ processed_requests' = IF SendOutcome("data_memory_in") = "Ok"
                           THEN [processed_requests EXCEPT ![e.req] = @ \cup {e.id}]
                           ELSE processed_requests
  /\ UNCHANGED <<discovered_peers, conns, connected_peers, oneshot_events,
                 pending_response, gossip_timer, request_counter, outbound, answered>>

(* Event::Response: look the request up in pending_response (`get`, the  *)
(* entry stays); a matching GetShard(Some) or ServeShard is forwarded to  *)
(* data memory; GetShard(None), a variant mismatch and an unknown id are  *)
(* only logged.                                                           *)
PollResponse ==
  LET e == Last(request_response_events)
      forward == /\ e.id \in DOMAIN pending_response
                 /\ pending_response[e.id].kind = e.kind
                 /\ (e.kind = "GetShard" => e.some)
      event == IF e.kind = "GetShard" THEN "AssignedResponse" ELSE "ServeShardResponse"
  IN
  /\ Running /\ pc = "inbound" /\ oneshot_events = <<>>
  /\ request_response_events # <<>>
  /\ e.type = "Response"
  /\ request_response_events' = Front(request_response_events)
  /\ IF forward
     THEN SendThen("data_memory_in", Msg(event, pending_response[e.id].key, NoPeer, 0), "data_memory")
     ELSE /\ pc' = "data_memory"
          /\ UNCHANGED <<status, chan>>
  /\ UNCHANGED <<discovered_peers, conns, connected_peers, oneshot_events,
                 pending_response, processed_requests, gossip_timer,
                 request_counter, outbound, answered>>

(* Timeouts and unsupported protocols: return CloseConnection.            *)
PollConnectionError ==
  /\ Running /\ pc = "inbound" /\ oneshot_events = <<>>
  /\ request_response_events # <<>>
  /\ Last(request_response_events).type = "Timeout"
  /\ request_response_events' = Front(request_response_events)
  /\ Return
  /\ UNCHANGED <<status, discovered_peers, conns, connected_peers, oneshot_events,
                 pending_response, processed_requests, gossip_timer,
                 request_counter, outbound, answered, chan>>

PollInboundDrained ==
  /\ Running /\ pc = "inbound"
  /\ oneshot_events = <<>> /\ request_response_events = <<>>
  /\ pc' = "data_memory"
  /\ UNCHANGED <<status, discovered_peers, conns, connected_peers, oneshot_events,
                 request_response_events, pending_response, processed_requests,
                 gossip_timer, request_counter, outbound, answered, chan>>

-----------------------------------------------------------------------------
(* Phase 4: one event of data_memory.output.                              *)

(* Arms that forward the event to one queue: the queue and the variant.  *)
DataMemoryRoute ==
  [AssignedStoreSuccess    |-> <<"consensus_in", "ScheduleTx_Stored">>,
   DistributionSuccess     |-> <<"user_out", "PutConfirmed">>,
   ListDistributed         |-> <<"user_out", "ListStoredResponse">>,
   PreparedServiceResponse |-> <<"consensus_in", "ScheduleTx_StorageRequest">>,
   RecollectResponse       |-> <<"user_out", "GetResponse">>,
   Initialized             |-> <<"user_out", "StorageInitialized">>]

PollDataMemoryForward ==
  LET e == Head(chan["data_memory_out"])
      r == DataMemoryRoute[e.type]
  IN
  /\ Running /\ pc = "data_memory"
  /\ RecvReady("data_memory_out")
  /\ e.type \in DOMAIN DataMemoryRoute
  /\ IF SendOutcome(r[1]) = "Ok"
     THEN /\ chan' = [Dequeue("data_memory_out") EXCEPT ![r[1]] = Append(@, Msg(r[2], e.key, e.peer, 0))]
          /\ pc' = "user"
          /\ UNCHANGED status
     ELSE Fatal
  /\ UNCHANGED <<discovered_peers, conns, connected_peers, oneshot_events,
                 request_response_events, pending_response, processed_requests,
                 gossip_timer, request_counter, outbound, answered>>

(* send_request: the inner behaviour assigns the next RequestId and the   *)
(* request is recorded in pending_response.                               *)
OutboundRequest == [ServeShardRequest |-> "ServeShard", AssignedRequest |-> "GetShard"]

send_request(req, peer) ==
  /\ outbound' = outbound \cup {[id |-> request_counter, req |-> req, peer |-> peer]}
  /\ pending_response' = pending_response @@ (request_counter :> req)
  /\ request_counter' = request_counter + 1

PollDataMemoryRequest ==
  LET e == Head(chan["data_memory_out"]) IN
  /\ Running /\ pc = "data_memory"
  /\ RecvReady("data_memory_out")
  /\ e.type \in DOMAIN OutboundRequest
  /\ chan' = Dequeue("data_memory_out")
  /\ send_request(Request(OutboundRequest[e.type], e.key), e.peer)
  /\ pc' = "user"
  /\ UNCHANGED <<status, discovered_peers, conns, connected_peers, oneshot_events,
                 request_response_events, processed_requests, gossip_timer, answered>>

(* Fault: each data-memory response resolves the other request variant.  *)
ResponseForSwapped == [ServeShardResponse |-> "GetShard", AssignedResponse |-> "ServeShard"]

(* respond_to: every sender registered under the request gets the        *)
(* response and the entry is removed.  Each arm names the request it      *)
(* resolves and, separately, the response variant it sends.               *)
ResponseFor == [ServeShardResponse |-> "ServeShard", AssignedResponse |-> "GetShard"]

ResponseVariant == [ServeShardResponse |-> "ServeShard", AssignedResponse |-> "GetShard"]

respond_to(req, resp) ==
  /\ answered' = answered \cup {[id |-> i, resp |-> resp] : i \in processed_requests[req]}
  /\ processed_requests' = [processed_requests EXCEPT ![req] = {}]

PollDataMemoryResponse ==
  LET e == Head(chan["data_memory_out"]) IN
  /\ Running /\ pc = "data_memory"
  /\ RecvReady("data_memory_out")
  /\ e.type \in DOMAIN ResponseFor
  /\ chan' = Dequeue("data_memory_out")
  /\ respond_to(Request(ResponseFor[e.type], e.key), [kind |-> ResponseVariant[e.type], key |-> e.key])
  /\ pc' = "user"
  /\ UNCHANGED <<status, discovered_peers, conns, connected_peers, oneshot_events,
                 request_response_events, pending_response, gossip_timer,
                 request_counter, outbound>>

(* A receive that is Pending falls through to the next phase; one that   *)
(* yields None (the module dropped its sender) is fatal.  Used by every   *)
(* phase that drains a module's output.                                   *)
RecvEmpty(q, phase, next) ==
  /\ Running /\ pc = phase
  /\ ~RecvReady(q)
  /\ IF RecvClosed(q) THEN Fatal ELSE /\ pc' = next /\ UNCHANGED <<status, chan>>
  /\ UNCHANGED <<discovered_peers, conns, connected_peers, oneshot_events,
                 request_response_events, pending_response, processed_requests,
                 gossip_timer, request_counter, outbound, answered>>

-----------------------------------------------------------------------------
(* Phase 5: one event of user_interaction.input.                          *)

UserRoute ==
  [Get               |-> <<"data_memory_in", "RecollectRequest">>,
   Put               |-> <<"data_memory_in", "PrepareServiceRequest">>,
   ListStored        |-> <<"data_memory_in", "ListDistributed">>,
   InitializeStorage |-> <<"consensus_in", "KnownPeersRequest">>]

PollUserForward ==
  LET e == Head(chan["user_in"])
      r == UserRoute[e.type]
  IN
  /\ Running /\ pc = "user"
  /\ RecvReady("user_in")
  /\ e.type \in DOMAIN UserRoute
  /\ IF SendOutcome(r[1]) = "Ok"
     THEN /\ chan' = [Dequeue("user_in") EXCEPT ![r[1]] = Append(@, Msg(r[2], e.key, NoPeer, 0))]
          /\ pc' = "processor"
          /\ UNCHANGED status
     ELSE Fatal
  /\ UNCHANGED <<discovered_peers, conns, connected_peers, oneshot_events,
                 request_response_events, pending_response, processed_requests,
                 gossip_timer, request_counter, outbound, answered>>

(* ScheduleProgram: ScheduleTx(Execute) to consensus, then ScheduleOk to  *)
(* the user; either send failing is fatal, the first one already done.    *)
PollScheduleProgram ==
  LET afterRecv == Dequeue("user_in")
      afterTx   == [afterRecv EXCEPT !["consensus_in"] = Append(@, Msg("ScheduleTx_Execute", NoKey, NoPeer, 0))]
  IN
  /\ Running /\ pc = "user"
  /\ RecvReady("user_in")
  /\ Head(chan["user_in"]).type = "ScheduleProgram"
  /\ IF SendOutcome("consensus_in") # "Ok" THEN Fatal
     ELSE IF SendOutcome("user_out") # "Ok"
     THEN /\ status' = "UnableToOperate"
          /\ chan' = afterTx
          /\ UNCHANGED pc
     ELSE /\ chan' = [afterTx EXCEPT !["user_out"] = Append(@, Msg("ScheduleOk", NoKey, NoPeer, 0))]
          /\ pc' = "processor"
          /\ UNCHANGED status
  /\ UNCHANGED <<discovered_peers, conns, connected_peers, oneshot_events,
                 request_response_events, pending_response, processed_requests,
                 gossip_timer, request_counter, outbound, answered>>

-----------------------------------------------------------------------------
(* Phase 6: processor.output.  FinishedExecution is scheduled as an       *)
(* Executed transaction.                                                  *)
PollProcessor ==
  LET e == Head(chan["processor_out"]) IN
  /\ Running /\ pc = "processor"
  /\ RecvReady("processor_out")
  /\ IF SendOutcome("consensus_in") = "Ok"
     THEN /\ chan' = [Dequeue("processor_out") EXCEPT !["consensus_in"] =
                        Append(@, Msg("ScheduleTx_Executed", NoKey, NoPeer, e.pid))]
          /\ pc' = "instruction_memory"
          /\ UNCHANGED status
     ELSE Fatal
  /\ UNCHANGED <<discovered_peers, conns, connected_peers, oneshot_events,
                 request_response_events, pending_response, processed_requests,
                 gossip_timer, request_counter, outbound, answered>>

(* Fault: a full processor inbox only skips the program, as in phase 9.  *)
PollInstructionMemoryWarnOnFull ==
  LET e == Head(chan["instruction_memory_out"]) IN
  /\ Running /\ pc = "instruction_memory"
  /\ ProcessorAcceptsInput
  /\ RecvReady("instruction_memory_out")
  /\ IF SendOutcome("processor_in") = "Err" THEN Fatal
     ELSE /\ chan' = [Dequeue("instruction_memory_out") EXCEPT !["processor_in"] =
                        IF SendOutcome("processor_in") = "Ok"
                        THEN Append(@, Msg("Execute", NoKey, NoPeer, e.pid)) ELSE @]
          /\ pc' = "consensus"
          /\ UNCHANGED status
  /\ UNCHANGED <<discovered_peers, conns, connected_peers, oneshot_events,
                 request_response_events, pending_response, processed_requests,
                 gossip_timer, request_counter, outbound, answered>>

(* Phase 7: instruction_memory.output, read only while the processor's    *)
(* shared state accepts input.  NextProgram is handed over as Execute.    *)
PollInstructionMemory ==
  LET e == Head(chan["instruction_memory_out"]) IN
  /\ Running /\ pc = "instruction_memory"
  /\ ProcessorAcceptsInput
  /\ RecvReady("instruction_memory_out")
  /\ IF SendOutcome("processor_in") = "Ok"
     THEN /\ chan' = [Dequeue("instruction_memory_out") EXCEPT !["processor_in"] =
                        Append(@, Msg("Execute", NoKey, NoPeer, e.pid))]
          /\ pc' = "consensus"
          /\ UNCHANGED status
     ELSE Fatal
  /\ UNCHANGED <<discovered_peers, conns, connected_peers, oneshot_events,
                 request_response_events, pending_response, processed_requests,
                 gossip_timer, request_counter, outbound, answered>>

PollInstructionMemoryGated ==
  /\ Running /\ pc = "instruction_memory"
  /\ ~ProcessorAcceptsInput
  /\ pc' = "consensus"
  /\ UNCHANGED <<status, discovered_peers, conns, connected_peers, oneshot_events,
                 request_response_events, pending_response, processed_requests,
                 gossip_timer, request_counter, outbound, answered, chan>>

-----------------------------------------------------------------------------
(* Phase 8: consensus.output.                                             *)

(* GenerateSyncResponse: returned as NotifyHandler to the peer; the sync  *)
(* leaves the node (the remote peers are not modelled).                   *)
PollSyncResponse ==
  /\ Running /\ pc = "consensus"
  /\ RecvReady("consensus_out")
  /\ Head(chan["consensus_out"]).type = "GenerateSyncResponse"
  /\ chan' = Dequeue("consensus_out")
  /\ Return
  /\ UNCHANGED <<status, discovered_peers, conns, connected_peers, oneshot_events,
                 request_response_events, pending_response, processed_requests,
                 gossip_timer, request_counter, outbound, answered>>

(* KnownPeersResponse is scheduled back as InitializeStorage; a finalized *)
(* transaction goes to the module its variant names, with `from` and, for *)
(* Execute, the event hash as program id.                                 *)
ConsensusRoute ==
  [KnownPeersResponse          |-> <<"consensus_in", "ScheduleTx_InitializeStorage">>,
   Finalized_StorageRequest    |-> <<"data_memory_in", "StorageRequestTx">>,
   Finalized_Stored            |-> <<"data_memory_in", "StoreConfirmed">>,
   Finalized_Execute           |-> <<"instruction_memory_in", "FinalizedProgram">>,
   Finalized_Executed          |-> <<"instruction_memory_in", "ExecutedProgram">>,
   Finalized_InitializeStorage |-> <<"data_memory_in", "Initialize">>]

PollConsensusForward ==
  LET e == Head(chan["consensus_out"])
      r == ConsensusRoute[e.type]
  IN
  /\ Running /\ pc = "consensus"
  /\ RecvReady("consensus_out")
  /\ e.type \in DOMAIN ConsensusRoute
  /\ IF SendOutcome(r[1]) = "Ok"
     THEN /\ chan' = [Dequeue("consensus_out") EXCEPT ![r[1]] = Append(@, Msg(r[2], e.key, e.peer, e.pid))]
          /\ pc' = "gossip"
          /\ UNCHANGED status
     ELSE Fatal
  /\ UNCHANGED <<discovered_peers, conns, connected_peers, oneshot_events,
                 request_response_events, pending_response, processed_requests,
                 gossip_timer, request_counter, outbound, answered>>

-----------------------------------------------------------------------------
(* Phase 9: the gossip timer.  CreateStandalone and, when a peer is       *)
(* connected, GenerateSyncRequest to a random one; a full queue only      *)
(* skips the send, a closed one is fatal (PollGossipClosed).  The         *)
(* consensus module's shared state always accepts input.  The poll then   *)
(* returns Pending.  The second send cannot meet a closed queue: the      *)
(* first one found it open in the same step.                              *)
CreateStandalone == Msg("CreateStandalone", NoKey, NoPeer, 0)

(* Fault: a full queue is fatal for the gossip sends too.                 *)
PollGossipFatalOnFull ==
  /\ Running /\ pc = "gossip"
  /\ gossip_timer = "fired"
  /\ SendOutcome("consensus_in") # "Err"
  /\ IF SendOutcome("consensus_in") = "Pending" THEN Fatal /\ UNCHANGED gossip_timer
     ELSE /\ gossip_timer' = "armed"
          /\ chan' = Enqueue("consensus_in", CreateStandalone)
          /\ Return
          /\ UNCHANGED status
  /\ UNCHANGED <<discovered_peers, conns, connected_peers, oneshot_events,
                 request_response_events, pending_response, processed_requests,
                 request_counter, outbound, answered>>

(* get_random_peer: any connected peer, uniformly; none (the empty set   *)
(* of choices) when no peer is connected.                                 *)
get_random_peer == connected_peers

PollGossip ==
  LET afterStandalone == IF SendOutcome("consensus_in") = "Ok"
                         THEN Enqueue("consensus_in", CreateStandalone) ELSE chan
  IN
  /\ Running /\ pc = "gossip"
  /\ gossip_timer = "fired"
  /\ SendOutcome("consensus_in") # "Err"
  /\ gossip_timer' = "armed"
  /\ \/ /\ get_random_peer = {}
        /\ chan' = afterStandalone
     \/ \E to \in get_random_peer :
          chan' = IF SendOutcomeIn(afterStandalone, "consensus_in") = "Ok"
                  THEN [afterStandalone EXCEPT !["consensus_in"] =
                          Append(@, Msg("GenerateSyncRequest", NoKey, to, 0))]
                  ELSE afterStandalone
  /\ Return
  /\ UNCHANGED <<status, discovered_peers, conns, connected_peers, oneshot_events,
                 request_response_events, pending_response, processed_requests,
                 request_counter, outbound, answered>>

PollGossipIdle ==
  /\ Running /\ pc = "gossip"
  /\ gossip_timer = "armed"
  /\ Return
  /\ UNCHANGED <<status, discovered_peers, conns, connected_peers, oneshot_events,
                 request_response_events, pending_response, processed_requests,
                 gossip_timer, request_counter, outbound, answered, chan>>

PollGossipClosed ==
  /\ Running /\ pc = "gossip"
  /\ gossip_timer = "fired"
  /\ SendOutcome("consensus_in") = "Err"
  /\ Fatal
  /\ UNCHANGED <<discovered_peers, conns, connected_peers, oneshot_events,
                 request_response_events, pending_response, processed_requests,
                 gossip_timer, request_counter, outbound, answered>>

-----------------------------------------------------------------------------
(* Wakers.  A receiver's poll_recv that is Pending stores the task's      *)
(* waker in the channel (tokio's AtomicWaker) until a send or the drop of *)
(* the last sender takes it; the gossip Sleep keeps the waker it was      *)
(* polled with until it elapses, and a new Sleep has none.  The futures   *)
(* of the shutdown token, the sends and state_updated are dropped within  *)
(* the poll, and with them their wakers.  A task woken while it polls is  *)
(* polled again after it yields.                                          *)
WakeSources == {"data_memory_out", "user_in", "processor_out",
                "instruction_memory_out", "consensus_out", "timer"}

(* Without WakersModelled the waker state stays as in Init and a poll may *)
(* start at any time: every behaviour with wakers is also one without, so *)
(* safety properties checked without them hold with them.                 *)
Woken == IF task = "asleep" THEN "polling" ELSE "notified"

(* The sources in S fire: those holding the waker wake the task.          *)
Wake(S) ==
  LET hit == S \cap registered IN
  IF WakersModelled
  THEN /\ registered' = registered \ hit
       /\ task' = IF hit = {} THEN task ELSE Woken
  ELSE UNCHANGED waker_vars

(* The swarm delivered an event to a handler; it polls the behaviour next. *)
Kick == IF WakersModelled THEN task' = Woken /\ UNCHANGED registered
        ELSE UNCHANGED waker_vars

(* poll_recv or the Sleep was polled and is Pending: it keeps the waker.  *)
Register(src) ==
  /\ registered' = IF WakersModelled THEN registered \cup {src} ELSE registered
  /\ UNCHANGED task

(* poll returned Poll::Pending: the task sleeps unless it was woken.  The *)
(* gossip Sleep was polled (timer_pending) or replaced by an unpolled one. *)
Yield(timer_pending) ==
  IF WakersModelled
  THEN /\ task' = IF task = "notified" THEN "polling" ELSE "asleep"
       /\ registered' = IF timer_pending THEN registered \cup {"timer"}
                        ELSE registered \ {"timer"}
  ELSE UNCHANGED waker_vars

-----------------------------------------------------------------------------
(* One step of poll: the phase pc is in.                                  *)
PollStep ==
  \/ task # "asleep" /\ PollShutdown /\ UNCHANGED waker_vars
  \/ \/ PollDial
     \/ PollGossipGraph
     \/ PollInboundRequest
     \/ PollResponse
     \/ PollConnectionError
     \/ PollInboundDrained
     \/ PollDataMemoryForward
     \/ PollDataMemoryRequest
     \/ PollDataMemoryResponse
     \/ PollUserForward
     \/ PollScheduleProgram
     \/ PollProcessor
     \/ PollInstructionMemory
     \/ PollInstructionMemoryGated
     \/ PollSyncResponse
     \/ PollConsensusForward
     \/ PollGossipClosed
     /\ UNCHANGED waker_vars
  \/ RecvEmpty("data_memory_out", "data_memory", "user") /\ Register("data_memory_out")
  \/ RecvEmpty("user_in", "user", "processor") /\ Register("user_in")
  \/ RecvEmpty("processor_out", "processor", "instruction_memory") /\ Register("processor_out")
  \/ /\ ProcessorAcceptsInput
     /\ RecvEmpty("instruction_memory_out", "instruction_memory", "consensus")
     /\ Register("instruction_memory_out")
  \/ RecvEmpty("consensus_out", "consensus", "gossip") /\ Register("consensus_out")
  \/ PollGossip /\ Yield(FALSE)
  \/ PollGossipIdle /\ Yield(TRUE)
=============================================================================
