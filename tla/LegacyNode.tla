----------------------------- MODULE LegacyNode -----------------------------
(***************************************************************************)
(* The legacy orchestrator Behaviour of src/node.rs, the one main.rs      *)
(* builds, for a cluster of nodes: the connection handlers, the fixed     *)
(* sequence of poll phases with their early returns, the mock            *)
(* distribution of initial data and instructions by the main node, and   *)
(* the execution of one instruction at a time with its operand requests. *)
(*                                                                         *)
(* The collaborators of this Behaviour are not in the repository (the    *)
(* connection handler, MockConsensus, MemoryStorage and the old           *)
(* Processor). They are modelled from their use here: consensus is one    *)
(* log shared by the nodes (Stored transactions and pushed instructions, *)
(* each node reading instructions with its own cursor); data memory put  *)
(* and the consensus pushes succeed; a NotifyHandler towards a peer       *)
(* without a connection is dropped by the swarm; a CloseConnection       *)
(* closes the connection at once and drops what is in flight on it.      *)
(***************************************************************************)
EXTENDS Naturals, Sequences, SequencesExt, FiniteSets, TLC

CONSTANTS
  Nodes,      \* the peers of the cluster
  Main,       \* the node built with is_main_node = true
  Vids,       \* data ids
  InitData,   \* the ids the main node distributes (add_data_to_distribute)
  Program,    \* the instructions it queues (add_instruction), in order
  None,       \* no shard
  MaxTicks,   \* gossip timer firings per node
  MaxFaults   \* connection errors reported by the handlers

(* A shard is the datum it was distributed as, or the result of an        *)
(* instruction over the shards it read.                                   *)
Orig(v) == [orig |-> v]

VARIABLES
  discovered,  \* discovered_peers: VecDeque<PeerId>
  connected,   \* connected_peers
  links,       \* the swarm: the pairs of nodes with an open connection
  dialed,      \* the swarm: dials requested by each node
  pending,     \* pending_handler_events: (peer, shard request)
  conn_events, \* connection_events: events injected by the handlers
  net,         \* handler messages in flight
  store,       \* data_memory of each node
  shard_buf,   \* incoming_shards_buffer: Vid -> queue of shards
  exec,        \* exec_state
  timer,       \* the gossip timer has elapsed
  to_distribute, distribute, to_execute, execute, \* the mock fields
  pc,          \* phase of the current poll
  log,         \* consensus: instructions pushed, in order
  cursor,      \* consensus: instructions each node has taken
  txs,         \* consensus: Stored(id, peer) transactions
  ticks, faults

vars == <<discovered, connected, links, dialed, pending, conn_events, net,
          store, shard_buf, exec, timer, to_distribute, distribute,
          to_execute, execute, pc, log, cursor, txs, ticks, faults>>

Waiting == [st |-> "WaitingInstruction"]

Init ==
  /\ discovered = [n \in Nodes |-> <<>>]
  /\ connected = [n \in Nodes |-> {}]
  /\ links = {} /\ dialed = {} /\ net = {}
  /\ pending = [n \in Nodes |-> <<>>]
  /\ conn_events = [n \in Nodes |-> <<>>]
  /\ store = [n \in Nodes |-> [v \in Vids |-> None]]
  /\ shard_buf = [n \in Nodes |-> <<>>]
  /\ exec = [n \in Nodes |-> Waiting]
  /\ timer = [n \in Nodes |-> FALSE]
  /\ to_distribute = [n \in Nodes |-> IF n = Main THEN InitData ELSE <<>>]
  /\ to_execute = [n \in Nodes |-> IF n = Main THEN Program ELSE <<>>]
  /\ distribute = [n \in Nodes |-> FALSE]
  /\ execute = [n \in Nodes |-> FALSE]
  /\ pc = [n \in Nodes |-> "top"]
  /\ log = <<>> /\ txs = {}
  /\ cursor = [n \in Nodes |-> 0]
  /\ ticks = [n \in Nodes |-> 0]
  /\ faults = 0

swarm_vars == <<discovered, connected, links, dialed>>
mock_vars == <<to_distribute, distribute, to_execute, execute>>
env_vars == <<timer, ticks, faults>>

Goto(n, phase) == pc' = [pc EXCEPT ![n] = phase]
Return(n) == Goto(n, "top")
Linked(n, m) == {n, m} \in links
PushFront(q, n, x) == [q EXCEPT ![n] = <<x>> \o q[n]]
Send(from, to, kind, id, val) ==
  IF Linked(from, to)
    THEN net \cup {[from |-> from, to |-> to, kind |-> kind, id |-> id, val |-> val]}
    ELSE net
(* DataDiscoverer::shard_locations                                        *)
ShardLocations(id) == {t.peer : t \in {t \in txs : t.id = id}}

(* get_random_peer: any connected peer, uniformly; none (the empty set   *)
(* of choices) when no peer is connected.                                 *)
get_random_peer(n) == connected[n]

(* Behaviour::inject_peer_discovered.                                     *)
inject_peer_discovered(n, m) ==
  /\ discovered' = PushFront(discovered, n, m)
  /\ UNCHANGED <<connected, links, dialed, pending, conn_events, net, store,
                 shard_buf, exec, timer, to_distribute, distribute, to_execute,
                 execute, pc, log, cursor, txs, ticks, faults>>

(* CombinedBehaviour's handler of MdnsEvent::Discovered (main.rs): each   *)
(* peer of the list is injected; with two nodes the list is the other     *)
(* one.  The swarm calls it between polls; mDNS reports a peer it has not *)
(* reported yet.  The Expired arm calls no method of node::Behaviour that *)
(* changes state (node.rs has only the empty inject_peer_expired).        *)
MdnsDiscovered(n, m) ==
  /\ pc[n] = "top" /\ m # n /\ ~Linked(n, m) /\ <<n, m>> \notin dialed
  /\ \A i \in DOMAIN discovered[n] : discovered[n][i] # m
  /\ inject_peer_discovered(n, m)

(* The dial succeeds; inject_connection_established on both sides with   *)
(* other_established = 0 inserts the peer. A dial of the same pair in the *)
(* other direction is dropped by PeerCondition::Disconnected.             *)
ConnectionEstablished(n, m) ==
  /\ <<n, m>> \in dialed /\ ~Linked(n, m) /\ pc[n] = "top" /\ pc[m] = "top"
  /\ links' = links \cup {{n, m}}
  /\ dialed' = dialed \ {<<n, m>>, <<m, n>>}
  /\ connected' = [connected EXCEPT ![n] = @ \cup {m}, ![m] = @ \cup {n}]
  /\ UNCHANGED <<discovered, pending, conn_events, net, store, shard_buf, exec,
                 timer, to_distribute, distribute, to_execute, execute, pc,
                 log, cursor, txs, ticks, faults>>

(* inject_connection_closed on the other side of a closed connection,    *)
(* called between the polls of that node.                                 *)
ConnectionClosed(n, m) ==
  /\ m \in connected[n] /\ ~Linked(n, m) /\ pc[n] = "top"
  /\ connected' = [connected EXCEPT ![n] = @ \ {m}]
  /\ UNCHANGED <<discovered, links, dialed, pending, conn_events, net, store,
                 shard_buf, exec, timer, to_distribute, distribute, to_execute,
                 execute, pc, log, cursor, txs, ticks, faults>>

(* The handler hands a message over: inject_event pushes it to the front *)
(* of connection_events.                                                  *)
Deliver(msg) ==
  /\ msg \in net /\ pc[msg.to] = "top"
  /\ net' = net \ {msg}
  /\ conn_events' = PushFront(conn_events, msg.to,
                      [peer |-> msg.from, kind |-> msg.kind, id |-> msg.id,
                       val |-> msg.val])
  /\ UNCHANGED <<discovered, connected, links, dialed, pending, store,
                 shard_buf, exec, timer, to_distribute, distribute, to_execute,
                 execute, pc, log, cursor, txs, ticks, faults>>

(* The handler reports a connection error through inject_event.           *)
HandlerError(n, m, kind) ==
  /\ Linked(n, m) /\ faults < MaxFaults /\ pc[n] = "top"
  /\ faults' = faults + 1
  /\ conn_events' = PushFront(conn_events, n,
                      [peer |-> m, kind |-> kind, id |-> None, val |-> None])
  /\ UNCHANGED <<discovered, connected, links, dialed, pending, net, store,
                 shard_buf, exec, timer, to_distribute, distribute, to_execute,
                 execute, pc, log, cursor, txs, ticks>>

TimerFires(n) ==
  /\ ~timer[n] /\ ticks[n] < MaxTicks
  /\ timer' = [timer EXCEPT ![n] = TRUE]
  /\ ticks' = [ticks EXCEPT ![n] = @ + 1]
  /\ UNCHANGED <<discovered, connected, links, dialed, pending, conn_events,
                 net, store, shard_buf, exec, to_distribute, distribute,
                 to_execute, execute, pc, log, cursor, txs, faults>>

(* allow_distribution and allow_execution, called on the main node.      *)
allow_distribution ==
  /\ ~distribute[Main] /\ to_distribute[Main] # <<>>
  /\ distribute' = [distribute EXCEPT ![Main] = TRUE]
  /\ UNCHANGED <<discovered, connected, links, dialed, pending, conn_events,
                 net, store, shard_buf, exec, timer, to_distribute, to_execute,
                 execute, pc, log, cursor, txs, ticks, faults>>

allow_execution ==
  /\ ~execute[Main] /\ to_execute[Main] # <<>>
  /\ execute' = [execute EXCEPT ![Main] = TRUE]
  /\ UNCHANGED <<discovered, connected, links, dialed, pending, conn_events,
                 net, store, shard_buf, exec, timer, to_distribute, distribute,
                 to_execute, pc, log, cursor, txs, ticks, faults>>

-----------------------------------------------------------------------------
(* Behaviour::poll. A phase either returns an action to the swarm, which *)
(* ends the poll (Return), or falls through to the next phase. The poll  *)
(* runs synchronously: the node's swarm calls no handler of it while it  *)
(* runs, so the actions of the swarm on a node wait for pc = "top". The  *)
(* phases after the connection event read and write only the node's own *)
(* state and are one step (pc = "tail").                                  *)

(* Phase 1: dial the oldest discovered peer.                              *)
PollDial(n) ==
  /\ pc[n] = "top" /\ discovered[n] # <<>>
  /\ discovered' = [discovered EXCEPT ![n] = Front(@)]
  /\ dialed' = dialed \cup {<<n, Last(discovered[n])>>}
  /\ UNCHANGED <<connected, links, pending, conn_events, net, store, shard_buf,
                 exec, pc, log, cursor, txs, mock_vars, env_vars>>

(* Phase 2: hand the oldest pending shard request to a handler.           *)
PollNotify(n) ==
  /\ pc[n] = "top" /\ discovered[n] = <<>> /\ pending[n] # <<>>
  /\ LET e == Last(pending[n])
     IN  net' = Send(n, e.to, "Request", e.id, None)
  /\ pending' = [pending EXCEPT ![n] = Front(@)]
  /\ UNCHANGED <<swarm_vars, conn_events, store, shard_buf, exec, pc, log,
                 cursor, txs, mock_vars, env_vars>>

(* Phase 3: the oldest connection event.                                  *)
ConnEvent(n, kinds) ==
  /\ pc[n] = "top" /\ discovered[n] = <<>> /\ pending[n] = <<>>
  /\ conn_events[n] # <<>> /\ Last(conn_events[n]).kind \in kinds
  /\ conn_events' = [conn_events EXCEPT ![n] = Front(@)]

(* Request::Shard: respond on the same connection with data_memory.get.   *)
PollShardRequest(n) ==
  /\ ConnEvent(n, {"Request"})
  /\ LET ev == Last(conn_events[n])
     IN  net' = Send(n, ev.peer, "Response", ev.id, store[n][ev.id])
  /\ UNCHANGED <<swarm_vars, pending, store, shard_buf, exec, pc, log, cursor,
                 txs, mock_vars, env_vars>>

(* Response::Shard: a shard is queued only under an id that already has  *)
(* a queue in incoming_shards_buffer; then the poll goes on.              *)
PollShardResponse(n) ==
  /\ ConnEvent(n, {"Response"})
  /\ LET ev == Last(conn_events[n])
     IN  shard_buf' =
           IF ev.val # None /\ ev.id \in DOMAIN shard_buf[n]
             THEN [shard_buf EXCEPT ![n][ev.id] = <<ev.val>> \o @]
             ELSE shard_buf
  /\ Goto(n, "tail")
  /\ UNCHANGED <<swarm_vars, pending, net, store, exec, log, cursor, txs,
                 mock_vars, env_vars>>

(* Simple::StoreShard: save_shard_locally puts the shard and pushes       *)
(* Stored(id, local peer id).                                             *)
save_shard_locally(n, id, data) ==
  /\ store' = [store EXCEPT ![n][id] = data]
  /\ txs' = txs \cup {[id |-> id, peer |-> n]}

PollStoreShard(n) ==
  /\ ConnEvent(n, {"StoreShard"})
  /\ LET ev == Last(conn_events[n]) IN save_shard_locally(n, ev.id, ev.val)
  /\ Goto(n, "tail")
  /\ UNCHANGED <<swarm_vars, pending, net, shard_buf, exec, log, cursor,
                 mock_vars, env_vars>>

(* Simple::GossipGraph (update_graph of the shared log is a no-op) and    *)
(* ConnectionError::Timeout: the poll goes on.                            *)
PollConnFallThrough(n) ==
  /\ ConnEvent(n, {"Gossip", "Timeout"})
  /\ Goto(n, "tail")
  /\ UNCHANGED <<swarm_vars, pending, net, store, shard_buf, exec, log, cursor,
                 txs, mock_vars, env_vars>>

(* PeerUnsupported and Other: CloseConnection closes the only connection *)
(* to the peer; the messages in flight on it are lost, and this node's   *)
(* inject_connection_closed (remaining_established = 0) removes the peer.*)
PollCloseConnection(n) ==
  /\ ConnEvent(n, {"PeerUnsupported", "Other"})
  /\ LET m == Last(conn_events[n]).peer
     IN  /\ links' = links \ {{n, m}}
         /\ connected' = [connected EXCEPT ![n] = @ \ {m}]
         /\ net' = {x \in net : {x.from, x.to} # {n, m}}
  /\ UNCHANGED <<discovered, dialed, pending, store, shard_buf, exec, pc, log,
                 cursor, txs, mock_vars, env_vars>>

PollNoConnEvent(n) ==
  /\ pc[n] = "top" /\ discovered[n] = <<>> /\ pending[n] = <<>>
  /\ conn_events[n] = <<>>
  /\ Goto(n, "tail")
  /\ UNCHANGED <<swarm_vars, pending, conn_events, net, store, shard_buf, exec,
                 log, cursor, txs, mock_vars, env_vars>>

(* Behaviour::retrieve_from_buf: an operand still None takes the oldest   *)
(* queued shard of its id; an emptied queue is removed.                   *)
RetrieveFromBuf(buf, id, entry) ==
  IF entry # None \/ id \notin DOMAIN buf \/ buf[id] = <<>>
    THEN [buf |-> buf, entry |-> entry]
    ELSE [buf |-> IF Len(buf[id]) = 1
                    THEN [x \in DOMAIN buf \ {id} |-> buf[x]]
                    ELSE [buf EXCEPT ![id] = Front(@)],
          entry |-> Last(buf[id])]

(* The operand slots of an instruction in WaitingData filled from the     *)
(* buffer, first operand first.                                           *)
RECURSIVE FillFromBuf(_, _, _, _)
FillFromBuf(buf, ids, vals, j) ==
  IF j > Len(ids) THEN [buf |-> buf, vals |-> vals]
  ELSE LET r == RetrieveFromBuf(buf, ids[j], vals[j])
       IN  FillFromBuf(r.buf, ids, [vals EXCEPT ![j] = r.entry], j + 1)

(* Behaviour::place_data_request for each missing operand, first operand *)
(* first: a request to every peer holding the id is pushed to the front  *)
(* of pending_handler_events.                                             *)
Requests(n, ids) ==
  LET missing == SelectSeq(ids, LAMBDA id : store[n][id] = None)
      reqs(id) == SetToSeq({[to |-> p, id |-> id] : p \in ShardLocations(id)})
  IN  FoldLeft(LAMBDA acc, id : Reverse(reqs(id)) \o acc, <<>>, missing)

(* The part of node n's state that phase 5 reads and writes.              *)
ExecView(n) ==
  [exec |-> exec[n], buf |-> shard_buf[n], store |-> store[n],
   pending |-> pending[n], cursor |-> cursor[n]]

ExecWaitingData(v) ==
  LET f     == FillFromBuf(v.buf, v.exec.ids, v.exec.vals, 1)
      ready == \A j \in DOMAIN f.vals : f.vals[j] # None
      dest  == v.exec.dest
  IN  [v EXCEPT !.buf = f.buf,
                !.exec = IF ready THEN Waiting ELSE [v.exec EXCEPT !.vals = f.vals],
                !.store = IF ready /\ v.store[dest] = None
                            THEN [v.store EXCEPT ![dest] =
                                    [op |-> v.exec.op, args |-> f.vals]]
                            ELSE v.store]

(* Fault: the consensus cursor is advanced twice per instruction.         *)
ExecNextInstructionSkip(n, v) ==
  LET ins  == log[v.cursor + 1]
      vals == [j \in DOMAIN ins.args |-> v.store[ins.args[j]]]
  IN  [v EXCEPT !.cursor = @ + 2,
                !.exec = [st |-> "WaitingData", ids |-> ins.args, vals |-> vals,
                          dest |-> ins.dest, op |-> ins.op]]

(* Phase 5 in WaitingInstruction: take the next instruction, look up its *)
(* operands in local data memory (an Or is built as an And), place the    *)
(* requests for the missing ones and wait for data, unless a missing      *)
(* operand has no known holder: then the instruction is skipped, with the *)
(* requests already placed left in place.                                 *)
ExecNextInstruction(n, v) ==
  LET ins     == log[v.cursor + 1]
      vals    == [j \in DOMAIN ins.args |-> v.store[ins.args[j]]]
      missing == {ins.args[j] : j \in {j \in DOMAIN vals : vals[j] = None}}
  IN  [v EXCEPT !.cursor = @ + 1,
                !.pending = Requests(n, ins.args) \o @,
                !.exec = IF \A id \in missing : ShardLocations(id) # {}
                           THEN [st |-> "WaitingData", ids |-> ins.args,
                                 vals |-> vals, dest |-> ins.dest,
                                 op |-> IF ins.op = "Not" THEN "Not" ELSE "And"]
                           ELSE @]

ExecPhase(n) ==
  LET v == ExecView(n)
  IN  CASE v.exec.st = "WaitingData"  -> ExecWaitingData(v)
        [] v.cursor < Len(log)        -> ExecNextInstruction(n, v)
        [] OTHER                      -> v

(* Phase 6: once execution is allowed, every queued instruction is pushed *)
(* to consensus, oldest first.                                            *)
PushInstructions(n) ==
  /\ log' = IF execute[n] THEN log \o to_execute[n] ELSE log
  /\ to_execute' = [to_execute EXCEPT ![n] = IF execute[n] THEN <<>> ELSE @]
  /\ execute' = [execute EXCEPT ![n] = FALSE]

(* Fault: the distribute flag is left set once the list is empty.        *)
DistributeNeverDone(n, mem) ==
  LET id == Head(to_distribute[n])
  IN  /\ UNCHANGED distribute
      /\ \/ /\ distribute[n] /\ to_distribute[n] # <<>>
            /\ \E p \in get_random_peer(n) :
                 /\ txs' = txs \cup {[id |-> id, peer |-> p]}
                 /\ net' = Send(n, p, "StoreShard", id, Orig(id))
            /\ to_distribute' = [to_distribute EXCEPT ![n] = Tail(@)]
            /\ store' = [store EXCEPT ![n] = mem]
         \/ /\ distribute[n] /\ to_distribute[n] # <<>> /\ get_random_peer(n) = {}
            /\ store' = [store EXCEPT ![n] = [mem EXCEPT ![id] = Orig(id)]]
            /\ txs' = txs \cup {[id |-> id, peer |-> n]}
            /\ to_distribute' = [to_distribute EXCEPT ![n] = Tail(@)]
            /\ UNCHANGED net
         \/ /\ \/ ~distribute[n]
               \/ to_distribute[n] = <<>>
            /\ store' = [store EXCEPT ![n] = mem]
            /\ UNCHANGED <<net, txs, to_distribute>>

(* Phase 7: distribution of the initial data, over node n's data memory   *)
(* as phase 5 left it. With a random connected peer the next datum is     *)
(* announced as Stored(id, peer) and then sent to it; with none it is     *)
(* saved locally; an empty list ends the distribution.                    *)
Distribute(n, mem) ==
  LET id == Head(to_distribute[n])
  IN  \/ /\ distribute[n] /\ to_distribute[n] # <<>>
         /\ \E p \in get_random_peer(n) :
              /\ txs' = txs \cup {[id |-> id, peer |-> p]}
              /\ net' = Send(n, p, "StoreShard", id, Orig(id))
         /\ to_distribute' = [to_distribute EXCEPT ![n] = Tail(@)]
         /\ store' = [store EXCEPT ![n] = mem]
         /\ UNCHANGED distribute
      \/ /\ distribute[n] /\ to_distribute[n] # <<>> /\ get_random_peer(n) = {}
         /\ store' = [store EXCEPT ![n] = [mem EXCEPT ![id] = Orig(id)]]
         /\ txs' = txs \cup {[id |-> id, peer |-> n]}
         /\ to_distribute' = [to_distribute EXCEPT ![n] = Tail(@)]
         /\ UNCHANGED <<net, distribute>>
      \/ /\ distribute[n] /\ to_distribute[n] = <<>>
         /\ distribute' = [distribute EXCEPT ![n] = FALSE]
         /\ store' = [store EXCEPT ![n] = mem]
         /\ UNCHANGED <<net, txs, to_distribute>>
      \/ /\ ~distribute[n]
         /\ store' = [store EXCEPT ![n] = mem]
         /\ UNCHANGED <<net, txs, to_distribute, distribute>>

(* Phase 4, the gossip timer: when it has elapsed it is re-armed, and     *)
(* with a random connected peer the graph is sent to it, ending the poll. *)
PollGossip(n) ==
  /\ pc[n] = "tail" /\ timer[n] /\ get_random_peer(n) # {}
  /\ timer' = [timer EXCEPT ![n] = FALSE]
  /\ \E p \in get_random_peer(n) : net' = Send(n, p, "Gossip", None, None)
  /\ Return(n)
  /\ UNCHANGED <<swarm_vars, pending, conn_events, store, shard_buf, exec, log,
                 cursor, txs, mock_vars, ticks, faults>>

(* Phases 4 to 7 when no gossip is sent: the poll runs to Poll::Pending.  *)
PollTail(n) ==
  /\ pc[n] = "tail" /\ ~(timer[n] /\ get_random_peer(n) # {})
  /\ timer' = [timer EXCEPT ![n] = FALSE]
  /\ LET v == ExecPhase(n)
     IN  /\ exec' = [exec EXCEPT ![n] = v.exec]
         /\ shard_buf' = [shard_buf EXCEPT ![n] = v.buf]
         /\ pending' = [pending EXCEPT ![n] = v.pending]
         /\ cursor' = [cursor EXCEPT ![n] = v.cursor]
         /\ PushInstructions(n)
         /\ Distribute(n, v.store)
  /\ Return(n)
  /\ UNCHANGED <<swarm_vars, conn_events, ticks, faults>>

PollStep(n) ==
  \/ PollDial(n) \/ PollNotify(n) \/ PollShardRequest(n)
  \/ PollShardResponse(n) \/ PollStoreShard(n) \/ PollConnFallThrough(n)
  \/ PollCloseConnection(n) \/ PollNoConnEvent(n)
  \/ PollGossip(n) \/ PollTail(n)

ConnectionErrors == {"PeerUnsupported", "Timeout", "Other"}

Environment ==
  \/ \E n, m \in Nodes : MdnsDiscovered(n, m)
  \/ \E n, m \in Nodes : ConnectionEstablished(n, m) \/ ConnectionClosed(n, m)
  \/ \E msg \in net : Deliver(msg)
  \/ \E n, m \in Nodes, k \in ConnectionErrors : HandlerError(n, m, k)
  \/ \E n \in Nodes : TimerFires(n)
  \/ allow_distribution \/ allow_execution

Next == (\E n \in Nodes : PollStep(n)) \/ Environment

(* The swarm polls the behaviour again whenever it is woken, and the     *)
(* Mdns behaviour composed with it in main.rs keeps its own timers on the *)
(* same task, so the task is woken periodically (the gossip timer alone   *)
(* would not do: an elapsed Delay is replaced by one not yet polled); the *)
(* swarm reports a closed connection to the behaviour; the transport      *)
(* delivers what is sent on an open connection.                           *)
Fairness ==
  /\ \A n \in Nodes : WF_vars(PollStep(n))
  /\ WF_vars(\E n, m \in Nodes : ConnectionClosed(n, m))
  /\ WF_vars(\E msg \in net : Deliver(msg))

Spec == Init /\ [][Next]_vars /\ Fairness

-----------------------------------------------------------------------------
TypeOK ==
  /\ \A n \in Nodes : connected[n] \subseteq Nodes \ {n}
  /\ pc \in [Nodes -> {"top", "tail"}]
  /\ \A n \in Nodes : exec[n].st \in {"WaitingInstruction", "WaitingData"}
  /\ \A n \in Nodes : cursor[n] \in 0..Len(log)
  /\ \A n \in Nodes : \A i \in DOMAIN pending[n] :
        pending[n][i].to \in Nodes /\ pending[n][i].id \in Vids
  /\ \A t \in txs : t.id \in Vids /\ t.peer \in Nodes

(* Spec section 8, invariant 2: whenever a Stored(id, peer) transaction   *)
(* is in consensus, that peer's data memory holds the shard.              *)
StoredImpliesHeld == \A t \in txs : store[t.peer][t.id] # None

(* An instruction that a node takes from consensus and waits data for is *)
(* eventually executed, and the node takes the next one.                  *)
InstructionCompletes ==
  \A n \in Nodes : exec[n].st = "WaitingData" ~> exec[n].st = "WaitingInstruction"

(* Once the main node is allowed to distribute, distribution ends: every *)
(* datum is popped and the flag cleared, through connections opening and  *)
(* closing and polls that return early in phases 1 to 4.                  *)
DistributionCompletes ==
  distribute[Main] ~> (~distribute[Main] /\ to_distribute[Main] = <<>>)
=============================================================================
