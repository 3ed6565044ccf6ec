--------------------------- MODULE ConsensusGraph ---------------------------
(***************************************************************************)
(* The consensus wrapper (src/consensus/graph.rs, GraphWrapper) of every   *)
(* peer of a cluster, and the gossip of sync batches between them.         *)
(*                                                                         *)
(* Each peer keeps its own copy of the event DAG (the hashgraph `inner`)   *)
(* and a `transaction_buffer` of transactions scheduled since its last     *)
(* authored event.  A sync is the list of events the sender has and the    *)
(* receiver lacked when the sync was generated, in topological order.      *)
(* Events are immutable: the global function `dag` records every event     *)
(* ever authored, and a peer's graph is the set of ids it has pushed.      *)
(*                                                                         *)
(* The DAG library (rust_hashgraph: push_event, create_event,              *)
(* peer_latest_event) and the consensus task's loop (ScheduleTx,           *)
(* GenerateSyncRequest) are not in this repository; they are modelled      *)
(* from their interface in the spec.  The finality order itself belongs  *)
(* to the library: its next_event is modelled by how many events of the  *)
(* graph it has yielded; which ones is the library's business.            *)
(***************************************************************************)
EXTENDS Naturals, FiniteSets, Sequences, TLC

CONSTANTS
  Peers,        \* the peers of the cluster
  Txs,          \* transactions; each is scheduled at most once, at one peer
  MaxSeq,       \* bound: events a peer may author after its genesis event
  MaxInFlight   \* bound: sync messages in flight at once

ASSUME MaxSeq \in Nat /\ MaxInFlight \in Nat \ {0}

VARIABLES
  dag,                \* event id -> event record, for every event authored
  known,              \* peer -> ids of the events in its graph
  transaction_buffer, \* peer -> transactions scheduled, not yet cleared
  scheduled,          \* peer -> transactions ever scheduled there (history)
  net,                \* set of sync messages in flight
  clock,              \* creation stamp of the next event (topological key)
  state_updated,      \* peer -> the Notify holds its single permit
  yielded             \* peer -> number of events the stream has yielded

vars == <<dag, known, transaction_buffer, scheduled, net, clock,
          state_updated, yielded>>

(* An event is named by its creator and its position in the creator's     *)
(* self-chain; position 0 is the genesis event.                           *)
EventIds == Peers \X (0..MaxSeq)
NoEvent  == <<"none", 0>>

Event == [creator: Peers, seq: 0..MaxSeq, other_parent: EventIds \cup {NoEvent},
          payload: SUBSET Txs, stamp: Nat]

SyncMsg == [from: Peers, to: Peers, jobs: Seq(EventIds)]

SelfParent(id) == IF id[2] = 0 THEN NoEvent ELSE <<id[1], id[2] - 1>>

Parents(id) == {SelfParent(id), dag[id].other_parent} \ {NoEvent}

(* peer_latest_event(of): the newest event of `of` in graph g, if any.    *)
PeerLatestEvent(g, of) ==
  IF \E id \in g : id[1] = of
  THEN CHOOSE id \in g : id[1] = of /\ \A j \in g : j[1] = of => j[2] <= id[2]
  ELSE NoEvent

(* push_event: accepted iff the event is new and both parents are known.  *)
CanPush(g, id) == id \notin g /\ Parents(id) \subseteq g

(* The for-loop of apply_sync: push the jobs in order; the first rejected *)
(* push returns the error (`?`), leaving the events pushed before it.     *)
RECURSIVE PushJobs(_, _)
PushJobs(g, jobs) ==
  IF jobs = <<>> THEN [graph |-> g, ok |-> TRUE]
  ELSE IF CanPush(g, Head(jobs)) THEN PushJobs(g \cup {Head(jobs)}, Tail(jobs))
       ELSE [graph |-> g, ok |-> FALSE]

(* A set of event ids listed in increasing creation stamp: a topological  *)
(* linearization, as the sender's Jobs are.                               *)
RECURSIVE SortByStamp(_)
SortByStamp(S) ==
  IF S = {} THEN <<>>
  ELSE LET first == CHOOSE id \in S : \A j \in S : dag[id].stamp <= dag[j].stamp
       IN  <<first>> \o SortByStamp(S \ {first})

(* Fault: the author's next position is counted from all events of its   *)
(* graph instead of from its own latest event.                            *)
NewEventBySize(p, g, payload, other) ==
  LET id == <<p, Cardinality(g)>>
  IN  [id |-> id,
       rec |-> [creator |-> p, seq |-> id[2], other_parent |-> other,
                payload |-> payload, stamp |-> clock]]

(* create_event(payload, other_parent): append to the author's chain.     *)
NewEvent(p, g, payload, other) ==
  LET id == <<p, PeerLatestEvent(g, p)[2] + 1>>
  IN  [id |-> id,
       rec |-> [creator |-> p, seq |-> id[2], other_parent |-> other,
                payload |-> payload, stamp |-> clock]]

CanAuthor(p) == PeerLatestEvent(known[p], p)[2] < MaxSeq

-----------------------------------------------------------------------------
Init ==
  /\ dag = [id \in {<<p, 0>> : p \in Peers} |->
              [creator |-> id[1], seq |-> 0, other_parent |-> NoEvent,
               payload |-> {}, stamp |-> 0]]
  /\ known = [p \in Peers |-> {<<p, 0>>}]
  /\ transaction_buffer = [p \in Peers |-> {}]
  /\ scheduled = [p \in Peers |-> {}]
  /\ net = {}
  /\ clock = 1
  /\ state_updated = [p \in Peers |-> FALSE]
  /\ yielded = [p \in Peers |-> 0]

(* notify_one with no task waiting: the permit is stored (one at most).  *)
Notify(p) == state_updated' = [state_updated EXCEPT ![p] = TRUE]

(* InEvent::ScheduleTx(tx): append to the buffer, author nothing.         *)
ScheduleTx(p, tx) ==
  /\ tx \notin UNION {scheduled[q] : q \in Peers}
  /\ transaction_buffer' = [transaction_buffer EXCEPT ![p] = @ \cup {tx}]
  /\ scheduled' = [scheduled EXCEPT ![p] = @ \cup {tx}]
  /\ UNCHANGED <<dag, known, net, clock, state_updated, yielded>>

(* InEvent::GenerateSyncRequest{to}: q sends `to` the events it lacks.    *)
GenerateSync(q, to) ==
  /\ q # to
  /\ Cardinality(net) < MaxInFlight
  /\ net' = net \cup {[from |-> q, to |-> to, jobs |-> SortByStamp(known[q] \ known[to])]}
  /\ UNCHANGED <<dag, known, transaction_buffer, scheduled, clock,
                 state_updated, yielded>>

(* Fault: the buffer is cleared before the early returns of apply_sync.  *)
ApplySyncClearFirst(m) ==
  LET p      == m.to
      pushed == PushJobs(known[p], m.jobs)
      other  == PeerLatestEvent(pushed.graph, m.from)
      new    == NewEvent(p, pushed.graph, transaction_buffer[p], other)
  IN
  /\ m \in net
  /\ CanAuthor(p)
  /\ net' = net \ {m}
  /\ IF m.jobs # <<>> THEN Notify(p) ELSE UNCHANGED state_updated
  /\ transaction_buffer' = [transaction_buffer EXCEPT ![p] = {}]
  /\ IF pushed.ok /\ other # NoEvent
     THEN /\ dag' = dag @@ (new.id :> new.rec)
          /\ known' = [known EXCEPT ![p] = pushed.graph \cup {new.id}]
          /\ clock' = clock + 1
     ELSE /\ known' = [known EXCEPT ![p] = pushed.graph]
          /\ UNCHANGED <<dag, clock>>
  /\ UNCHANGED <<scheduled, yielded>>

(* apply_sync(from, jobs): a non-empty sync signals state_updated first; *)
(* then push the jobs, author an event carrying the buffer whose          *)
(* other-parent is the latest event of `from` after the pushes, and clear *)
(* the buffer.  A rejected push or an unknown `from` returns early: the   *)
(* events pushed so far stay, nothing is authored.  An empty sync signals *)
(* nothing but still authors an event and clears the buffer.             *)
ApplySync(m) ==
  LET p      == m.to
      pushed == PushJobs(known[p], m.jobs)
      other  == PeerLatestEvent(pushed.graph, m.from)
      new    == NewEvent(p, pushed.graph, transaction_buffer[p], other)
  IN
  /\ m \in net
  /\ CanAuthor(p)
  /\ net' = net \ {m}
  /\ IF m.jobs # <<>> THEN Notify(p) ELSE UNCHANGED state_updated
  /\ IF pushed.ok /\ other # NoEvent
     THEN /\ dag' = dag @@ (new.id :> new.rec)
          /\ known' = [known EXCEPT ![p] = pushed.graph \cup {new.id}]
          /\ transaction_buffer' = [transaction_buffer EXCEPT ![p] = {}]
          /\ clock' = clock + 1
     ELSE /\ known' = [known EXCEPT ![p] = pushed.graph]
          /\ UNCHANGED <<dag, transaction_buffer, clock>>
  /\ UNCHANGED <<scheduled, yielded>>

(* create_standalone_event(): signal state_updated, then author an event whose other-parent is the   *)
(* author's own latest event, carrying the buffer.  The buffer is read    *)
(* into the payload and is not cleared.                                   *)
CreateStandaloneEvent(p) ==
  LET new == NewEvent(p, known[p], transaction_buffer[p], PeerLatestEvent(known[p], p))
  IN
  /\ CanAuthor(p)
  /\ dag' = dag @@ (new.id :> new.rec)
  /\ known' = [known EXCEPT ![p] = @ \cup {new.id}]
  /\ clock' = clock + 1
  /\ Notify(p)
  /\ UNCHANGED <<transaction_buffer, scheduled, net, yielded>>

(* A connection closes with a sync still in flight.                       *)
LoseSync(m) ==
  /\ m \in net
  /\ net' = net \ {m}
  /\ UNCHANGED <<dag, known, transaction_buffer, scheduled, clock,
                 state_updated, yielded>>

(* The library's next_event yields each event of the graph at most once; *)
(* it may also yield none, when nothing new is final.                     *)
NextEvent(p) ==
  /\ yielded[p] < Cardinality(known[p])
  /\ yielded' = [yielded EXCEPT ![p] = @ + 1]

(* Fault: the consumed notification is not re-armed.                     *)
PollNextNoRenotify(p) ==
  /\ state_updated[p]
  /\ state_updated' = [state_updated EXCEPT ![p] = FALSE]
  /\ NextEvent(p) \/ UNCHANGED yielded
  /\ UNCHANGED <<dag, known, transaction_buffer, scheduled, net, clock>>

(* Stream::poll_next of the consensus task: the notification future is   *)
(* polled; with the permit it is Ready, the permit is put back            *)
(* (notify_one) and next_event yields an event or Pending.  Without the   *)
(* permit it is Pending, and the future, dropped on return, leaves no     *)
(* waker behind: the step changes nothing.                                *)
PollNext(p) ==
  /\ state_updated[p]
  /\ NextEvent(p)
  /\ UNCHANGED <<dag, known, transaction_buffer, scheduled, net, clock,
                 state_updated>>

Next ==
  \/ \E p \in Peers, tx \in Txs : ScheduleTx(p, tx)
  \/ \E q, to \in Peers : GenerateSync(q, to)
  \/ \E m \in net : ApplySync(m)
  \/ \E p \in Peers : CreateStandaloneEvent(p)
  \/ \E m \in net : LoseSync(m)
  \/ \E p \in Peers : PollNext(p)

Spec == Init /\ [][Next]_vars

-----------------------------------------------------------------------------
TypeOK ==
  /\ DOMAIN dag \subseteq EventIds
  /\ \A id \in DOMAIN dag : dag[id] \in Event
  /\ known \in [Peers -> SUBSET DOMAIN dag]
  /\ transaction_buffer \in [Peers -> SUBSET Txs]
  /\ scheduled \in [Peers -> SUBSET Txs]
  /\ net \subseteq SyncMsg
  /\ clock \in Nat
  /\ state_updated \in [Peers -> BOOLEAN]
  /\ yielded \in [Peers -> Nat]

Embedded(p, tx) == \E id \in DOMAIN dag : id[1] = p /\ tx \in dag[id].payload

(* No scheduled transaction is lost: through every error path of          *)
(* apply_sync (a stale or duplicate push rejected) a transaction          *)
(* scheduled at p is still in p's buffer or carried by an event p         *)
(* authored.                                                              *)
NoTxLost ==
  \A p \in Peers : \A tx \in scheduled[p] :
    tx \in transaction_buffer[p] \/ Embedded(p, tx)

(* The finalized stream never misses an update: once a peer's graph has  *)
(* grown past its genesis event (by a sync or an authored event), the     *)
(* consensus task's next poll_next finds state_updated set.  It holds     *)
(* because apply_sync and create_standalone_event notify before changing  *)
(* the graph and poll_next puts back the permit it consumes (graph.rs    *)
(* 58, 79 and 108); an empty sync authors without notifying, which is     *)
(* harmless only because a peer never receives one before a non-empty one.*)
StreamArmed ==
  \A p \in Peers : known[p] # {<<p, 0>>} => state_updated[p]
=============================================================================
