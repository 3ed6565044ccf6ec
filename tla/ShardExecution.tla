--------------------------- MODULE ShardExecution ---------------------------
(***************************************************************************)
(* The execution of one program by the shard processor:                   *)
(* ShardProcessor::execute, prepare_context, retrieve_operands and        *)
(* calculate in src/processor/single_threaded.rs, over the Instruction    *)
(* and Operation types of src/processor/instruction.rs.                   *)
(*                                                                         *)
(* The memory bus is the local data memory. Data memory is a task of its  *)
(* own: while the processor awaits, it may store shards it was sent       *)
(* (RemoteStore), take the next write off the buffered writes channel     *)
(* (DataMemoryStore) or exit and drop both bus channels with the writes   *)
(* still buffered in them (DataMemoryExit).                               *)
(* Every await on the bus is a step: each prefetch, each instruction      *)
(* (its one or two reads, joined, are one step) and each write-back.      *)
(* HashSet and HashMap iteration order is unspecified, so the prefetch    *)
(* and the write-back take their ids in any order.                        *)
(***************************************************************************)
EXTENDS Integers, Sequences, FiniteSets, Bitwise, TLC

CONSTANTS
  Vids,       \* the data ids a program names
  Bytes,      \* the byte values a shard holds, closed under XOR
  ShardLen,   \* bytes per shard
  Programs,   \* the programs to execute: sequences of instructions
  None,       \* the memory holds no shard under an id
  MaxStores,  \* stores data memory performs during one execution
  WritesCapacity \* the buffer of the bounded writes channel

ASSUME WritesCapacity \in Nat \ {0}

Shards == [1..ShardLen -> Bytes]

(* An instruction: its operation, its operand ids in order, its result.  *)
Instructions == [op : {"Sub", "Plus", "Inv", "Nand", "Nor"},
                 args : Seq(Vids), result : Vids]

Errors == {"NoShardsAssigned", "DataRequestChannelClosed",
           "DataWriteChannelClosed"}

VARIABLES
  memory,      \* data memory: id -> shard or None
  bus_closed,  \* data memory has exited, the bus channels are closed
  writes,      \* the writes channel: a FIFO of [id, shard] sent, not stored
  program,     \* the instructions being executed
  pc,          \* "prepare", "run", "writeback" or "done"
  to_fetch,    \* prefetch ids not yet requested
  context,     \* the HashMap Vid -> Shard
  ip,          \* index of the next instruction
  results,     \* Vec<Result<Vid, Error>>: a Vid or an error name
  to_store,    \* write-back ids not yet stored
  stores,      \* stores data memory has performed
  mem0,        \* history: memory when execution began
  last_store   \* history: the last shard data memory stored under an id

vars == <<memory, bus_closed, writes, program, pc, to_fetch, context, ip, results,
          to_store, stores, mem0, last_store>>

(* Operation::args_as_list, collected into the HashSet of needed ids.    *)
NeededIds(prog) ==
  UNION {{prog[i].args[j] : j \in DOMAIN prog[i].args} : i \in DOMAIN prog}

(* ShardProcessor::calculate: Sub and Plus are GF(2^8) addition, which is *)
(* XOR; Inv is the identity; Nand and Nor act on the zeroness of bytes.   *)
Calculate(op, vals) ==
  [i \in 1..ShardLen |->
     CASE op \in {"Sub", "Plus"} -> vals[1][i] ^^ vals[2][i]
       [] op = "Inv"  -> vals[1][i]
       [] op = "Nand" -> IF vals[1][i] # 0 /\ vals[2][i] # 0 THEN 0 ELSE 1
       [] op = "Nor"  -> IF vals[1][i] # 0 \/ vals[2][i] # 0 THEN 0 ELSE 1]

(* MemoryBus::retrieve_local_shard: the request goes out on the reads     *)
(* channel and data memory answers on a oneshot with the shard it holds,  *)
(* or None.  On the closed bus the send fails (DataRequestChannelClosed). *)
(* The request and its answer are one step.                               *)
retrieve_local_shard(id) ==
  [ok |-> ~bus_closed, shard |-> memory[id]]

(* MemoryBus::store_local_shard: `writes.send(..).await` waits while the  *)
(* channel is full and returns Ok once the shard is buffered; data memory *)
(* stores it later.  On the closed bus the send fails.                    *)
CanSend == bus_closed \/ Len(writes) < WritesCapacity

store_local_shard(id, s) ==
  [ok |-> ~bus_closed,
   writes |-> IF bus_closed THEN writes ELSE Append(writes, [id |-> id, shard |-> s])]

(* retrieve_operand for each argument: the context is preferred, else the *)
(* bus is read.                                                           *)
Retrieved(args) ==
  [j \in DOMAIN args |->
     IF args[j] \in DOMAIN context THEN context[args[j]]
     ELSE retrieve_local_shard(args[j]).shard]

(* retrieve_binary / retrieve_unary then retrieve_operands: a read on the *)
(* closed bus is an error returned by `?` before an absent shard (None)   *)
(* becomes NoShardsAssigned.                                              *)
RetrieveOutcome(args) ==
  LET fetched == {args[j] : j \in DOMAIN args} \ DOMAIN context
  IN  IF \E v \in fetched : ~retrieve_local_shard(v).ok
        THEN "DataRequestChannelClosed"
      ELSE IF \E j \in DOMAIN args : Retrieved(args)[j] = None
        THEN "NoShardsAssigned"
      ELSE "Ok"

-----------------------------------------------------------------------------
(* MockProcessor::execute_on (src/processor/mock.rs), the test double of *)
(* the processor: instructions read and write one storage map; the first *)
(* missing operand returns DataNotFound through `?`, keeping the results  *)
(* inserted before it.                                                    *)

(* Fault: the NAND closure tests both bytes for zero.                    *)
MockCalculateNandBothZero(op, vals) ==
  [i \in 1..ShardLen |->
     CASE op \in {"Sub", "Plus"} -> vals[1][i] ^^ vals[2][i]
       [] op = "Inv"  -> vals[1][i]
       [] op = "Nand" -> IF vals[1][i] = 0 /\ vals[2][i] = 0 THEN 1 ELSE 0
       [] op = "Nor"  -> IF vals[1][i] = 0 /\ vals[2][i] = 0 THEN 1 ELSE 0]

(* MockProcessor::calculate, written with its own NAND and NOR closures.  *)
MockCalculate(op, vals) ==
  [i \in 1..ShardLen |->
     CASE op \in {"Sub", "Plus"} -> vals[1][i] ^^ vals[2][i]
       [] op = "Inv"  -> vals[1][i]
       [] op = "Nand" -> IF vals[1][i] = 0 \/ vals[2][i] = 0 THEN 1 ELSE 0
       [] op = "Nor"  -> IF vals[1][i] = 0 /\ vals[2][i] = 0 THEN 1 ELSE 0]

RECURSIVE MockExecuteOn(_, _)
MockExecuteOn(prog, storage) ==
  IF prog = <<>> THEN [ok |-> TRUE, storage |-> storage]
  ELSE LET ins == Head(prog)
       IN  IF \E j \in DOMAIN ins.args : storage[ins.args[j]] = None
             THEN [ok |-> FALSE, storage |-> storage]
             ELSE MockExecuteOn(Tail(prog),
                    [storage EXCEPT ![ins.result] =
                       MockCalculate(ins.op, [j \in DOMAIN ins.args |->
                                                storage[ins.args[j]]])])

Init ==
  /\ memory \in [Vids -> Shards \cup {None}]
  /\ bus_closed = FALSE
  /\ writes = <<>>
  /\ program \in Programs
  /\ pc = "prepare"
  /\ to_fetch = NeededIds(program)
  /\ context = <<>>
  /\ ip = 1
  /\ results = <<>>
  /\ to_store = {}
  /\ stores = 0
  /\ mem0 = memory
  /\ last_store = [v \in Vids |-> None]

(* One iteration of the prepare_context loop: a retrieved shard enters    *)
(* the context; a miss or a bus error is ignored.                         *)
Prefetch(id) ==
  /\ pc = "prepare"
  /\ id \in to_fetch
  /\ to_fetch' = to_fetch \ {id}
  /\ LET r == retrieve_local_shard(id)
     IN  context' = IF r.ok /\ r.shard # None
                      THEN context @@ (id :> r.shard) ELSE context
  /\ UNCHANGED <<memory, bus_closed, writes, program, pc, ip, results, to_store,
                 stores, mem0, last_store>>

PrefetchDone ==
  /\ pc = "prepare"
  /\ to_fetch = {}
  /\ pc' = "run"
  /\ UNCHANGED <<memory, bus_closed, writes, program, to_fetch, context, ip, results,
                 to_store, stores, mem0, last_store>>

(* Fault: the output is pushed as Ok but not inserted into the context,  *)
(* so later instructions and the write-back never see it.                *)
ExecInstructionNoInsert ==
  /\ pc = "run"
  /\ ip <= Len(program)
  /\ LET out == RetrieveOutcome(program[ip].args)
     IN  results' = Append(results, IF out = "Ok" THEN program[ip].result ELSE out)
  /\ ip' = ip + 1
  /\ UNCHANGED <<memory, bus_closed, writes, program, pc, to_fetch, context, to_store,
                 stores, mem0, last_store>>

(* One iteration of the instruction loop of execute: an error is pushed   *)
(* and the loop continues; otherwise the output is inserted into the      *)
(* context and Ok(result_id) pushed.                                      *)
ExecInstruction ==
  /\ pc = "run"
  /\ ip <= Len(program)
  /\ LET ins  == program[ip]
         vals == Retrieved(ins.args)
         out  == RetrieveOutcome(ins.args)
     IN  IF out = "Ok"
           THEN /\ context' = [v \in DOMAIN context \cup {ins.result} |->
                                 IF v = ins.result THEN Calculate(ins.op, vals)
                                 ELSE context[v]]
                /\ results' = Append(results, ins.result)
           ELSE /\ results' = Append(results, out)
                /\ UNCHANGED context
  /\ ip' = ip + 1
  /\ UNCHANGED <<memory, bus_closed, writes, program, pc, to_fetch, to_store, stores,
                 mem0, last_store>>

(* Fault: the write-back iterates the needed operand ids instead of the  *)
(* context.                                                               *)
RunDoneNeededIds ==
  /\ pc = "run"
  /\ ip > Len(program)
  /\ pc' = "writeback"
  /\ to_store' = NeededIds(program)
  /\ UNCHANGED <<memory, bus_closed, writes, program, to_fetch, context, ip, results,
                 stores, mem0, last_store>>

(* The instruction loop ends; the write-back iterates the whole context.  *)
RunDone ==
  /\ pc = "run"
  /\ ip > Len(program)
  /\ pc' = "writeback"
  /\ to_store' = DOMAIN context
  /\ UNCHANGED <<memory, bus_closed, writes, program, to_fetch, context, ip, results,
                 stores, mem0, last_store>>

(* store_local_shard for one context entry, awaited until the channel    *)
(* has room; a closed write channel appends Err(DataWriteChannelClosed)  *)
(* to the results.                                                        *)
WriteBack(id) ==
  /\ pc = "writeback"
  /\ id \in to_store
  /\ CanSend
  /\ to_store' = to_store \ {id}
  /\ LET r == store_local_shard(id, context[id])
     IN  /\ writes' = r.writes
         /\ results' = IF r.ok THEN results
                       ELSE Append(results, "DataWriteChannelClosed")
  /\ UNCHANGED <<memory, bus_closed, program, pc, to_fetch, context, ip, stores,
                 mem0, last_store>>

(* execute returns its results.                                          *)
WriteBackDone ==
  /\ pc = "writeback"
  /\ to_store = {}
  /\ pc' = "done"
  /\ UNCHANGED <<memory, bus_closed, writes, program, to_fetch, context, ip, results,
                 to_store, stores, mem0, last_store>>

(* Data memory, concurrently, stores a shard it was sent for an id.       *)
RemoteStore(id, s) ==
  /\ pc # "done"
  /\ ~bus_closed
  /\ stores < MaxStores
  /\ memory' = [memory EXCEPT ![id] = s]
  /\ last_store' = [last_store EXCEPT ![id] = s]
  /\ stores' = stores + 1
  /\ UNCHANGED <<bus_closed, writes, program, pc, to_fetch, context, ip, results,
                 to_store, mem0>>

(* Data memory takes the oldest buffered write off the writes channel     *)
(* and stores it; it keeps doing so after execute has returned.           *)
DataMemoryStore ==
  /\ ~bus_closed
  /\ writes # <<>>
  /\ memory' = [memory EXCEPT ![Head(writes).id] = Head(writes).shard]
  /\ writes' = Tail(writes)
  /\ UNCHANGED <<bus_closed, program, pc, to_fetch, context, ip, results,
                 to_store, stores, mem0, last_store>>

(* Data memory's task returns (shutdown): both bus channels close, and    *)
(* the writes still buffered in the dropped receiver are never stored.    *)
DataMemoryExit ==
  /\ pc # "done"
  /\ ~bus_closed
  /\ bus_closed' = TRUE
  /\ writes' = <<>>
  /\ UNCHANGED <<memory, program, pc, to_fetch, context, ip, results,
                 to_store, stores, mem0, last_store>>

Next ==
  \/ \E id \in Vids : Prefetch(id)
  \/ PrefetchDone
  \/ ExecInstruction
  \/ RunDone
  \/ \E id \in Vids : WriteBack(id)
  \/ WriteBackDone
  \/ \E id \in Vids, s \in Shards : RemoteStore(id, s)
  \/ DataMemoryStore
  \/ DataMemoryExit

Spec == Init /\ [][Next]_vars

-----------------------------------------------------------------------------
(* The reference: instructions run one after the other over a store,     *)
(* each reading the values the earlier ones left; an instruction with an  *)
(* absent operand records NoShardsAssigned and changes nothing.           *)
RECURSIVE RefRun(_, _, _)
RefRun(prog, store, res) ==
  IF prog = <<>> THEN [store |-> store, results |-> res]
  ELSE LET ins  == Head(prog)
           vals == [j \in DOMAIN ins.args |-> store[ins.args[j]]]
       IN  IF \E j \in DOMAIN vals : vals[j] = None
             THEN RefRun(Tail(prog), store, Append(res, "NoShardsAssigned"))
             ELSE RefRun(Tail(prog),
                         [store EXCEPT ![ins.result] = Calculate(ins.op, vals)],
                         Append(res, ins.result))

Interfered == \E v \in Vids : last_store[v] # None

TypeOK ==
  /\ memory \in [Vids -> Shards \cup {None}]
  /\ writes \in Seq([id : Vids, shard : Shards]) /\ Len(writes) <= WritesCapacity
  /\ pc \in {"prepare", "run", "writeback", "done"}
  /\ to_fetch \subseteq Vids /\ to_store \subseteq DOMAIN context
  /\ DOMAIN context \subseteq Vids
  /\ \A v \in DOMAIN context : context[v] \in Shards
  /\ results \in Seq(Vids \cup Errors)
  /\ ip \in 1..Len(program) + 1

(* execute, with its context prefetch, its context-first operand reads    *)
(* and its write-back of the whole context, computes what running the     *)
(* instructions one after the other computes: when neither a concurrent   *)
(* store nor a closed bus intervened, the returned results, and the data  *)
(* memory once it has stored every buffered write, are the reference's.   *)
SequentialSemantics ==
  (pc = "done" /\ writes = <<>> /\ ~Interfered /\ ~bus_closed) =>
     LET ref == RefRun(program, mem0, <<>>)
     IN  memory = ref.store /\ results = ref.results

(* The mock processor of mock.rs computes what the processor computes:   *)
(* when execute returns with every instruction Ok (no concurrent store,   *)
(* bus open, buffered writes stored), execute_on over the same storage    *)
(* succeeds and leaves the same shards.                                   *)
MockAgrees ==
  (pc = "done" /\ writes = <<>> /\ ~Interfered /\ ~bus_closed
     /\ \A i \in DOMAIN results : results[i] \in Vids) =>
     MockExecuteOn(program, mem0) = [ok |-> TRUE, storage |-> memory]

(* A shard that data memory stores during an execution under an id the    *)
(* program does not compute is still stored when execute returns: the     *)
(* write-back does not put back an operand value it prefetched earlier.   *)
NoRevertedStore ==
  pc = "done" =>
    \A v \in Vids \ {program[i].result : i \in DOMAIN program} :
       last_store[v] # None => memory[v] = last_store[v]
=============================================================================
