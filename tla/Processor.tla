------------------------------ MODULE Processor -----------------------------
(***************************************************************************)
(* The run loop of the shard processor, ShardProcessor::run in            *)
(* src/processor/single_threaded.rs: a select between the input queue and *)
(* the shutdown token; an Execute is executed to completion (its awaits   *)
(* on the memory bus do not observe the token) and FinishedExecution is   *)
(* sent with an awaiting send before the next select.                     *)
(*                                                                         *)
(* The execution itself (operand fetch, the field operations, the write-  *)
(* back) is one step here; its effect on shards is modelled in module     *)
(* ShardExecution.                                                         *)
(***************************************************************************)
EXTENDS Channels

VARIABLES
  proc_pc,       \* "select", "executing", "sending" or "resetting"
  proc_program   \* the program id being executed (0 when none)

processor_vars == <<proc_pc, proc_program>>

(* The select picks the Execute branch: the state becomes Executing only  *)
(* now, when the task has taken the message off its queue.                *)
ProcRecvExecute ==
  /\ proc_pc = "select"
  /\ "processor" \notin closed
  /\ RecvReady("processor_in")
  /\ processor_state' = "Executing"
  /\ proc_program' = Head(chan["processor_in"]).pid
  /\ proc_pc' = "executing"
  /\ chan' = Dequeue("processor_in")
  /\ UNCHANGED <<closed, shutdown>>

(* self.execute(instructions, program_id).await                           *)
ProcExecute ==
  /\ proc_pc = "executing"
  /\ proc_pc' = "sending"
  /\ UNCHANGED <<chan, closed, shutdown, processor_state, proc_program>>

(* output.send(FinishedExecution).await completes once the queue has      *)
(* room.  The state is still Executing: the orchestrator may handle the   *)
(* FinishedExecution before the task resets it.                           *)
ProcSendFinished ==
  /\ proc_pc = "sending"
  /\ Len(chan["processor_out"]) < Capacity
  /\ chan' = Enqueue("processor_out", Msg("FinishedExecution", NoKey, NoPeer, proc_program))
  /\ proc_pc' = "resetting"
  /\ proc_program' = 0
  /\ UNCHANGED <<closed, shutdown, processor_state>>

(* connection.set_state(ModuleState::Ready), a step of its own after the  *)
(* send; it wakes no task.                                                *)
ProcSetReady ==
  /\ proc_pc = "resetting"
  /\ processor_state' = "Ready"
  /\ proc_pc' = "select"
  /\ UNCHANGED <<chan, closed, shutdown, proc_program>>

(* The select picks the cancellation branch: the task returns and drops   *)
(* its halves of the channel.                                             *)
ProcShutdown ==
  /\ proc_pc = "select"
  /\ "processor" \notin closed
  /\ shutdown
  /\ closed' = closed \cup {"processor"}
  /\ UNCHANGED <<chan, shutdown, processor_state, proc_pc, proc_program>>

ProcessorStep ==
  ProcRecvExecute \/ ProcExecute \/ ProcSendFinished \/ ProcSetReady \/ ProcShutdown
=============================================================================
