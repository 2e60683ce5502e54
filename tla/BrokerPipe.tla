----------------------------- MODULE BrokerPipe -----------------------------
(***************************************************************************)
(* The PAIR socket between the manager (Dispatcher) and the Broker.  Each  *)
(* direction is a FIFO queue.  ZeroMQ blocks a sender whose queue is at    *)
(* its high-water mark; neither side changes the default mark, PipeHwm.    *)
(***************************************************************************)
EXTENDS Integers, Sequences

CONSTANT PipeHwm        \* messages a direction of the PAIR holds before send blocks

ASSUME PipeHwmAssumption == PipeHwm \in Nat \ {0}

VARIABLES
    taskPipe,           \* manager -> broker: the serialized task::Task messages
    replyPipe           \* broker -> manager: the ids (task::TaskId) of computed tasks

pipeVars == <<taskPipe, replyPipe>>

PipeInit ==
    /\ taskPipe = <<>>
    /\ replyPipe = <<>>

(* manager_connection.send with send_flags::none: waits for room. *)
SendOnTaskPipe(task) ==
    /\ Len(taskPipe) < PipeHwm
    /\ taskPipe' = Append(taskPipe, task)

SendOnReplyPipe(id) ==
    /\ Len(replyPipe) < PipeHwm
    /\ replyPipe' = Append(replyPipe, id)
=============================================================================
