------------------------------- MODULE Worker -------------------------------
(***************************************************************************)
(* The worker processes.  The main thread of a worker announces its cores, *)
(* then alternates between reading one published task into the thread      *)
(* pool's queue and sending one finished task to the broker.  CoreCount[w] *)
(* pool threads take tasks from the queue, read the operands, calculate,   *)
(* write the result to the database and hand the task id to the main       *)
(* thread.  Every critical section of tasks_m_ and output_m_ is one step;  *)
(* the wait on the condition variable and the notification are separate    *)
(* steps.                                                                  *)
(***************************************************************************)
EXTENDS WorkerSockets, Database, Operations

CONSTANT
    SubscribeFirst              \* TRUE: a subscription reaches the broker before
                                \* the worker announces itself (an assumption on
                                \* ZeroMQ's timing the code does not enforce)

ASSUME WorkerAssumption == SubscribeFirst \in BOOLEAN

VARIABLES
    workerUp,           \* FALSE after an uncaught exception in a thread
    workerPc,           \* the main thread: where it is in Worker::Run
    tasks,              \* ThreadPool::tasks_
    thread,             \* thread[w][k]: ThreadPool::threads_[k] with its locals
    finished            \* Worker::finished_tasks_ (ThreadPool::output_queue_)

workerVars == <<workerUp, workerPc, tasks, thread, finished>>

Threads(w) == 1..CoreCount[w]

Idle == [pc |-> "idle"]     \* about to lock tasks_m_ and test the predicate

Asleep == [pc |-> "asleep"] \* inside condition.wait

WorkerInit ==
    /\ workerUp = [w \in Workers |-> TRUE]
    /\ workerPc = [w \in Workers |-> "start"]
    /\ tasks = [w \in Workers |-> <<>>]
    /\ thread = [w \in Workers |-> [k \in Threads(w) |-> Idle]]
    /\ finished = [w \in Workers |-> <<>>]

-----------------------------------------------------------------------------
(* Worker::New: subscriber.connect returns at once; the publisher learns of  *)
(* the subscription later.                                                   *)
Subscribe(w) ==
    /\ workerUp[w] /\ w \notin subscribed
    /\ subscribed' = subscribed \cup {w}
    /\ UNCHANGED <<pub, dealer, workerVars, db>>

(* Mutant: a worker that has no answer yet may announce itself again.        *)
SendAckMessageAgain(w) ==
    /\ workerUp[w] /\ workerPc[w] = "start"
    /\ SubscribeFirst => w \in subscribed
    /\ dealer' = [dealer EXCEPT ![w] = Append(@,
                    [data |-> "core_count", core_count |-> CoreCount[w] - 1])]
    /\ \E pc \in {"start", "poll"} : workerPc' = [workerPc EXCEPT ![w] = pc]
    /\ UNCHANGED <<subscribed, pub, workerUp, tasks, thread, finished, db>>

(* SendAckMessage: one core is kept for the main thread.                     *)
SendAckMessage(w) ==
    /\ workerUp[w] /\ workerPc[w] = "start"
    /\ SubscribeFirst => w \in subscribed
    /\ dealer' = [dealer EXCEPT ![w] = Append(@,
                    [data |-> "core_count", core_count |-> CoreCount[w] - 1])]
    /\ workerPc' = [workerPc EXCEPT ![w] = "poll"]
    /\ UNCHANGED <<subscribed, pub, workerUp, tasks, thread, finished, db>>

(* Mutant: the identity is not compared.                                     *)
ReadRequestOfAnyone(w) ==
    /\ workerUp[w] /\ workerPc[w] = "poll"
    /\ pub[w] # <<>>
    /\ pub' = [pub EXCEPT ![w] = Tail(@)]
    /\ tasks' = [tasks EXCEPT ![w] = Append(@, Head(pub[w]))]
    /\ workerPc' = [workerPc EXCEPT ![w] = "notify"]
    /\ UNCHANGED <<subscribed, dealer, workerUp, thread, finished, db>>

(* ReadRequest: drop the tasks of other workers, push one's own              *)
(* (ThreadPool::PushTask up to the notification).                            *)
ReadRequest(w) ==
    /\ workerUp[w] /\ workerPc[w] = "poll"
    /\ pub[w] # <<>>
    /\ pub' = [pub EXCEPT ![w] = Tail(@)]
    /\ LET task == Head(pub[w])
       IN  \/ /\ task.identity = w
              /\ tasks' = [tasks EXCEPT ![w] = Append(@, task)]
              /\ workerPc' = [workerPc EXCEPT ![w] = "notify"]
           \/ /\ task.identity # w
              /\ workerPc' = [workerPc EXCEPT ![w] = "output"]
              /\ UNCHANGED tasks
    /\ UNCHANGED <<subscribed, dealer, workerUp, thread, finished, db>>

(* zmq::poll with timeout 0 found nothing.                                   *)
NothingToRead(w) ==
    /\ workerUp[w] /\ workerPc[w] = "poll"
    /\ pub[w] = <<>>
    /\ workerPc' = [workerPc EXCEPT ![w] = "output"]
    /\ UNCHANGED <<socketVars, workerUp, tasks, thread, finished, db>>

Sleeping(w) == {k \in Threads(w) : thread[w][k] = Asleep}

(* Mutant: nobody is notified.                                               *)
NotifyOneForgotten(w) ==
    /\ workerUp[w] /\ workerPc[w] = "notify"
    /\ workerPc' = [workerPc EXCEPT ![w] = "output"]
    /\ UNCHANGED <<socketVars, workerUp, tasks, thread, finished, db>>

(* condition.notify_one, after tasks_m_ was released.                        *)
NotifyOne(w) ==
    /\ workerUp[w] /\ workerPc[w] = "notify"
    /\ \/ /\ Sleeping(w) = {}
          /\ UNCHANGED thread
       \/ \E k \in Sleeping(w) : thread' = [thread EXCEPT ![w][k] = Idle]
    /\ workerPc' = [workerPc EXCEPT ![w] = "output"]
    /\ UNCHANGED <<socketVars, workerUp, tasks, finished, db>>

(* CheckOutputQueue: at most one finished task per turn of the loop.         *)
CheckOutputQueue(w) ==
    /\ workerUp[w] /\ workerPc[w] = "output"
    /\ \/ /\ finished[w] = <<>>
          /\ UNCHANGED <<finished, dealer>>
       \/ /\ finished[w] # <<>>
          /\ dealer' = [dealer EXCEPT ![w] = Append(@,
                          [data |-> "task_id", task_id |-> Head(finished[w])])]
          /\ finished' = [finished EXCEPT ![w] = Tail(@)]
    /\ workerPc' = [workerPc EXCEPT ![w] = "poll"]
    /\ UNCHANGED <<subscribed, pub, workerUp, tasks, thread, db>>

-----------------------------------------------------------------------------
(* ThreadPool::Poll: lock tasks_m_, then take the front task or wait.        *)
TakeTask(w, k) ==
    /\ workerUp[w] /\ thread[w][k] = Idle
    /\ \/ /\ tasks[w] # <<>>
          /\ thread' = [thread EXCEPT ![w][k] =
                          [pc |-> "calculate", task |-> Head(tasks[w])]]
          /\ tasks' = [tasks EXCEPT ![w] = Tail(@)]
       \/ /\ tasks[w] = <<>>
          /\ thread' = [thread EXCEPT ![w][k] = Asleep]
          /\ UNCHANGED tasks
    /\ UNCHANGED <<socketVars, workerUp, workerPc, finished, db>>

(* A condition variable may wake a waiter that nobody notified.              *)
SpuriousWakeup(w, k) ==
    /\ workerUp[w] /\ thread[w][k] = Asleep
    /\ thread' = [thread EXCEPT ![w][k] = Idle]
    /\ UNCHANGED <<socketVars, workerUp, workerPc, tasks, finished, db>>

(* The process ends (an exception that leaves a pool thread ends it): what   *)
(* it held is gone, with the messages its DEALER had not transmitted, and    *)
(* the publisher drops its subscription.                                     *)
Terminate(w) ==
    /\ workerUp' = [workerUp EXCEPT ![w] = FALSE]
    /\ \E n \in 0..Len(dealer[w]) : dealer' = [dealer EXCEPT ![w] = SubSeq(@, 1, n)]
    /\ workerPc' = [workerPc EXCEPT ![w] = "start"]
    /\ tasks' = [tasks EXCEPT ![w] = <<>>]
    /\ thread' = [thread EXCEPT ![w] = [k \in Threads(w) |-> Idle]]
    /\ finished' = [finished EXCEPT ![w] = <<>>]
    /\ subscribed' = subscribed \ {w}
    /\ pub' = [pub EXCEPT ![w] = <<>>]

ExtractOperands(task) ==
    [i \in DOMAIN task.operands |-> ReadData(task.operands[i])]

(* Mutant: the exception is caught in Poll, and the thread goes on.          *)
CalculateTaskCaught(w, k) ==
    /\ workerUp[w] /\ thread[w][k].pc = "calculate"
    /\ LET task == thread[w][k].task.task
           operands == ExtractOperands(task)
           result == IF \E i \in DOMAIN operands : operands[i] = Exception
                     THEN Exception
                     ELSE CalculateTaskImpl(task.op, operands)
       IN  thread' = [thread EXCEPT ![w][k] =
                        IF result # Exception
                        THEN [pc |-> "write", task |-> @.task, result |-> result]
                        ELSE Idle]
    /\ UNCHANGED <<socketVars, workerUp, workerPc, tasks, finished, db>>

(* CalculateTask: ExtractOperands and CalculateTaskImpl.                     *)
CalculateTask(w, k) ==
    /\ workerUp[w] /\ thread[w][k].pc = "calculate"
    /\ LET task == thread[w][k].task.task
           operands == ExtractOperands(task)
           result == IF \E i \in DOMAIN operands : operands[i] = Exception
                     THEN Exception
                     ELSE CalculateTaskImpl(task.op, operands)
       IN  \/ /\ result # Exception
              /\ thread' = [thread EXCEPT ![w][k] =
                              [pc |-> "write", task |-> @.task, result |-> result]]
              /\ UNCHANGED <<socketVars, workerUp, workerPc, tasks, finished>>
           \/ /\ result = Exception
              /\ Terminate(w)
    /\ UNCHANGED db

(* Mutant: the result is not stored.                                         *)
WriteResultForgotten(w, k) ==
    /\ workerUp[w] /\ thread[w][k].pc = "write"
    /\ thread' = [thread EXCEPT ![w][k] = [pc |-> "push", task |-> @.task]]
    /\ UNCHANGED <<socketVars, workerUp, workerPc, tasks, finished, db>>

(* CalculateTask: db_client_.WriteDynamicData, whose status is not looked at.*)
WriteResult(w, k) ==
    /\ workerUp[w] /\ thread[w][k].pc = "write"
    /\ WriteDynamicData(thread[w][k].task.task.id, thread[w][k].result)
    /\ thread' = [thread EXCEPT ![w][k] = [pc |-> "push", task |-> @.task]]
    /\ UNCHANGED <<socketVars, workerUp, workerPc, tasks, finished>>

(* CalculateTask: push the response, then back to the top of Poll.           *)
PushFinished(w, k) ==
    /\ workerUp[w] /\ thread[w][k].pc = "push"
    /\ finished' = [finished EXCEPT ![w] =
                      Append(@, [identity |-> thread[w][k].task.identity,
                                 id |-> thread[w][k].task.task.id])]
    /\ thread' = [thread EXCEPT ![w][k] = Idle]
    /\ UNCHANGED <<socketVars, workerUp, workerPc, tasks, db>>

ThreadStep(w, k) ==
    \/ TakeTask(w, k)
    \/ CalculateTask(w, k)
    \/ WriteResult(w, k)
    \/ PushFinished(w, k)

MainStep(w) ==
    \/ SendAckMessage(w)
    \/ ReadRequest(w)
    \/ NothingToRead(w)
    \/ NotifyOne(w)
    \/ CheckOutputQueue(w)

WorkerNext(w) ==
    \/ Subscribe(w)
    \/ MainStep(w)
    \/ \E k \in Threads(w) : ThreadStep(w, k) \/ SpuriousWakeup(w, k)
=============================================================================
