-------------------------------- MODULE Pool --------------------------------
(***************************************************************************)
(* The broker with its workers, closed by an abstract manager that sends   *)
(* every task of Tasks at most once and reads the replies, and by an       *)
(* operator who may restart a worker process under its old identity.       *)
(***************************************************************************)
EXTENDS Broker, Worker

CONSTANT MaxRestarts    \* bound on the number of worker restarts

ASSUME PoolAssumption ==
    /\ MaxRestarts \in Nat
    /\ \A t1, t2 \in Tasks : t1.id = t2.id => t1 = t2

VARIABLES
    unsent,             \* the tasks the manager has not sent yet
    received,           \* the replies the manager has read
    restarts            \* worker restarts so far

envVars == <<unsent, received, restarts>>

vars == <<pipeVars, socketVars, brokerVars, workerVars, db, envVars>>

Init ==
    /\ PipeInit /\ SocketsInit /\ BrokerInit /\ WorkerInit /\ DatabaseInit
    /\ unsent = Tasks
    /\ received = <<>>
    /\ restarts = 0

(* BrokerConnection::SendRequest *)
SendRequest(task) ==
    /\ task \in unsent
    /\ SendOnTaskPipe(task)
    /\ unsent' = unsent \ {task}
    /\ UNCHANGED <<replyPipe, socketVars, brokerVars, workerVars, db>>
    /\ UNCHANGED <<received, restarts>>

(* BrokerConnection::ReadReply *)
ReadReply ==
    /\ replyPipe # <<>>
    /\ replyPipe' = Tail(replyPipe)
    /\ received' = Append(received, Head(replyPipe))
    /\ UNCHANGED <<taskPipe, socketVars, brokerVars, workerVars, db>>
    /\ UNCHANGED <<unsent, restarts>>

(* The process of worker w ends, whatever it was doing.                      *)
StopWorker(w) ==
    /\ workerUp[w] /\ restarts < MaxRestarts
    /\ Terminate(w)
    /\ UNCHANGED <<pipeVars, brokerVars, db, envVars>>

(* Worker::New runs again with the same WORKER_IDENTITY.                     *)
RestartWorker(w) ==
    /\ ~workerUp[w] /\ restarts < MaxRestarts
    /\ workerUp' = [workerUp EXCEPT ![w] = TRUE]
    /\ restarts' = restarts + 1
    /\ UNCHANGED <<pipeVars, socketVars, brokerVars, db>>
    /\ UNCHANGED <<workerPc, tasks, thread, finished, unsent, received>>

BrokerStep == BrokerNext /\ UNCHANGED <<workerVars, db, envVars>>

WorkerStep(w) == WorkerNext(w) /\ UNCHANGED <<pipeVars, brokerVars, envVars>>

Next ==
    \/ BrokerStep
    \/ \E w \in Workers : WorkerStep(w) \/ StopWorker(w) \/ RestartWorker(w)
    \/ \E task \in Tasks : SendRequest(task)
    \/ ReadReply

(* Every loop of the code runs for ever, so a step that stays possible is    *)
(* taken.  A ROUTER socket serves its peers in turn: a worker whose message  *)
(* is readable again and again is served (strong fairness).  Nothing makes   *)
(* a restart or a spurious wakeup happen.                                    *)
Fairness ==
    /\ WF_vars(BrokerPoll /\ UNCHANGED <<workerVars, db, envVars>>)
    /\ WF_vars(SendResultToManager /\ UNCHANGED <<workerVars, db, envVars>>)
    /\ WF_vars(ReceiveManagerRequest /\ UNCHANGED <<workerVars, db, envVars>>)
    /\ WF_vars(ReadReply)
    /\ \A w \in Workers :
        /\ SF_vars(ReceiveWorkerMessage(w) /\ UNCHANGED <<workerVars, db, envVars>>)
        /\ WF_vars(Subscribe(w) /\ UNCHANGED <<pipeVars, brokerVars, envVars>>)
        /\ WF_vars(MainStep(w) /\ UNCHANGED <<pipeVars, brokerVars, envVars>>)
        /\ \A k \in Threads(w) :
              WF_vars(ThreadStep(w, k) /\ UNCHANGED <<pipeVars, brokerVars, envVars>>)

Spec == Init /\ [][Next]_vars

FairSpec == Spec /\ Fairness

-----------------------------------------------------------------------------
(* The messages a worker w is to take, and the ones it may send.             *)
TasksOf(w) == [identity : {w}, task : Tasks]

AnswersOf(w) == [identity : {w}, id : TaskId]

MessagesOf(w) == [data : {"core_count"}, core_count : {CoreCount[w] - 1}]
                   \cup [data : {"task_id"}, task_id : AnswersOf(w)]

Calculating(w) == {k \in Threads(w) : thread[w][k].pc \in {"calculate", "write", "push"}}

(* What worker w has been given and the broker has not heard back about:     *)
(* published tasks, tasks held by its thread pool, answers on their way.     *)
Published(w) == CountIn(pub[w], TasksOf(w))

Held(w) == Len(tasks[w]) + Cardinality(Calculating(w))

Answered(w) == Len(finished[w]) + CountIn(dealer[w], TaskIdMessage)

InFlight(w) == Published(w) + Held(w) + Answered(w)

PipesTypeOK ==
    /\ taskPipe \in Seq(Tasks)
    /\ replyPipe \in Seq(TaskId)

SocketsTypeOK ==
    /\ subscribed \in SUBSET Workers
    /\ pub \in [Workers -> Seq(WorkerTask)]
    /\ dealer \in [Workers -> Seq(WorkerMessage)]

BrokerTypeOK ==
    /\ Registered \subseteq Workers
    /\ availableCoreCount \in [Registered -> Nat]
    /\ taskQueue \in Seq(Tasks)
    /\ revents \in SUBSET {"router", "manager"}
    /\ sending \in Seq(TaskId) /\ Len(sending) <= 1
    /\ brokerUp \in BOOLEAN

WorkersTypeOK ==
    /\ workerUp \in [Workers -> BOOLEAN]
    /\ workerPc \in [Workers -> {"start", "poll", "notify", "output"}]
    /\ tasks \in [Workers -> Seq(WorkerTask)]
    /\ finished \in [Workers -> Seq(WorkerTaskId)]

ThreadTypeOK(w) ==
    /\ DOMAIN thread[w] = Threads(w)
    /\ \A k \in Threads(w) :
        /\ thread[w][k].pc \in {"idle", "asleep", "calculate", "write", "push"}
        /\ k \in Calculating(w) =>
             thread[w][k].task \in WorkerTask

ThreadsTypeOK ==
    /\ DOMAIN thread = Workers
    /\ \A w \in Workers : ThreadTypeOK(w)

EnvironmentTypeOK ==
    /\ DOMAIN db \subseteq TaskId
    /\ unsent \in SUBSET Tasks
    /\ received \in Seq(TaskId)
    /\ restarts \in 0..MaxRestarts

(* Type invariant: the shape of every variable of the pipe, the sockets, the *)
(* broker, the workers, their threads and the environment.                   *)
TypeOK ==
    /\ PipesTypeOK /\ SocketsTypeOK /\ BrokerTypeOK
    /\ WorkersTypeOK /\ ThreadsTypeOK /\ EnvironmentTypeOK

OwnTasks(w) ==
    /\ tasks[w] \in Seq(TasksOf(w))
    /\ \A k \in Calculating(w) : thread[w][k].task \in TasksOf(w)
    /\ finished[w] \in Seq(AnswersOf(w))
    /\ dealer[w] \in Seq(MessagesOf(w))

(* A worker queues, calculates and answers only the tasks the broker gave to *)
(* it, although it receives everybody's, and announces only its own spare    *)
(* cores: the identity in a reply is that of the DEALER it arrives on.       *)
OwnTasksOnly == \A w \in Workers : OwnTasks(w)

WithinCores(w) ==
    /\ w \in Registered => availableCoreCount[w] + InFlight(w) <= CoreCount[w] - 1
    /\ w \notin Registered => InFlight(w) = 0

(* The broker never believes a worker to have more free cores than it has:   *)
(* free cores and tasks in flight (published, queued, calculating, finished  *)
(* or on their way back) together never exceed the cores the worker          *)
(* announced, and an unregistered worker has no task at all, so that         *)
(* worker_routing_id_to_available_core_count_.at() finds every identity a    *)
(* reply names.  Holds with lost messages and restarted workers too.         *)
NoOvercommit == \A w \in Workers : WithinCores(w)

(* A task handed to the thread pool never waits behind a busy pool: queued   *)
(* and running tasks of a worker are fewer than its threads.                 *)
PoolNeverFull ==
    \A w \in Workers : Held(w) < CoreCount[w]

(* No lost wakeup in ThreadPool: while some thread sleeps, every queued task *)
(* has an awake thread of its own, or the notification is about to be given. *)
QueuedTaskHasAwakeThread ==
    \A w \in Workers :
        Sleeping(w) # {} =>
            Len(tasks[w]) <= Cardinality({k \in Threads(w) : thread[w][k] = Idle})
                               + (IF workerPc[w] = "notify" THEN 1 ELSE 0)

(* README: "Broker is responsible for tracking workers' load".  The cores of *)
(* a registered worker that are neither free nor busy with a task are lost   *)
(* for ever; there are none.                                                 *)
NoCoreLeak ==
    \A w \in Registered : availableCoreCount[w] + InFlight(w) = CoreCount[w] - 1

(* RegisterWorker: logic_error("Worker with exisiting identity tried to      *)
(* register") leaves Run and ends the broker.  An identity announces itself  *)
(* once per process and its messages come in order, so that only a worker    *)
(* that was started again under its identity can do that.                    *)
BrokerEndHasCause == ~brokerUp => restarts > 0

(* The ways in which the code lets go of something without an answer.        *)
WorkerEnds(w) == workerUp[w] /\ ~workerUp'[w]

(* The broker takes task t from the pipe or its queue to hand it out.        *)
HandedOut(t) ==
    \/ taskPipe # <<>> /\ t = Head(taskPipe) /\ taskPipe' = Tail(taskPipe)
    \/ taskQueue # <<>> /\ t = taskQueue[Len(taskQueue)] /\ taskQueue' = Tail(taskQueue)

(* PUB drops what it has for w: no subscription, or a queue at its mark.     *)
Deaf(w) == w \notin subscribed \/ Len(pub[w]) >= PubHwm

Cores(w) == availableCoreCount[w] + InFlight(w)

(* The cores the broker has for worker w, free or busy with a task, become   *)
(* fewer only when the worker ends or misses a task, and then by that one.   *)
CoreLossHasCause(w) ==
    Cores(w)' < Cores(w) =>
        \/ WorkerEnds(w)
        \/ Deaf(w) /\ (\E t \in Tasks : HandedOut(t)) /\ Cores(w)' = Cores(w) - 1

(* While tasks wait in task_queue_, a step never leaves a core of a          *)
(* registered worker idle that was busy before.                              *)
NoIdleCoreWhileQueued ==
    [][taskQueue # <<>> =>
         \A w \in Registered : availableCoreCount'[w] <= availableCoreCount[w]]_vars
=============================================================================
