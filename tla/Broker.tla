------------------------------- MODULE Broker -------------------------------
(***************************************************************************)
(* The broker process: a single thread that polls the ROUTER socket and    *)
(* the manager's PAIR socket, keeps the number of free cores of every      *)
(* worker and queues tasks while no core is free.                          *)
(***************************************************************************)
EXTENDS BrokerPipe, WorkerSockets

VARIABLES
    availableCoreCount, \* worker_routing_id_to_available_core_count_ (a partial map)
    taskQueue,          \* task_queue_
    revents,            \* poll_items_ the last poll found readable, not yet handled
    sending,            \* the result SendResultToManager still has to send, if any
    brokerUp            \* FALSE after an uncaught exception ended the process

brokerVars == <<availableCoreCount, taskQueue, revents, sending, brokerUp>>

Registered == DOMAIN availableCoreCount

BrokerInit ==
    /\ availableCoreCount = [w \in {} |-> 0]
    /\ taskQueue = <<>>
    /\ revents = {}
    /\ sending = <<>>
    /\ brokerUp = TRUE

-----------------------------------------------------------------------------
(* Broker::Run: zmq::poll without timeout.  The manager's socket is polled   *)
(* only once a worker has registered.                                        *)
PollReady ==
    {s \in {"router", "manager"} :
        \/ s = "router" /\ \E w \in Workers : dealer[w] # <<>>
        \/ s = "manager" /\ Registered # {} /\ taskPipe # <<>>}

BrokerPoll ==
    /\ brokerUp
    /\ revents = {} /\ sending = <<>>
    /\ PollReady # {}
    /\ revents' = PollReady
    /\ UNCHANGED <<availableCoreCount, taskQueue, sending, brokerUp>>
    /\ UNCHANGED <<pipeVars, socketVars>>

(* Mutant: the core is not taken.                                            *)
SendTaskToWorkerImplKeepsCore(w, task, counts) ==
    /\ Publish([identity |-> w, task |-> task])
    /\ availableCoreCount' = counts

(* SendTaskToWorkerImpl: publish the task and take one of counts[w].         *)
SendTaskToWorkerImpl(w, task, counts) ==
    /\ Publish([identity |-> w, task |-> task])
    /\ availableCoreCount' = [counts EXCEPT ![w] = @ - 1]

(* Mutant: the task stays in the queue.                                      *)
SendTaskToWorkerFromQueueKeepsTask(w, counts) ==
    /\ SendTaskToWorkerImpl(w, taskQueue[Len(taskQueue)], counts)
    /\ UNCHANGED taskQueue

(* SendTaskToWorkerFromQueue: copies task_queue_.back(), removes the front.  *)
SendTaskToWorkerFromQueue(w, counts) ==
    /\ SendTaskToWorkerImpl(w, taskQueue[Len(taskQueue)], counts)
    /\ taskQueue' = Tail(taskQueue)

(* Mutant: a second registration overwrites the first.                       *)
RegisterWorkerOverwrites(w, count) ==
    /\ availableCoreCount' =
         [v \in Registered \cup {w} |-> IF v = w THEN count ELSE availableCoreCount[v]]
    /\ UNCHANGED <<brokerUp, taskQueue, sending, pub>>

RegisterWorker(w, count) ==
    \/ /\ w \notin Registered
       /\ availableCoreCount' =
            [v \in Registered \cup {w} |->
                IF v = w THEN count ELSE availableCoreCount[v]]
       /\ UNCHANGED <<brokerUp, taskQueue, sending, pub>>
    \/ \* logic_error("Worker with exisiting identity tried to register")
       /\ w \in Registered
       /\ brokerUp' = FALSE
       /\ UNCHANGED <<availableCoreCount, taskQueue, sending, pub>>

(* Mutant: the core is not given back.                                       *)
ProcessWorkerTaskReplyKeepsCore(taskId) ==
    /\ \/ /\ taskQueue # <<>>
          /\ SendTaskToWorkerFromQueue(taskId.identity, availableCoreCount)
       \/ /\ taskQueue = <<>>
          /\ UNCHANGED <<availableCoreCount, taskQueue, pub>>
    /\ sending' = <<taskId.id>>
    /\ UNCHANGED brokerUp

(* Mutant: the queue is not looked at.                                       *)
ProcessWorkerTaskReplyKeepsQueue(taskId) ==
    /\ availableCoreCount' = [availableCoreCount EXCEPT ![taskId.identity] = @ + 1]
    /\ sending' = <<taskId.id>>
    /\ UNCHANGED <<brokerUp, taskQueue, pub>>

(* ProcessWorkerTaskReply: the .at() on the identity never throws, since     *)
(* only a registered worker has tasks to answer (NoOvercommit).              *)
ProcessWorkerTaskReply(taskId) ==
    LET w == taskId.identity
        counts == [availableCoreCount EXCEPT ![w] = @ + 1]
    IN  /\ \/ /\ taskQueue # <<>>
              /\ SendTaskToWorkerFromQueue(w, counts)
           \/ /\ taskQueue = <<>>
              /\ availableCoreCount' = counts
              /\ UNCHANGED <<taskQueue, pub>>
        /\ sending' = <<taskId.id>>
        /\ UNCHANGED brokerUp

(* ReceiveWorkerMessage: ROUTER hands over the head of some worker's queue.  *)
ReceiveWorkerMessage(w) ==
    /\ brokerUp
    /\ "router" \in revents /\ sending = <<>>
    /\ dealer[w] # <<>>
    /\ LET message == Head(dealer[w])
       IN  IF message.data = "core_count"
           THEN RegisterWorker(w, message.core_count)
           ELSE ProcessWorkerTaskReply(message.task_id)
    /\ dealer' = [dealer EXCEPT ![w] = Tail(@)]
    /\ revents' = revents \ {"router"}
    /\ UNCHANGED <<subscribed, pipeVars>>

(* Mutant: the result is still there to be sent after it was sent.           *)
SendResultToManagerAgain ==
    /\ brokerUp
    /\ sending # <<>>
    /\ SendOnReplyPipe(sending[1])
    /\ UNCHANGED <<availableCoreCount, taskQueue, revents, sending, brokerUp>>
    /\ UNCHANGED <<taskPipe, socketVars>>

(* SendResultToManager: the last statement of ProcessWorkerTaskReply, a      *)
(* blocking send.                                                            *)
SendResultToManager ==
    /\ brokerUp
    /\ sending # <<>>
    /\ SendOnReplyPipe(sending[1])
    /\ sending' = <<>>
    /\ UNCHANGED <<availableCoreCount, taskQueue, revents, brokerUp>>
    /\ UNCHANGED <<taskPipe, socketVars>>

(* Mutant: any registered worker will do.                                    *)
SendTaskToWorkerAny(task) ==
    \/ /\ Registered = {}
       /\ taskQueue' = Append(taskQueue, task)
       /\ UNCHANGED <<availableCoreCount, pub>>
    \/ \E w \in Registered :
          /\ SendTaskToWorkerImpl(w, task, availableCoreCount)
          /\ UNCHANGED taskQueue

(* SendTaskToWorker: any worker with a free core (the order of an            *)
(* unordered_map), or the queue.                                             *)
SendTaskToWorker(task) ==
    LET free == {w \in Registered : availableCoreCount[w] # 0}
    IN  \/ /\ free = {}
           /\ taskQueue' = Append(taskQueue, task)
           /\ UNCHANGED <<availableCoreCount, pub>>
        \/ \E w \in free :
              /\ SendTaskToWorkerImpl(w, task, availableCoreCount)
              /\ UNCHANGED taskQueue

ReceiveManagerRequest ==
    /\ brokerUp
    /\ revents = {"manager"} /\ sending = <<>>
    /\ taskPipe # <<>>
    /\ SendTaskToWorker(Head(taskPipe))
    /\ taskPipe' = Tail(taskPipe)
    /\ revents' = {}
    /\ UNCHANGED <<sending, brokerUp, replyPipe, subscribed, dealer>>

BrokerNext ==
    \/ BrokerPoll
    \/ \E w \in Workers : ReceiveWorkerMessage(w)
    \/ SendResultToManager
    \/ ReceiveManagerRequest
=============================================================================
