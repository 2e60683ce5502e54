---------------------------- MODULE PoolService ----------------------------
(***************************************************************************)
(* What the broker and its workers promise together: the task service of   *)
(* module TaskServiceSpec.                                                 *)
(***************************************************************************)
EXTENDS Pool

(* The places where a task can be: with the manager, waiting for a result in *)
(* the pool, or calculated and on its way back.                              *)
OutsidePlaces == {"task_pipe", "reply_pipe", "received"} \X {"manager"}

OpenPlaces == {<<"task_queue", "broker">>} \cup {"pub", "tasks", "calculating"} \X Workers

ComputedPlaces == {"calculated", "finished", "dealer"} \X Workers \cup {<<"sending", "broker">>}

Places == OutsidePlaces \cup OpenPlaces \cup ComputedPlaces

Positions(s, x) == {i \in DOMAIN s : s[i] = x}

Running(w, pcs, t) ==
    {k \in Threads(w) : thread[w][k].pc \in pcs /\ thread[w][k].task.task = t}

(* Where in place p task t, or its id, is.                                   *)
Copies(p, t) ==
    LET w == p[2]
        answer == [identity |-> w, id |-> t.id]
    IN  CASE p[1] = "task_pipe" -> Positions(taskPipe, t)
          [] p[1] = "task_queue" -> Positions(taskQueue, t)
          [] p[1] = "pub" -> Positions(pub[w], [identity |-> w, task |-> t])
          [] p[1] = "tasks" -> Positions(tasks[w], [identity |-> w, task |-> t])
          [] p[1] = "calculating" -> Running(w, {"calculate", "write"}, t)
          [] p[1] = "calculated" -> Running(w, {"push"}, t)
          [] p[1] = "finished" -> Positions(finished[w], answer)
          [] p[1] = "dealer" -> Positions(dealer[w], [data |-> "task_id", task_id |-> answer])
          [] p[1] = "sending" -> Positions(sending, t.id)
          [] p[1] = "reply_pipe" -> Positions(replyPipe, t.id)
          [] p[1] = "received" -> Positions(received, t.id)

Holding(places) == {t \in Tasks : \E p \in places : Copies(p, t) # {}}

(* README: "If all workers are busy Broker queues atomic tasks."  A task the *)
(* manager has sent is never lost and never handed out twice: exactly one    *)
(* copy of it is in the pool, on the pipe or answered.                       *)
ExactlyOnce ==
    \A t \in Tasks \ unsent :
        Cardinality(UNION {{p} \X Copies(p, t) : p \in Places}) = 1

(* README: "Computation result is propagated to decomposer by broker."  Every*)
(* task sent is answered in the end.                                         *)
EveryTaskAnswered ==
    \A t \in Tasks : t \notin unsent ~> (\E i \in DOMAIN received : received[i] = t.id)

-----------------------------------------------------------------------------
InPool(t) == \E p \in Places : Copies(p, t) # {}

(* A task that was somewhere is nowhere: the worker that held it ended, it   *)
(* is the one just handed to a worker that misses it, or the queue's oldest  *)
(* task, which back() with pop() drops when there is a newer one.            *)
TaskLossHasCause(t) ==
    t \notin unsent /\ InPool(t) /\ ~InPool(t)' =>
        \/ \E w \in Workers :
              WorkerEnds(w) /\ t \in Holding({p \in Places : p[2] = w})
        \/ HandedOut(t) /\ \E w \in Registered : Deaf(w)
        \/ Len(taskQueue) >= 2 /\ t = Head(taskQueue) /\ taskQueue' = Tail(taskQueue)

(* Broker::SendTaskToWorkerImpl takes the core before the task arrives and   *)
(* nothing asks a silent worker again: cores and tasks do get lost.  They    *)
(* are lost in these ways only, and a task that was read from the pipe,      *)
(* queued, published, calculated, answered or forwarded never disappears in  *)
(* a step of the program that does not say so.                               *)
LossHasCause ==
    [][/\ \A w \in Registered : CoreLossHasCause(w)
       /\ \A t \in Tasks : TaskLossHasCause(t)]_vars

-----------------------------------------------------------------------------
Service == INSTANCE TaskServiceSpec WITH
    open <- Holding(OpenPlaces),
    computed <- Holding(ComputedPlaces)

(* The broker and its workers implement the task service: a task is          *)
(* calculated once, its result is in the database before its id is reported, *)
(* and its id is reported once.                                              *)
ImplementsTaskService == Service!Spec
=============================================================================
