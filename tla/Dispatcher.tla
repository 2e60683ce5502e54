----------------------------- MODULE Dispatcher -----------------------------
(***************************************************************************)
(* The manager process.  Every request is served by a gRPC handler thread  *)
(* (Dispatcher::CalculateProblem) that registers the problem, waits on a   *)
(* condition variable of its own stack (SyncData) and then reads the       *)
(* result from the database.  One dispatcher thread (RunDispatcher) sends  *)
(* the computable tasks of all problems to the broker and updates them     *)
(* from the replies.  The maps are guarded by m_, except for the lookups   *)
(* a waiting handler makes in problem_id_to_sync_data_.                    *)
(***************************************************************************)
EXTENDS BrokerPipe, Database, TaskGraph, FiniteSets

CONSTANTS
    Requests,           \* the requests of the users
    Graph,              \* Graph[r]: the task graph of request r
    Rejected,           \* requests whose AST::FromJson or decomposition throws
    RaceOutcomes        \* what a lookup in problem_id_to_sync_data_ may do while
                        \* another thread modifies that map

ASSUME DispatcherAssumption ==
    /\ IsFiniteSet(Requests)
    /\ Requests \cap {"free", "dispatcher"} = {}
    /\ Rejected \subseteq Requests
    /\ "found" \in RaceOutcomes
    /\ RaceOutcomes \subseteq {"found", "out_of_range", "crash"}

(* Module Decomposer checks it of the graphs it makes (TopologicalOrder).    *)
ASSUME GraphAssumption ==
    \A r \in Requests \ Rejected : OperandsFirst(Graph[r]) /\ OneRoot(Graph[r])

VARIABLES
    handler,            \* handler[r]: where the handler of r is in CalculateProblem
    problemId,          \* problemId[r]: its local problem_id
    isComputed,         \* isComputed[r]: sync_data.is_computed on its stack
    result,             \* result[r]: its local expr_result, Exception before
    calcData,           \* problem_id_to_calculation_data_
    syncData,           \* problem_id_to_sync_data_: problem -> owner of the SyncData
    m,                  \* the holder of m_, or "free"
    nextId,             \* PROBLEM_ID
    dispatcher,         \* where the dispatcher thread is in RunDispatcher
    reply,              \* the reply it is processing
    managerUp           \* FALSE once an exception or undefined behaviour ended it

handlerVars == <<handler, problemId, isComputed, result>>

threadVars == <<dispatcher, reply>>

managerVars == <<handlerVars, calcData, syncData, m, nextId, threadVars, managerUp>>

NoReply == <<>>

ManagerInit ==
    /\ handler = [r \in Requests |-> "start"]
    /\ problemId = [r \in Requests |-> 0]
    /\ isComputed = [r \in Requests |-> FALSE]
    /\ result = [r \in Requests |-> Exception]
    /\ calcData = [id \in {} |-> 0]
    /\ syncData = [id \in {} |-> 0]
    /\ m = "free"
    /\ nextId = 0
    /\ dispatcher = "send"
    /\ reply = NoReply
    /\ managerUp = TRUE

(* std::terminate in some thread: nothing of the process moves any more.     *)
Crash ==
    /\ managerUp' = FALSE
    /\ UNCHANGED <<handlerVars, calcData, syncData, m, nextId, threadVars>>

Goto(r, pc) == handler' = [handler EXCEPT ![r] = pc]

-----------------------------------------------------------------------------
(* The handler of request r.                                                 *)

(* CalculationData::New: the leaves count as computed.                       *)
New(r) ==
    LET leaves == DOMAIN GetIndependentTasks(Graph[r])
    IN  [request |-> r,
         status |-> [v \in leaves |-> "completed"],
         computable |-> GetComputableTasks(Graph[r], leaves, {})]

(* AST::FromJson and CalculationData::New.  An exception that leaves the     *)
(* handler ends the call with an error status.                               *)
Decompose(r) ==
    /\ managerUp /\ handler[r] = "start"
    /\ \/ /\ r \in Rejected \/ IndependentTasksThrow(Graph[r])
          /\ Goto(r, "failed")
       \/ /\ r \notin Rejected /\ ~IndependentTasksThrow(Graph[r])
          /\ Goto(r, "push")
    /\ UNCHANGED <<problemId, isComputed, result, calcData, syncData, m, nextId>>
    /\ UNCHANGED <<threadVars, managerUp, pipeVars, db>>

LockForPush(r) ==
    /\ managerUp /\ handler[r] = "push"
    /\ m = "free"
    /\ m' = r
    /\ Goto(r, "pushing")
    /\ UNCHANGED <<problemId, isComputed, result, calcData, syncData, nextId>>
    /\ UNCHANGED <<threadVars, managerUp, pipeVars, db>>

(* Mutant: PROBLEM_ID is not incremented.                                    *)
PushProblemSameId(r) ==
    /\ managerUp /\ handler[r] = "pushing"
    /\ problemId' = [problemId EXCEPT ![r] = nextId]
    /\ calcData' = [id \in DOMAIN calcData \cup {nextId} |->
                      IF id = nextId THEN New(r) ELSE calcData[id]]
    /\ syncData' = [id \in DOMAIN syncData \cup {nextId} |->
                      IF id = nextId THEN r ELSE syncData[id]]
    /\ m' = "free"
    /\ Goto(r, "wait")
    /\ UNCHANGED <<isComputed, result, nextId, threadVars, managerUp, pipeVars, db>>

(* PushProblem, then out of its critical section.                            *)
PushProblem(r) ==
    /\ managerUp /\ handler[r] = "pushing"
    /\ problemId' = [problemId EXCEPT ![r] = nextId]
    /\ calcData' = [id \in DOMAIN calcData \cup {nextId} |->
                      IF id = nextId THEN New(r) ELSE calcData[id]]
    /\ syncData' = [id \in DOMAIN syncData \cup {nextId} |->
                      IF id = nextId THEN r ELSE syncData[id]]
    /\ nextId' = nextId + 1
    /\ m' = "free"
    /\ Goto(r, "wait")
    /\ UNCHANGED <<isComputed, result, threadVars, managerUp, pipeVars, db>>

(* Some other handler is inside emplace or erase of the map.                 *)
MapInMotion(r) == \E q \in Requests \ {r} : handler[q] \in {"pushing", "clearing"}

Lookups(r) == IF MapInMotion(r) THEN RaceOutcomes ELSE {"found"}

(* Mutant: cv.wait without a predicate.                                      *)
TestComputedNot(r) ==
    /\ managerUp /\ handler[r] = "wait"
    /\ Goto(r, "asleep")
    /\ UNCHANGED <<problemId, isComputed, result, calcData, syncData, m, nextId>>
    /\ UNCHANGED <<threadVars, managerUp, pipeVars, db>>

(* cv.wait: lock cv_m, look is_computed up, leave or sleep.  The lookups are *)
(* made without m_.  An out_of_range leaves the handler, and its SyncData    *)
(* dies with its stack while the map still refers to it.                     *)
TestComputed(r) ==
    /\ managerUp /\ handler[r] = "wait"
    /\ \/ /\ "found" \in Lookups(r)
          /\ Goto(r, IF isComputed[r] THEN "clear" ELSE "asleep")
          /\ UNCHANGED managerUp
       \/ /\ "out_of_range" \in Lookups(r)
          /\ Goto(r, "failed")
          /\ UNCHANGED managerUp
       \/ /\ "crash" \in Lookups(r)
          /\ managerUp' = FALSE
          /\ UNCHANGED handler
    /\ UNCHANGED <<problemId, isComputed, result, calcData, syncData, m, nextId>>
    /\ UNCHANGED <<threadVars, pipeVars, db>>

WakeSpuriously(r) ==
    /\ managerUp /\ handler[r] = "asleep"
    /\ Goto(r, "wait")
    /\ UNCHANGED <<problemId, isComputed, result, calcData, syncData, m, nextId>>
    /\ UNCHANGED <<threadVars, managerUp, pipeVars, db>>

LockForClear(r) ==
    /\ managerUp /\ handler[r] = "clear"
    /\ m = "free"
    /\ m' = r
    /\ Goto(r, "clearing")
    /\ UNCHANGED <<problemId, isComputed, result, calcData, syncData, nextId>>
    /\ UNCHANGED <<threadVars, managerUp, pipeVars, db>>

ClearProblem(r) ==
    /\ managerUp /\ handler[r] = "clearing"
    /\ calcData' = [id \in DOMAIN calcData \ {problemId[r]} |-> calcData[id]]
    /\ syncData' = [id \in DOMAIN syncData \ {problemId[r]} |-> syncData[id]]
    /\ m' = "free"
    /\ Goto(r, "read")
    /\ UNCHANGED <<problemId, isComputed, result, nextId>>
    /\ UNCHANGED <<threadVars, managerUp, pipeVars, db>>

(* db_client_.ReadData of the root task: throws when there is no such row.   *)
ReadResult(r) ==
    LET value == ReadDynamicData(<<problemId[r], RootTask(Graph[r])>>)
    IN  /\ managerUp /\ handler[r] = "read"
        /\ \/ /\ value # Exception
              /\ result' = [result EXCEPT ![r] = value]
              /\ Goto(r, "clear_db")
           \/ /\ value = Exception
              /\ Goto(r, "failed")
              /\ UNCHANGED result
        /\ UNCHANGED <<problemId, isComputed, calcData, syncData, m, nextId>>
        /\ UNCHANGED <<threadVars, managerUp, pipeVars, db>>

(* Mutant: the results of the next problem are cleared.                      *)
ClearDatabaseOfNext(r) ==
    /\ managerUp /\ handler[r] = "clear_db"
    /\ ClearIntermediateCalculations(problemId[r] + 1)
    /\ Goto(r, "done")
    /\ UNCHANGED <<problemId, isComputed, result, calcData, syncData, m, nextId>>
    /\ UNCHANGED <<threadVars, managerUp, pipeVars>>

(* db_client_.ClearIntermediateCalculations; the result is returned.         *)
ClearDatabase(r) ==
    /\ managerUp /\ handler[r] = "clear_db"
    /\ ClearIntermediateCalculations(problemId[r])
    /\ Goto(r, "done")
    /\ UNCHANGED <<problemId, isComputed, result, calcData, syncData, m, nextId>>
    /\ UNCHANGED <<threadVars, managerUp, pipeVars>>

HandlerStep(r) ==
    \/ Decompose(r) \/ LockForPush(r) \/ PushProblem(r)
    \/ TestComputed(r)
    \/ LockForClear(r) \/ ClearProblem(r)
    \/ ReadResult(r) \/ ClearDatabase(r)

-----------------------------------------------------------------------------
(* The dispatcher thread.                                                    *)

FormOperand(id, v) ==
    LET variables == GetIndependentTasks(Graph[calcData[id].request])
    IN  IF v \in DOMAIN variables
        THEN StaticOperand(variables[v])
        ELSE DynOperand(<<id, v>>)

(* Mutant: the operands in the opposite order.                               *)
FormTaskRequestReversed(id, task, dependencies) ==
    [id |-> <<id, task>>,
     op |-> Graph[calcData[id].request].type[task],
     operands |-> [i \in DOMAIN dependencies |->
                     FormOperand(id, dependencies[Len(dependencies) + 1 - i])]]

FormTaskRequest(id, task, dependencies) ==
    [id |-> <<id, task>>,
     op |-> Graph[calcData[id].request].type[task],
     operands |-> [i \in DOMAIN dependencies |-> FormOperand(id, dependencies[i])]]

LockForSend ==
    /\ managerUp /\ dispatcher = "send"
    /\ m = "free"
    /\ m' = "dispatcher"
    /\ dispatcher' = "sending"
    /\ UNCHANGED <<handlerVars, calcData, syncData, nextId, reply, managerUp, pipeVars, db>>

ProblemsToSend == {id \in DOMAIN calcData : DOMAIN calcData[id].computable # {}}

(* Mutant: computable_task_to_dependencies is not cleared (one task a round).*)
SendTaskKeepsComputable(id, task) ==
    /\ managerUp /\ dispatcher = "sending"
    /\ \A other \in ProblemsToSend : id <= other
    /\ SendOnTaskPipe(FormTaskRequest(id, task, calcData[id].computable[task]))
    /\ calcData' = [calcData EXCEPT
                      ![id].status = [v \in DOMAIN @ \cup {task} |->
                                        IF v = task THEN "processing" ELSE @[v]]]
    /\ m' = "free"
    /\ dispatcher' = "read"
    /\ UNCHANGED <<handlerVars, syncData, nextId, reply, managerUp, replyPipe, db>>

(* SendComputableTasks: problems in the order of their ids (a std::map),     *)
(* the tasks of a problem in any order (an unordered_map); every send may    *)
(* have to wait for room in the pipe, with m_ held.                          *)
SendTask(id, task) ==
    /\ managerUp /\ dispatcher = "sending"
    /\ \A other \in ProblemsToSend : id <= other
    /\ SendOnTaskPipe(FormTaskRequest(id, task, calcData[id].computable[task]))
    /\ calcData' =
         [calcData EXCEPT
            ![id].status = [v \in DOMAIN @ \cup {task} |->
                              IF v = task THEN "processing" ELSE @[v]],
            ![id].computable = [v \in DOMAIN @ \ {task} |-> @[v]]]
    /\ UNCHANGED <<handlerVars, syncData, m, nextId, threadVars, managerUp, replyPipe, db>>

AllSent ==
    /\ managerUp /\ dispatcher = "sending"
    /\ ProblemsToSend = {}
    /\ m' = "free"
    /\ dispatcher' = "read"
    /\ UNCHANGED <<handlerVars, calcData, syncData, nextId, reply, managerUp, pipeVars, db>>

(* ReadReply: zmq::poll with timeout 0.                                      *)
ReadReply ==
    /\ managerUp /\ dispatcher = "read"
    /\ \/ /\ replyPipe = <<>>
          /\ dispatcher' = "send"
          /\ UNCHANGED <<reply, replyPipe>>
       \/ /\ replyPipe # <<>>
          /\ reply' = Head(replyPipe)
          /\ replyPipe' = Tail(replyPipe)
          /\ dispatcher' = "update"
    /\ UNCHANGED <<handlerVars, calcData, syncData, m, nextId, managerUp, taskPipe, db>>

WithStatus(status, value) == {v \in DOMAIN status : status[v] = value}

(* Mutant: the tasks being processed are not excluded.                       *)
UpdateComputableTasksImplNoExcluded(id, task) ==
    LET status == [calcData[id].status EXCEPT ![task] = "completed"]
    IN  calcData' =
          [calcData EXCEPT
             ![id].status = status,
             ![id].computable = GetComputableTasks(Graph[calcData[id].request],
                                                   WithStatus(status, "completed"), {})]

(* UpdateComputableTasksImpl                                                 *)
UpdateComputableTasksImpl(id, task) ==
    LET status == [calcData[id].status EXCEPT ![task] = "completed"]
    IN  calcData' =
          [calcData EXCEPT
             ![id].status = status,
             ![id].computable = GetComputableTasks(Graph[calcData[id].request],
                                                   WithStatus(status, "completed"),
                                                   WithStatus(status, "processing"))]

(* What the lookups of UpdateComputableTasks need: the problem in both maps, *)
(* and the task among those sent.  Otherwise .at() throws in the dispatcher  *)
(* thread, which ends the process.                                           *)
Known(id, task) == id \in DOMAIN calcData /\ task \in DOMAIN calcData[id].status

(* UpdateComputableTasks, from the acquisition of m_: the last task of a     *)
(* problem goes on, with m_ held, to NotifyComputedProblem.                  *)
UpdateComputableTasks ==
    LET id == reply[1]
        task == reply[2]
        isRoot == task = RootTask(Graph[calcData[id].request])
    IN  /\ managerUp /\ dispatcher = "update"
        /\ m = "free"
        /\ \/ /\ ~Known(id, task)
              /\ Crash
           \/ /\ Known(id, task) /\ isRoot
              /\ calcData' = [calcData EXCEPT ![id].status[task] = "completed"]
              /\ m' = "dispatcher"
              /\ dispatcher' = "computed"
              /\ UNCHANGED <<handlerVars, syncData, nextId, reply, managerUp>>
           \/ /\ Known(id, task) /\ ~isRoot
              /\ UpdateComputableTasksImpl(id, task)
              /\ dispatcher' = "send"
              /\ reply' = NoReply
              /\ UNCHANGED <<handlerVars, syncData, m, nextId, managerUp>>
        /\ UNCHANGED <<pipeVars, db>>

Gone(r) == handler[r] \in {"start", "done", "failed"}

(* Mutant: m_ is released before notify_all.                                 *)
SetComputedUnlocks ==
    /\ managerUp /\ dispatcher = "computed"
    /\ isComputed' = [isComputed EXCEPT ![syncData[reply[1]]] = TRUE]
    /\ dispatcher' = "notify"
    /\ m' = "free"
    /\ UNCHANGED <<handler, problemId, result, calcData, syncData, nextId, reply, managerUp>>
    /\ UNCHANGED <<pipeVars, db>>

(* NotifyComputedProblem: is_computed = true under cv_m.  The SyncData of a  *)
(* handler that has left is a dead stack object: anything may happen.        *)
SetComputed ==
    LET r == syncData[reply[1]]
    IN  /\ managerUp /\ dispatcher = "computed"
        /\ \/ /\ ~Gone(r)
              /\ isComputed' = [isComputed EXCEPT ![r] = TRUE]
              /\ dispatcher' = "notify"
              /\ UNCHANGED <<handler, problemId, result, calcData, syncData, m, nextId>>
              /\ UNCHANGED <<reply, managerUp>>
           \/ /\ Gone(r)
              /\ Crash
           \/ /\ Gone(r)
              /\ dispatcher' = "notify"
              /\ UNCHANGED <<handlerVars, calcData, syncData, m, nextId, reply, managerUp>>
        /\ UNCHANGED <<pipeVars, db>>

(* Mutant: nobody is notified.                                               *)
NotifyAllForgotten ==
    /\ managerUp /\ dispatcher = "notify"
    /\ m' = "free"
    /\ dispatcher' = "send"
    /\ reply' = NoReply
    /\ UNCHANGED <<handlerVars, calcData, syncData, nextId, managerUp, pipeVars, db>>

(* NotifyComputedProblem: cv.notify_all, after cv_m was released; then m_.   *)
NotifyAll ==
    LET r == syncData[reply[1]]
    IN  /\ managerUp /\ dispatcher = "notify"
        /\ handler' = [handler EXCEPT ![r] = IF @ = "asleep" THEN "wait" ELSE @]
        /\ m' = "free"
        /\ dispatcher' = "send"
        /\ reply' = NoReply
        /\ UNCHANGED <<problemId, isComputed, result, calcData, syncData, nextId>>
        /\ UNCHANGED <<managerUp, pipeVars, db>>

DispatcherStep ==
    \/ LockForSend
    \/ \E id \in ProblemsToSend : \E task \in DOMAIN calcData[id].computable :
            SendTask(id, task)
    \/ AllSent
    \/ ReadReply
    \/ UpdateComputableTasks
    \/ SetComputed
    \/ NotifyAll

ManagerNext ==
    \/ \E r \in Requests : HandlerStep(r) \/ WakeSpuriously(r)
    \/ DispatcherStep
=============================================================================
