------------------------------ MODULE Manager ------------------------------
(***************************************************************************)
(* The manager with the database and the task service of the broker and    *)
(* its workers.  Two misbehaviours of the surroundings can be switched on: *)
(* replies given twice, as an overloaded broker gives them, and restarts   *)
(* of the manager process, which keep the database but not PROBLEM_ID.     *)
(***************************************************************************)
EXTENDS Answers, TaskService, FiniteSets

CONSTANTS
    MaxDuplicates,      \* bound on the number of replies given twice
    MaxManagerRestarts  \* bound on the number of restarts of the manager

ASSUME ManagerAssumption == MaxDuplicates \in Nat /\ MaxManagerRestarts \in Nat

VARIABLES
    duplicates,         \* replies given twice so far
    managerRestarts     \* restarts so far

faultVars == <<duplicates, managerRestarts>>

vars == <<managerVars, pipeVars, db, serviceVars, faultVars>>

Init ==
    /\ ManagerInit /\ PipeInit /\ DatabaseInit /\ ServiceInit
    /\ duplicates = 0
    /\ managerRestarts = 0

(* SendTaskToWorkerFromQueue hands the newest queued task out again, and     *)
(* every copy is answered.                                                   *)
ReportAgain(t) ==
    /\ t \in computed /\ duplicates < MaxDuplicates
    /\ SendOnReplyPipe(t.id)
    /\ duplicates' = duplicates + 1
    /\ UNCHANGED <<taskPipe, serviceVars, managerVars, db, managerRestarts>>

(* The process ends and is started again: the calls it was serving fail, the *)
(* replies on their way to it and the tasks it had not transmitted are lost. *)
RestartManager ==
    /\ managerRestarts < MaxManagerRestarts
    /\ managerRestarts' = managerRestarts + 1
    /\ handler' = [r \in Requests |->
                     IF handler[r] \in {"start", "done"} THEN handler[r] ELSE "failed"]
    /\ result' = [r \in Requests |->
                     IF handler[r] = "done" THEN result[r] ELSE Exception]
    /\ isComputed' = [r \in Requests |-> FALSE]
    /\ problemId' = [r \in Requests |-> 0]
    /\ calcData' = [id \in {} |-> 0]
    /\ syncData' = [id \in {} |-> 0]
    /\ m' = "free"
    /\ nextId' = 0
    /\ dispatcher' = "send"
    /\ reply' = NoReply
    /\ managerUp' = TRUE
    /\ \E n \in 0..Len(taskPipe) : taskPipe' = SubSeq(taskPipe, 1, n)
    /\ replyPipe' = <<>>
    /\ UNCHANGED <<db, serviceVars, duplicates>>

Next ==
    \/ ManagerNext /\ UNCHANGED <<serviceVars, faultVars>>
    \/ ServiceNext /\ UNCHANGED <<managerVars, faultVars>>
    \/ \E t \in computed : ReportAgain(t)
    \/ RestartManager

Spec == Init /\ [][Next]_vars

(* Every thread that can go on does so.  A thread waiting for m_ gets it if  *)
(* it is free again and again: the dispatcher thread takes and releases m_   *)
(* in a busy loop, and progress of the handlers depends on the mutex not     *)
(* letting it win for ever.                                                  *)
Fairness ==
    /\ \A r \in Requests :
        /\ WF_vars(HandlerStep(r) /\ UNCHANGED <<serviceVars, faultVars>>)
        /\ SF_vars((LockForPush(r) \/ LockForClear(r)) /\ UNCHANGED <<serviceVars, faultVars>>)
    /\ WF_vars(DispatcherStep /\ UNCHANGED <<serviceVars, faultVars>>)
    /\ SF_vars((LockForSend \/ UpdateComputableTasks) /\ UNCHANGED <<serviceVars, faultVars>>)
    /\ WF_vars(Accept /\ UNCHANGED <<managerVars, faultVars>>)
    /\ WF_vars((\E t \in open : Calculate(t)) /\ UNCHANGED <<managerVars, faultVars>>)
    /\ WF_vars((\E t \in computed : Report(t)) /\ UNCHANGED <<managerVars, faultVars>>)

FairSpec == Spec /\ Fairness

-----------------------------------------------------------------------------
HandlerPcs == {"start", "push", "pushing", "wait", "asleep", "clear", "clearing",
               "read", "clear_db", "done", "failed"}

CalculationData(r) ==
    LET g == Graph[r]
    IN  [request : {r},
         status : UNION {[S -> {"processing", "completed"}] : S \in SUBSET Vertices(g)},
         computable : {[v \in S |-> g.adj[v]] : S \in SUBSET Vertices(g)}]

(* Type invariant of the manager: the shape of every variable of its         *)
(* threads, of the two maps and of PROBLEM_ID.                               *)
TypeOK ==
    /\ handler \in [Requests -> HandlerPcs]
    /\ problemId \in [Requests -> 0..nextId]
    /\ isComputed \in [Requests -> BOOLEAN]
    /\ DOMAIN result = Requests
    /\ nextId \in 0..Cardinality(Requests)
    /\ DOMAIN calcData \subseteq 0..(nextId - 1)
    /\ \A id \in DOMAIN calcData : \E r \in Requests : calcData[id] \in CalculationData(r)
    /\ syncData \in [DOMAIN calcData -> Requests]
    /\ m \in Requests \cup {"free", "dispatcher"}
    /\ dispatcher \in {"send", "sending", "read", "update", "computed", "notify"}
    /\ managerUp \in BOOLEAN

(* NotifyComputedProblem uses a SyncData on another thread's stack.  Until   *)
(* its notify_all, called after cv_m was released, the problem stays in      *)
(* problem_id_to_sync_data_; and as long as that map refers to a SyncData,   *)
(* its handler is inside the scope that owns it, even if it wakes up by      *)
(* itself before notify_all.  Only an out_of_range thrown by an              *)
(* unsynchronised lookup takes the owner away too soon.                      *)
SyncDataAlive ==
    /\ dispatcher \in {"computed", "notify"} => reply[1] \in DOMAIN syncData
    /\ \A id \in DOMAIN syncData :
        LET r == syncData[id]
        IN  /\ problemId[r] = id
            /\ \/ handler[r] \in {"wait", "asleep", "clear", "clearing"}
               \/ handler[r] = "failed" /\ "out_of_range" \in RaceOutcomes

(* A handler whose problem is computed never sleeps on, unless its           *)
(* notify_all is about to be called.                                         *)
NoLostWakeup ==
    \A r \in Requests :
        handler[r] = "asleep" /\ isComputed[r]
            => dispatcher = "notify" /\ syncData[reply[1]] = r

(* The ids of the tasks between SendRequest and UpdateComputableTasks.       *)
InFlight(id) ==
    Cardinality({i \in DOMAIN taskPipe : taskPipe[i].id = id})
      + Cardinality({t \in open \cup computed : t.id = id})
      + Cardinality({i \in DOMAIN replyPipe : replyPipe[i] = id})
      + (IF dispatcher = "update" /\ reply = id THEN 1 ELSE 0)

(* processed_tasks_to_status says "processing" of exactly the tasks that are *)
(* on their way, each of them once, and nothing of a cleared problem is on   *)
(* its way: no task is sent twice or forgotten, and no lookup made for a     *)
(* reply can throw.                                                          *)
ProcessingIsInFlight ==
    /\ \A id \in DOMAIN calcData : \A v \in Vertices(Graph[calcData[id].request]) :
        InFlight(<<id, v>>) =
            IF v \in WithStatus(calcData[id].status, "processing") THEN 1 ELSE 0
    /\ \A id \in 0..nextId \ DOMAIN calcData :
        \A r \in Requests : \A v \in Vertices(Graph[r]) : InFlight(<<id, v>>) = 0

(* README: "Decomposer sends all atomic tasks that are computable."  The     *)
(* results a task needs are in the database from the moment it is sent until *)
(* it is calculated, whatever the other requests write and clear meanwhile.  *)
OperandsReady ==
    \A t \in open \cup {taskPipe[i] : i \in DOMAIN taskPipe} :
        \A i \in DOMAIN t.operands :
            "id" \in DOMAIN t.operands[i] => t.operands[i].id \in DOMAIN db

(* A request that is over leaves no intermediate result in the database:     *)
(* every row belongs to a problem whose handler has still to clear it.       *)
NoResidue ==
    \A row \in DOMAIN db : \E r \in Requests :
        /\ problemId[r] = row[1]
        /\ handler[r] \in {"wait", "asleep", "clear", "clearing", "read", "clear_db"}

(* As long as the manager is not restarted, what a finished request returns  *)
(* is the value of its own expression, even when replies are given twice and *)
(* the unsynchronised lookups of other requests throw or end the process.    *)
CorrectUnlessRestarted == managerRestarts = 0 => CorrectResult

(* README: "The system is asynchronous which allows to process multiple      *)
(* requests from users simultaneously."  No request ends the process.        *)
ManagerSurvives == managerUp

(* The at() of UpdateComputableTasks throws in the dispatcher thread for a   *)
(* reply given twice whose problem is cleared, or for one that a restarted   *)
(* manager did not send; a lookup by a handler races with the modification   *)
(* of the map; is_computed is set in the SyncData of a handler whose lookup  *)
(* threw.  Nothing else ends the process: no reply given once is ever        *)
(* unexpected, and no handler finds its own problem missing.                 *)
ManagerEndHasCause ==
    ~managerUp =>
        \/ /\ dispatcher = "update"
           /\ \/ duplicates > 0 /\ reply[1] \notin DOMAIN calcData
              \/ managerRestarts > 0 /\ ~Known(reply[1], reply[2])
        \/ /\ "crash" \in RaceOutcomes
           /\ \E r \in Requests : handler[r] = "wait" /\ MapInMotion(r)
        \/ /\ "out_of_range" \in RaceOutcomes
           /\ dispatcher = "computed" /\ handler[syncData[reply[1]]] = "failed"
=============================================================================
