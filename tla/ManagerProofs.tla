--------------------------- MODULE ManagerProofs ---------------------------
(***************************************************************************)
(* Proofs about the manager (module Manager), for any set of requests and  *)
(* any graphs, whatever an unsynchronised lookup yields, with replies      *)
(* given twice and with restarts: how its threads share their state, and   *)
(* that, unless it is restarted, it answers a request with the value of    *)
(* its expression.                                                         *)
(***************************************************************************)
EXTENDS Manager, AnswersProofs, FiniteSetTheorems

(* Every PROBLEM_ID given out belongs to a handler that has left PushProblem *)
(* behind: the counter never passes the number of requests.                  *)
IdsCounted == nextId <= Cardinality(PastPush)

(* m_ is held by the handler inside PushProblem or ClearProblem, or by the   *)
(* dispatcher thread from LockForSend to the last task sent and from the     *)
(* reply of the last task of a problem to notify_all.                        *)
LockDiscipline ==
    /\ \A r \in Requests : m = r <=> handler[r] \in {"pushing", "clearing"}
    /\ m = "dispatcher" <=> dispatcher \in {"sending", "computed", "notify"}

(* A handler that waits or is about to clear is registered in both maps.     *)
Registered ==
    /\ \A id \in DOMAIN calcData : calcData[id].request = syncData[id]
    /\ \A r \in Requests :
        handler[r] \in {"wait", "asleep", "clear", "clearing"}
            => problemId[r] \in DOMAIN syncData /\ syncData[problemId[r]] = r

(* The problem the dispatcher thread is about to report is still registered. *)
ReportsKnownProblem ==
    dispatcher \in {"computed", "notify"} => reply[1] \in DOMAIN syncData

SyncInv ==
    /\ TypeOK /\ IdsCounted
    /\ LockDiscipline /\ Registered /\ ReportsKnownProblem
    /\ SyncDataAlive /\ NoLostWakeup

-----------------------------------------------------------------------------
(* The steps that move the manager, one by one.                              *)
LEMMA ManagerSteps ==
    ASSUME [Next]_vars
    PROVE  \/ UNCHANGED managerVars
           \/ RestartManager
           \/ \E r \in Requests :
                \/ Decompose(r) \/ LockForPush(r) \/ PushProblem(r)
                \/ TestComputed(r) \/ WakeSpuriously(r)
                \/ LockForClear(r) \/ ClearProblem(r)
                \/ ReadResult(r) \/ ClearDatabase(r)
           \/ LockForSend
           \/ \E id \in ProblemsToSend : \E task \in DOMAIN calcData[id].computable :
                SendTask(id, task)
           \/ AllSent \/ ReadReply \/ UpdateComputableTasks \/ SetComputed \/ NotifyAll
  BY DEF Next, vars, ManagerNext, HandlerStep, DispatcherStep, ReportAgain

(* A CalculationData is made of a request, statuses of some of its vertices  *)
(* and the operands of some of its vertices, ...                             *)
LEMMA DataIntro ==
    ASSUME NEW r \in Requests, NEW S \in SUBSET Vertices(Graph[r]),
           NEW status \in [S -> {"processing", "completed"}],
           NEW T \in SUBSET Vertices(Graph[r])
    PROVE  [request |-> r, status |-> status,
            computable |-> [v \in T |-> Graph[r].adj[v]]] \in CalculationData(r)
  BY DEF CalculationData

(* ... and of nothing else.                                                  *)
LEMMA DataElim ==
    ASSUME NEW r \in Requests, NEW c \in CalculationData(r)
    PROVE  /\ c = [request |-> c.request, status |-> c.status, computable |-> c.computable]
           /\ c.request = r
           /\ DOMAIN c.status \subseteq Vertices(Graph[r])
           /\ c.status \in [DOMAIN c.status -> {"processing", "completed"}]
           /\ DOMAIN c.computable \subseteq Vertices(Graph[r])
           /\ c.computable = [v \in DOMAIN c.computable |-> Graph[r].adj[v]]
  BY DEF CalculationData

-----------------------------------------------------------------------------
(* Changing one entry of a problem leaves the other problems as they are.    *)
CalcType == \A id \in DOMAIN calcData : \E r \in Requests : calcData[id] \in CalculationData(r)

(* The statuses and the computable tasks of a problem can be replaced.       *)
LEMMA DataUpdate ==
    ASSUME CalcType, NEW id \in DOMAIN calcData,
           NEW r \in Requests, calcData[id] \in CalculationData(r),
           NEW status, NEW computable,
           status \in [DOMAIN status -> {"processing", "completed"}],
           DOMAIN status \subseteq Vertices(Graph[r]),
           DOMAIN computable \subseteq Vertices(Graph[r]),
           computable = [v \in DOMAIN computable |-> Graph[r].adj[v]],
           DOMAIN calcData' = DOMAIN calcData,
           \A i \in DOMAIN calcData : i # id => calcData'[i] = calcData[i],
           calcData'[id] = [request |-> r, status |-> status, computable |-> computable]
    PROVE  /\ CalcType'
           /\ \A i \in DOMAIN calcData : calcData'[i].request = calcData[i].request
  <1>1. calcData[id].request = r
    BY DataElim
  <1>2. calcData'[id] \in CalculationData(r)
    BY DataIntro
  <1> QED
    BY <1>1, <1>2 DEF CalcType

(* The same for the last task of a problem: only its statuses change.        *)
LEMMA StatusUpdate ==
    ASSUME CalcType, NEW id \in DOMAIN calcData, NEW task \in DOMAIN calcData[id].status,
           calcData' = [calcData EXCEPT ![id].status[task] = "completed"]
    PROVE  /\ CalcType'
           /\ DOMAIN calcData' = DOMAIN calcData
           /\ \A i \in DOMAIN calcData : calcData'[i].request = calcData[i].request
           /\ \A i \in DOMAIN calcData : i # id => calcData'[i] = calcData[i]
           /\ calcData'[id] = [request |-> calcData[id].request,
                               status |-> [calcData[id].status EXCEPT ![task] = "completed"],
                               computable |-> calcData[id].computable]
  <1>1. PICK q \in Requests : calcData[id] \in CalculationData(q)
    BY DEF CalcType
  <1> DEFINE c == calcData[id]
             status == [c.status EXCEPT ![task] = "completed"]
  <1>2. /\ c = [request |-> q, status |-> c.status, computable |-> c.computable]
        /\ c.request = q
        /\ DOMAIN c.status \subseteq Vertices(Graph[q])
        /\ c.status \in [DOMAIN c.status -> {"processing", "completed"}]
        /\ DOMAIN c.computable \subseteq Vertices(Graph[q])
        /\ c.computable = [v \in DOMAIN c.computable |-> Graph[q].adj[v]]
    BY <1>1, DataElim
  <1>3. status \in [DOMAIN c.status -> {"processing", "completed"}]
    BY <1>2
  <1>4. calcData'[id] = [request |-> q, status |-> status, computable |-> c.computable]
    BY <1>2
  <1>5. calcData'[id] \in CalculationData(q)
    <2> HIDE DEF status, c
    <2> QED
      BY <1>2, <1>3, <1>4, DataIntro
  <1> QED
    BY <1>1, <1>2, <1>4, <1>5 DEF CalcType

(* CalculationData::New is of the type.                                      *)
LEMMA NewType ==
    ASSUME NEW r \in Requests
    PROVE  /\ New(r) \in CalculationData(r)
           /\ New(r).request = r
  <1> DEFINE leaves == DOMAIN GetIndependentTasks(Graph[r])
             free == DOMAIN GetComputableTasks(Graph[r], leaves, {})
  <1>1. leaves \subseteq Vertices(Graph[r]) /\ free \subseteq Vertices(Graph[r])
    BY DEF GetIndependentTasks, GetComputableTasks
  <1>2. GetComputableTasks(Graph[r], leaves, {}) = [v \in free |-> Graph[r].adj[v]]
    BY DEF GetComputableTasks
  <1>3. [v \in leaves |-> "completed"] \in [leaves -> {"processing", "completed"}]
    OBVIOUS
  <1> HIDE DEF leaves, free
  <1>4. New(r) = [request |-> r, status |-> [v \in leaves |-> "completed"],
                  computable |-> [v \in free |-> Graph[r].adj[v]]]
    BY <1>2 DEF New, leaves
  <1> QED
    BY <1>1, <1>3, <1>4, DataIntro

(* SendComputableTasks moves a task from the computable to the processed.    *)
LEMMA SendTaskData ==
    ASSUME CalcType, NEW id \in DOMAIN calcData, NEW task \in DOMAIN calcData[id].computable,
           SendTask(id, task)
    PROVE  /\ CalcType'
           /\ DOMAIN calcData' = DOMAIN calcData
           /\ \A i \in DOMAIN calcData : calcData'[i].request = calcData[i].request
           /\ \A i \in DOMAIN calcData : i # id => calcData'[i] = calcData[i]
           /\ calcData'[id] =
                [request |-> calcData[id].request,
                 status |-> [v \in DOMAIN calcData[id].status \cup {task} |->
                               IF v = task THEN "processing" ELSE calcData[id].status[v]],
                 computable |-> [v \in DOMAIN calcData[id].computable \ {task} |->
                                   calcData[id].computable[v]]]
  <1> DEFINE c == calcData[id]
             status == [v \in DOMAIN c.status \cup {task} |->
                          IF v = task THEN "processing" ELSE c.status[v]]
             computable == [v \in DOMAIN c.computable \ {task} |-> c.computable[v]]
  <1>1. PICK q \in Requests : c \in CalculationData(q)
    BY DEF CalcType
  <1>2. /\ c = [request |-> q, status |-> c.status, computable |-> c.computable]
        /\ c.request = q
        /\ DOMAIN c.status \subseteq Vertices(Graph[q])
        /\ c.status \in [DOMAIN c.status -> {"processing", "completed"}]
        /\ DOMAIN c.computable \subseteq Vertices(Graph[q])
        /\ c.computable = [v \in DOMAIN c.computable |-> Graph[q].adj[v]]
    BY <1>1, DataElim
  <1>3. status \in [DOMAIN status -> {"processing", "completed"}]
    BY <1>2
  <1>4. DOMAIN status \subseteq Vertices(Graph[q])
    BY <1>2
  <1>5. /\ DOMAIN computable \subseteq Vertices(Graph[q])
        /\ computable = [v \in DOMAIN computable |-> Graph[q].adj[v]]
    BY <1>2
  <1>6. /\ DOMAIN calcData' = DOMAIN calcData
        /\ \A i \in DOMAIN calcData : i # id => calcData'[i] = calcData[i]
    BY DEF SendTask
  <1>7. calcData'[id] = [request |-> q, status |-> status, computable |-> computable]
    BY <1>2 DEF SendTask
  <1> HIDE DEF status, computable
  <1>8. /\ CalcType'
        /\ \A i \in DOMAIN calcData : calcData'[i].request = calcData[i].request
    BY <1>1, <1>3, <1>4, <1>5, <1>6, <1>7, DataUpdate
  <1> QED
    BY <1>2, <1>6, <1>7, <1>8 DEF status, computable

(* UpdateComputableTasksImpl completes a task and looks for computable ones. *)
LEMMA UpdateData ==
    ASSUME CalcType, NEW id \in DOMAIN calcData, NEW task \in DOMAIN calcData[id].status,
           UpdateComputableTasksImpl(id, task)
    PROVE  LET status == [calcData[id].status EXCEPT ![task] = "completed"]
           IN  /\ CalcType'
               /\ DOMAIN calcData' = DOMAIN calcData
               /\ \A i \in DOMAIN calcData : calcData'[i].request = calcData[i].request
               /\ \A i \in DOMAIN calcData : i # id => calcData'[i] = calcData[i]
               /\ calcData'[id] =
                    [request |-> calcData[id].request,
                     status |-> status,
                     computable |-> GetComputableTasks(Graph[calcData[id].request],
                                                       WithStatus(status, "completed"),
                                                       WithStatus(status, "processing"))]
  <1> DEFINE c == calcData[id]
             status == [c.status EXCEPT ![task] = "completed"]
             computable == GetComputableTasks(Graph[c.request],
                                              WithStatus(status, "completed"),
                                              WithStatus(status, "processing"))
  <1>1. PICK q \in Requests : c \in CalculationData(q)
    BY DEF CalcType
  <1>2. /\ c = [request |-> q, status |-> c.status, computable |-> c.computable]
        /\ c.request = q
        /\ DOMAIN c.status \subseteq Vertices(Graph[q])
        /\ c.status \in [DOMAIN c.status -> {"processing", "completed"}]
    <2> HIDE DEF c
    <2> QED
      BY <1>1, DataElim
  <1>3. status \in [DOMAIN status -> {"processing", "completed"}]
    BY <1>2
  <1>4. DOMAIN status \subseteq Vertices(Graph[q])
    BY <1>2
  <1>5. /\ DOMAIN computable \subseteq Vertices(Graph[q])
        /\ computable = [v \in DOMAIN computable |-> Graph[q].adj[v]]
    BY <1>2 DEF GetComputableTasks
  <1>6. /\ DOMAIN calcData' = DOMAIN calcData
        /\ \A i \in DOMAIN calcData : i # id => calcData'[i] = calcData[i]
    BY DEF UpdateComputableTasksImpl
  <1>7. calcData'[id] = [request |-> q, status |-> status, computable |-> computable]
    BY <1>2 DEF UpdateComputableTasksImpl
  <1> HIDE DEF status, computable
  <1>8. /\ CalcType'
        /\ \A i \in DOMAIN calcData : calcData'[i].request = calcData[i].request
    BY <1>1, <1>3, <1>4, <1>5, <1>6, <1>7, DataUpdate
  <1> QED
    BY <1>2, <1>6, <1>7, <1>8 DEF status, computable

-----------------------------------------------------------------------------
(* The type invariant without the bound on PROBLEM_ID, and the shape of a    *)
(* state in which only a handler and the holder of m_ changed.               *)
ThreadTypes ==
    /\ handler \in [Requests -> HandlerPcs]
    /\ isComputed \in [Requests -> BOOLEAN]
    /\ DOMAIN result = Requests
    /\ m \in Requests \cup {"free", "dispatcher"}
    /\ dispatcher \in {"send", "sending", "read", "update", "computed", "notify"}
    /\ managerUp \in BOOLEAN

MapTypes ==
    /\ problemId \in [Requests -> 0..nextId]
    /\ nextId \in Nat
    /\ DOMAIN calcData \subseteq 0..(nextId - 1)
    /\ CalcType
    /\ syncData \in [DOMAIN calcData -> Requests]

(* The two parts of the type invariant: the threads and the maps of the      *)
(* dispatcher.                                                               *)
LEMMA TypeParts ==
    SyncInv => ThreadTypes /\ MapTypes
  <1>1. Cardinality(Requests) \in Nat
    BY DispatcherAssumption, FS_CardinalityType
  <1> QED
    BY <1>1 DEF SyncInv, TypeOK, ThreadTypes, MapTypes, CalcType

(* Every step leaves the program counters, the mutex and the results of      *)
(* their types.                                                              *)
LEMMA ThreadTypesStep ==
    ASSUME ThreadTypes, [Next]_vars
    PROVE  ThreadTypes'
  <1> USE DEF ThreadTypes, Goto, HandlerPcs
  <1>1. CASE UNCHANGED managerVars
    BY <1>1 DEF managerVars, handlerVars, threadVars
  <1>2. CASE RestartManager
    BY <1>2 DEF RestartManager
  <1>3. ASSUME NEW r \in Requests, Decompose(r)
        PROVE  ThreadTypes'
    BY <1>3 DEF Decompose, threadVars
  <1>4. ASSUME NEW r \in Requests, LockForPush(r)
        PROVE  ThreadTypes'
    BY <1>4 DEF LockForPush, threadVars
  <1>5. ASSUME NEW r \in Requests, PushProblem(r)
        PROVE  ThreadTypes'
    BY <1>5 DEF PushProblem, threadVars
  <1>6. ASSUME NEW r \in Requests, TestComputed(r)
        PROVE  ThreadTypes'
    BY <1>6 DEF TestComputed, threadVars
  <1>7. ASSUME NEW r \in Requests, WakeSpuriously(r)
        PROVE  ThreadTypes'
    BY <1>7 DEF WakeSpuriously, threadVars
  <1>8. ASSUME NEW r \in Requests, LockForClear(r)
        PROVE  ThreadTypes'
    BY <1>8 DEF LockForClear, threadVars
  <1>9. ASSUME NEW r \in Requests, ClearProblem(r)
        PROVE  ThreadTypes'
    BY <1>9 DEF ClearProblem, threadVars
  <1>10. ASSUME NEW r \in Requests, ReadResult(r)
         PROVE  ThreadTypes'
    BY <1>10 DEF ReadResult, threadVars
  <1>11. ASSUME NEW r \in Requests, ClearDatabase(r)
         PROVE  ThreadTypes'
    BY <1>11 DEF ClearDatabase, threadVars
  <1>12. CASE LockForSend
    BY <1>12 DEF LockForSend, handlerVars
  <1>13. ASSUME NEW id, NEW task, SendTask(id, task)
         PROVE  ThreadTypes'
    BY <1>13 DEF SendTask, handlerVars, threadVars
  <1>14. CASE AllSent
    BY <1>14 DEF AllSent, handlerVars
  <1>15. CASE ReadReply
    BY <1>15 DEF ReadReply, handlerVars
  <1>16. CASE UpdateComputableTasks
    BY <1>16 DEF UpdateComputableTasks, Crash, handlerVars, threadVars
  <1>17. CASE SetComputed
    BY <1>17 DEF SetComputed, Crash, handlerVars, threadVars
  <1>18. CASE NotifyAll
    BY <1>18 DEF NotifyAll
  <1> QED
    BY <1>1, <1>2, <1>3, <1>4, <1>5, <1>6, <1>7, <1>8, <1>9, <1>10, <1>11, <1>12,
       <1>13, <1>14, <1>15, <1>16, <1>17, <1>18, ManagerSteps

(* Every step leaves calculations_, the ids and the sync data of their       *)
(* types.                                                                    *)
LEMMA MapTypesStep ==
    ASSUME MapTypes, [Next]_vars
    PROVE  MapTypes'
  <1> USE DEF MapTypes
  <1>0. ASSUME UNCHANGED <<problemId, calcData, syncData, nextId>>
        PROVE  MapTypes'
    BY <1>0 DEF CalcType
  <1>1. CASE UNCHANGED managerVars
    BY <1>0, <1>1 DEF managerVars, handlerVars
  <1>2. CASE RestartManager
    BY <1>2 DEF RestartManager, CalcType
  <1>3. ASSUME NEW r \in Requests,
               \/ Decompose(r) \/ LockForPush(r) \/ TestComputed(r) \/ WakeSpuriously(r)
               \/ LockForClear(r) \/ ReadResult(r) \/ ClearDatabase(r)
        PROVE  MapTypes'
    BY <1>0, <1>3
       DEF Decompose, LockForPush, TestComputed, WakeSpuriously, LockForClear, ReadResult,
           ClearDatabase
  <1>4. ASSUME NEW r \in Requests, PushProblem(r)
        PROVE  MapTypes'
    <2>1. nextId' = nextId + 1 /\ nextId' \in Nat
      BY <1>4 DEF PushProblem
    <2>2. problemId' \in [Requests -> 0..nextId']
      BY <1>4, <2>1 DEF PushProblem
    <2>3. /\ DOMAIN calcData' = DOMAIN calcData \cup {nextId}
          /\ \A id \in DOMAIN calcData : id # nextId => calcData'[id] = calcData[id]
          /\ calcData'[nextId] = New(r)
      BY <1>4 DEF PushProblem
    <2>4. DOMAIN calcData' \subseteq 0..(nextId' - 1)
      BY <2>1, <2>3
    <2>5. CalcType'
      BY <2>3, NewType DEF CalcType
    <2>6. syncData' \in [DOMAIN calcData' -> Requests]
      BY <1>4, <2>3 DEF PushProblem
    <2> QED
      BY <2>1, <2>2, <2>4, <2>5, <2>6
  <1>5. ASSUME NEW r \in Requests, ClearProblem(r)
        PROVE  MapTypes'
    <2>1. /\ calcData' = [id \in DOMAIN calcData \ {problemId[r]} |-> calcData[id]]
          /\ syncData' = [id \in DOMAIN syncData \ {problemId[r]} |-> syncData[id]]
          /\ UNCHANGED <<problemId, nextId>>
      BY <1>5 DEF ClearProblem
    <2>2. CalcType'
      BY <2>1 DEF CalcType
    <2> QED
      BY <2>1, <2>2
  <1>6. CASE LockForSend \/ AllSent \/ ReadReply \/ SetComputed \/ NotifyAll
    BY <1>0, <1>6
       DEF LockForSend, AllSent, ReadReply, SetComputed, NotifyAll, Crash, handlerVars
  <1>7. ASSUME NEW id \in ProblemsToSend, NEW task \in DOMAIN calcData[id].computable,
               SendTask(id, task)
        PROVE  MapTypes'
    <2>1. id \in DOMAIN calcData
      BY DEF ProblemsToSend
    <2>2. CalcType' /\ DOMAIN calcData' = DOMAIN calcData
      BY <1>7, <2>1, SendTaskData
    <2>3. UNCHANGED <<problemId, syncData, nextId>>
      BY <1>7 DEF SendTask, handlerVars
    <2> QED
      BY <2>2, <2>3
  <1>8. CASE UpdateComputableTasks
    <2> DEFINE id == reply[1]
               task == reply[2]
    <2>1. UNCHANGED <<problemId, syncData, nextId>>
      BY <1>8 DEF UpdateComputableTasks, Crash, handlerVars
    <2>2. CASE UNCHANGED calcData
      BY <1>0, <2>1, <2>2
    <2>3. CASE Known(id, task) /\ calcData' = [calcData EXCEPT ![id].status[task] = "completed"]
      <3>1. CalcType' /\ DOMAIN calcData' = DOMAIN calcData
        BY <2>3, StatusUpdate DEF Known
      <3> QED
        BY <2>1, <3>1
    <2>4. CASE Known(id, task) /\ UpdateComputableTasksImpl(id, task)
      <3>1. CalcType' /\ DOMAIN calcData' = DOMAIN calcData
        BY <2>4, UpdateData DEF Known
      <3> QED
        BY <2>1, <3>1
    <2> QED
      BY <1>8, <2>2, <2>3, <2>4 DEF UpdateComputableTasks, Crash
  <1> QED
    BY <1>1, <1>2, <1>3, <1>4, <1>5, <1>6, <1>7, <1>8, ManagerSteps

-----------------------------------------------------------------------------
(* What UpdateComputableTasks does to everything but calcData.               *)
LEMMA UpdateControl ==
    ASSUME UpdateComputableTasks
    PROVE  /\ dispatcher = "update" /\ m = "free"
           /\ UNCHANGED <<handlerVars, syncData, nextId>>
           /\ \/ UNCHANGED <<m, dispatcher, reply, calcData>>
              \/ /\ m' = "dispatcher" /\ dispatcher' = "computed" /\ UNCHANGED reply
                 /\ Known(reply[1], reply[2])
              \/ UNCHANGED m /\ dispatcher' = "send"
  BY DEF UpdateComputableTasks, Crash, handlerVars, threadVars

(* Every step keeps m_ with the thread whose program counter says so.        *)
LEMMA LockStep ==
    ASSUME ThreadTypes, LockDiscipline, ReportsKnownProblem, MapTypes, [Next]_vars
    PROVE  LockDiscipline'
  <1> USE DispatcherAssumption DEF ThreadTypes, LockDiscipline, Goto
  <1>1. CASE UNCHANGED managerVars
    BY <1>1 DEF managerVars, handlerVars, threadVars
  <1>2. CASE RestartManager
    BY <1>2 DEF RestartManager
  <1>3. ASSUME NEW r \in Requests, Decompose(r)
        PROVE  LockDiscipline'
    BY <1>3 DEF Decompose, threadVars
  <1>4. ASSUME NEW r \in Requests, LockForPush(r)
        PROVE  LockDiscipline'
    BY <1>4 DEF LockForPush, threadVars
  <1>5. ASSUME NEW r \in Requests, PushProblem(r)
        PROVE  LockDiscipline'
    BY <1>5 DEF PushProblem, threadVars
  <1>6. ASSUME NEW r \in Requests, TestComputed(r)
        PROVE  LockDiscipline'
    BY <1>6 DEF TestComputed, threadVars
  <1>7. ASSUME NEW r \in Requests, WakeSpuriously(r)
        PROVE  LockDiscipline'
    BY <1>7 DEF WakeSpuriously, threadVars
  <1>8. ASSUME NEW r \in Requests, LockForClear(r)
        PROVE  LockDiscipline'
    BY <1>8 DEF LockForClear, threadVars
  <1>9. ASSUME NEW r \in Requests, ClearProblem(r)
        PROVE  LockDiscipline'
    BY <1>9 DEF ClearProblem, threadVars
  <1>10. ASSUME NEW r \in Requests, ReadResult(r)
         PROVE  LockDiscipline'
    BY <1>10 DEF ReadResult, threadVars
  <1>11. ASSUME NEW r \in Requests, ClearDatabase(r)
         PROVE  LockDiscipline'
    BY <1>11 DEF ClearDatabase, threadVars
  <1>12. CASE LockForSend
    BY <1>12 DEF LockForSend, handlerVars
  <1>13. ASSUME NEW id \in ProblemsToSend, NEW task \in DOMAIN calcData[id].computable,
                SendTask(id, task)
         PROVE  LockDiscipline'
    BY <1>13 DEF SendTask, handlerVars, threadVars
  <1>14. CASE AllSent
    BY <1>14 DEF AllSent, handlerVars
  <1>15. CASE ReadReply
    BY <1>15 DEF ReadReply, handlerVars
  <1>16. CASE UpdateComputableTasks
    BY <1>16, UpdateControl DEF handlerVars
  <1>17. CASE SetComputed
    BY <1>17 DEF SetComputed, Crash, handlerVars, threadVars
  <1>18. CASE NotifyAll
    BY <1>18 DEF NotifyAll
  <1> QED
    BY <1>1, <1>2, <1>3, <1>4, <1>5, <1>6, <1>7, <1>8, <1>9, <1>10, <1>11, <1>12,
       <1>13, <1>14, <1>15, <1>16, <1>17, <1>18, ManagerSteps

(* Every step keeps the next id at most the number of handlers past          *)
(* PushProblem.                                                              *)
LEMMA IdsStep ==
    ASSUME ThreadTypes, MapTypes, IdsCounted, [Next]_vars
    PROVE  IdsCounted'
  <1>1. ASSUME NEW S \in SUBSET Requests PROVE IsFiniteSet(S) /\ Cardinality(S) \in Nat
    BY DispatcherAssumption, FS_Subset, FS_CardinalityType
  <1>2. ASSUME PastPush \subseteq PastPush', nextId' = nextId
        PROVE  IdsCounted'
    <2>1. IsFiniteSet(PastPush') /\ Cardinality(PastPush') \in Nat /\ Cardinality(PastPush) \in Nat
      BY <1>1 DEF PastPush
    <2>2. Cardinality(PastPush) <= Cardinality(PastPush')
      BY <1>2, <2>1, FS_Subset
    <2> QED
      BY <1>2, <2>1, <2>2 DEF IdsCounted, MapTypes
  <1>3. CASE UNCHANGED managerVars
    BY <1>2, <1>3 DEF managerVars, handlerVars, PastPush
  <1>4. CASE RestartManager
    <2>1. nextId' = 0 /\ Cardinality(PastPush') \in Nat
      BY <1>1, <1>4 DEF RestartManager, PastPush
    <2> QED
      BY <2>1 DEF IdsCounted
  <1>5. ASSUME NEW r \in Requests, PushProblem(r)
        PROVE  IdsCounted'
    <2>1. r \notin PastPush /\ PastPush' = PastPush \cup {r}
      BY <1>5 DEF PushProblem, PastPush, Goto, ThreadTypes
    <2>2. Cardinality(PastPush') = Cardinality(PastPush) + 1 /\ Cardinality(PastPush) \in Nat
      BY <1>1, <2>1, FS_AddElement DEF PastPush
    <2> QED
      BY <1>5, <2>2 DEF IdsCounted, PushProblem, MapTypes
  <1>6. ASSUME NEW r \in Requests,
               \/ Decompose(r) \/ LockForPush(r) \/ TestComputed(r) \/ WakeSpuriously(r)
               \/ LockForClear(r) \/ ClearProblem(r) \/ ReadResult(r) \/ ClearDatabase(r)
        PROVE  IdsCounted'
    <2>1. PastPush \subseteq PastPush' /\ nextId' = nextId
      BY <1>6
         DEF Decompose, LockForPush, TestComputed, WakeSpuriously, LockForClear, ClearProblem,
             ReadResult, ClearDatabase, PastPush, Goto, ThreadTypes
    <2> QED
      BY <1>2, <2>1
  <1>7. ASSUME \/ LockForSend \/ AllSent \/ ReadReply \/ UpdateComputableTasks
               \/ SetComputed \/ NotifyAll
               \/ \E id \in ProblemsToSend : \E task \in DOMAIN calcData[id].computable :
                    SendTask(id, task)
        PROVE  IdsCounted'
    <2>1. PastPush \subseteq PastPush' /\ nextId' = nextId
      BY <1>7
         DEF LockForSend, AllSent, ReadReply, UpdateComputableTasks, SetComputed, NotifyAll,
             SendTask, Crash, handlerVars, PastPush, ThreadTypes
    <2> QED
      BY <1>2, <2>1
  <1> QED
    BY <1>3, <1>4, <1>5, <1>6, <1>7, ManagerSteps

(* The requests of the problems are the same after UpdateComputableTasks.    *)
LEMMA UpdateRequests ==
    ASSUME MapTypes, UpdateComputableTasks
    PROVE  /\ DOMAIN calcData' = DOMAIN calcData
           /\ \A id \in DOMAIN calcData : calcData'[id].request = calcData[id].request
  <1>1. CASE UNCHANGED calcData
    BY <1>1
  <1>2. CASE /\ Known(reply[1], reply[2])
             /\ calcData' = [calcData EXCEPT ![reply[1]].status[reply[2]] = "completed"]
    BY <1>2, StatusUpdate DEF Known, MapTypes
  <1>3. CASE Known(reply[1], reply[2]) /\ UpdateComputableTasksImpl(reply[1], reply[2])
    BY <1>3, UpdateData DEF Known, MapTypes
  <1> QED
    BY <1>1, <1>2, <1>3 DEF UpdateComputableTasks, Crash

(* What TestComputed does: the handler leaves, sleeps, fails or nothing      *)
(* moves any more.                                                           *)
LEMMA TestControl ==
    ASSUME NEW r \in Requests, TestComputed(r)
    PROVE  /\ handler[r] = "wait"
           /\ \/ handler' = [handler EXCEPT ![r] = "clear"] /\ isComputed[r]
              \/ handler' = [handler EXCEPT ![r] = "asleep"] /\ ~isComputed[r]
              \/ /\ handler' = [handler EXCEPT ![r] = "failed"]
                 /\ "out_of_range" \in RaceOutcomes
              \/ UNCHANGED handler
           /\ UNCHANGED <<problemId, isComputed, result, calcData, syncData, m, nextId>>
           /\ UNCHANGED <<dispatcher, reply>>
  BY DEF TestComputed, Lookups, Goto, threadVars

(* What SetComputed does: is_computed is set, or the SyncData was dead.      *)
LEMMA SetControl ==
    ASSUME SetComputed
    PROVE  /\ dispatcher = "computed" /\ dispatcher' \in {"computed", "notify"}
           /\ \/ UNCHANGED isComputed
              \/ /\ dispatcher' = "notify" /\ ~Gone(syncData[reply[1]])
                 /\ isComputed' = [isComputed EXCEPT ![syncData[reply[1]]] = TRUE]
           /\ UNCHANGED <<handler, problemId, result, calcData, syncData, m, nextId, reply>>
  BY DEF SetComputed, Crash, handlerVars, threadVars

-----------------------------------------------------------------------------
(* What a step needs to know of the state before it.                         *)
Before ==
    /\ ThreadTypes /\ MapTypes /\ LockDiscipline
    /\ Registered /\ ReportsKnownProblem /\ SyncDataAlive

(* Every step keeps the problem of a handler that waits or is about to       *)
(* clear in both maps, under its own id.                                     *)
LEMMA RegisteredStep ==
    ASSUME Before, [Next]_vars
    PROVE  Registered'
  <1> USE DispatcherAssumption
      DEF Before, ThreadTypes, MapTypes, LockDiscipline, Registered, SyncDataAlive
  <1>1. CASE UNCHANGED managerVars
    BY <1>1 DEF managerVars, handlerVars, threadVars
  <1>2. CASE RestartManager
    BY <1>2 DEF RestartManager
  <1>3. ASSUME NEW r \in Requests, Decompose(r)
        PROVE  Registered'
    BY <1>3 DEF Decompose, Goto, threadVars
  <1>4. ASSUME NEW r \in Requests, LockForPush(r)
        PROVE  Registered'
    BY <1>4 DEF LockForPush, Goto, threadVars
  <1>5. ASSUME NEW r \in Requests, PushProblem(r)
        PROVE  Registered'
    <2>1. /\ handler[r] = "pushing" /\ handler' = [handler EXCEPT ![r] = "wait"]
          /\ problemId' = [problemId EXCEPT ![r] = nextId]
          /\ DOMAIN calcData' = DOMAIN calcData \cup {nextId}
          /\ \A id \in DOMAIN calcData : id # nextId => calcData'[id] = calcData[id]
          /\ calcData'[nextId] = New(r)
          /\ DOMAIN syncData' = DOMAIN syncData \cup {nextId}
          /\ \A id \in DOMAIN syncData : id # nextId => syncData'[id] = syncData[id]
          /\ syncData'[nextId] = r
      BY <1>5 DEF PushProblem, Goto
    <2>2. nextId \notin DOMAIN calcData /\ New(r).request = r
      BY NewType
    <2> QED
      BY <2>1, <2>2
  <1>6. ASSUME NEW r \in Requests, TestComputed(r)
        PROVE  Registered'
    BY <1>6, TestControl
  <1>7. ASSUME NEW r \in Requests, WakeSpuriously(r)
        PROVE  Registered'
    BY <1>7 DEF WakeSpuriously, Goto, threadVars
  <1>8. ASSUME NEW r \in Requests, LockForClear(r)
        PROVE  Registered'
    BY <1>8 DEF LockForClear, Goto, threadVars
  <1>9. ASSUME NEW r \in Requests, ClearProblem(r)
        PROVE  Registered'
    BY <1>9 DEF ClearProblem, Goto, threadVars
  <1>10. ASSUME NEW r \in Requests, ReadResult(r)
         PROVE  Registered'
    BY <1>10 DEF ReadResult, Goto, threadVars
  <1>11. ASSUME NEW r \in Requests, ClearDatabase(r)
         PROVE  Registered'
    BY <1>11 DEF ClearDatabase, Goto, threadVars
  <1>12. CASE LockForSend
    BY <1>12 DEF LockForSend, handlerVars
  <1>13. ASSUME NEW id \in ProblemsToSend, NEW task \in DOMAIN calcData[id].computable,
                SendTask(id, task)
         PROVE  Registered'
    BY <1>13 DEF SendTask, handlerVars, threadVars
  <1>14. CASE AllSent
    BY <1>14 DEF AllSent, handlerVars
  <1>15. CASE ReadReply
    BY <1>15 DEF ReadReply, handlerVars
  <1>16. CASE UpdateComputableTasks
    BY <1>16, UpdateControl, UpdateRequests DEF handlerVars, Known
  <1>17. CASE SetComputed
    BY <1>17, SetControl
  <1>18. CASE NotifyAll
    BY <1>18 DEF NotifyAll
  <1> QED
    BY <1>1, <1>2, <1>3, <1>4, <1>5, <1>6, <1>7, <1>8, <1>9, <1>10, <1>11, <1>12,
       <1>13, <1>14, <1>15, <1>16, <1>17, <1>18, ManagerSteps

(* Every step keeps the problem known between the lookup and the             *)
(* notification.                                                             *)
LEMMA ReportsStep ==
    ASSUME Before, [Next]_vars
    PROVE  ReportsKnownProblem'
  <1> USE DispatcherAssumption
      DEF Before, ThreadTypes, MapTypes, LockDiscipline, ReportsKnownProblem
  <1>1. CASE UNCHANGED managerVars
    BY <1>1 DEF managerVars, handlerVars, threadVars
  <1>2. CASE RestartManager
    BY <1>2 DEF RestartManager
  <1>3. ASSUME NEW r \in Requests, Decompose(r)
        PROVE  ReportsKnownProblem'
    BY <1>3 DEF Decompose, Goto, threadVars
  <1>4. ASSUME NEW r \in Requests, LockForPush(r)
        PROVE  ReportsKnownProblem'
    BY <1>4 DEF LockForPush, Goto, threadVars
  <1>5. ASSUME NEW r \in Requests, PushProblem(r)
        PROVE  ReportsKnownProblem'
    BY <1>5 DEF PushProblem, Goto, threadVars
  <1>6. ASSUME NEW r \in Requests, TestComputed(r)
        PROVE  ReportsKnownProblem'
    BY <1>6, TestControl
  <1>7. ASSUME NEW r \in Requests, WakeSpuriously(r)
        PROVE  ReportsKnownProblem'
    BY <1>7 DEF WakeSpuriously, Goto, threadVars
  <1>8. ASSUME NEW r \in Requests, LockForClear(r)
        PROVE  ReportsKnownProblem'
    BY <1>8 DEF LockForClear, Goto, threadVars
  <1>9. ASSUME NEW r \in Requests, ClearProblem(r)
        PROVE  ReportsKnownProblem'
    BY <1>9 DEF ClearProblem, Goto, threadVars
  <1>10. ASSUME NEW r \in Requests, ReadResult(r)
         PROVE  ReportsKnownProblem'
    BY <1>10 DEF ReadResult, Goto, threadVars
  <1>11. ASSUME NEW r \in Requests, ClearDatabase(r)
         PROVE  ReportsKnownProblem'
    BY <1>11 DEF ClearDatabase, Goto, threadVars
  <1>12. CASE LockForSend
    BY <1>12 DEF LockForSend, handlerVars
  <1>13. ASSUME NEW id \in ProblemsToSend, NEW task \in DOMAIN calcData[id].computable,
                SendTask(id, task)
         PROVE  ReportsKnownProblem'
    BY <1>13 DEF SendTask, handlerVars, threadVars
  <1>14. CASE AllSent
    BY <1>14 DEF AllSent, handlerVars
  <1>15. CASE ReadReply
    BY <1>15 DEF ReadReply, handlerVars
  <1>16. CASE UpdateComputableTasks
    BY <1>16, UpdateControl, UpdateRequests DEF handlerVars, Known
  <1>17. CASE SetComputed
    BY <1>17, SetControl
  <1>18. CASE NotifyAll
    BY <1>18 DEF NotifyAll
  <1> QED
    BY <1>1, <1>2, <1>3, <1>4, <1>5, <1>6, <1>7, <1>8, <1>9, <1>10, <1>11, <1>12,
       <1>13, <1>14, <1>15, <1>16, <1>17, <1>18, ManagerSteps

(* Every step keeps the sync data, which live on the handler's stack,        *)
(* alive while the maps refer to them.                                       *)
LEMMA AliveStep ==
    ASSUME Before, [Next]_vars
    PROVE  SyncDataAlive'
  <1> USE DispatcherAssumption
      DEF Before, ThreadTypes, MapTypes, LockDiscipline, SyncDataAlive, Registered
  <1>1. CASE UNCHANGED managerVars
    BY <1>1 DEF managerVars, handlerVars, threadVars
  <1>2. CASE RestartManager
    BY <1>2 DEF RestartManager
  <1>3. ASSUME NEW r \in Requests, Decompose(r)
        PROVE  SyncDataAlive'
    BY <1>3 DEF Decompose, Goto, threadVars
  <1>4. ASSUME NEW r \in Requests, LockForPush(r)
        PROVE  SyncDataAlive'
    BY <1>4 DEF LockForPush, Goto, threadVars
  <1>5. ASSUME NEW r \in Requests, PushProblem(r)
        PROVE  SyncDataAlive'
    BY <1>5 DEF PushProblem, Goto, threadVars
  <1>6. ASSUME NEW r \in Requests, TestComputed(r)
        PROVE  SyncDataAlive'
    BY <1>6, TestControl
  <1>7. ASSUME NEW r \in Requests, WakeSpuriously(r)
        PROVE  SyncDataAlive'
    BY <1>7 DEF WakeSpuriously, Goto, threadVars
  <1>8. ASSUME NEW r \in Requests, LockForClear(r)
        PROVE  SyncDataAlive'
    BY <1>8 DEF LockForClear, Goto, threadVars
  <1>9. ASSUME NEW r \in Requests, ClearProblem(r)
        PROVE  SyncDataAlive'
    BY <1>9 DEF ClearProblem, Goto, threadVars
  <1>10. ASSUME NEW r \in Requests, ReadResult(r)
         PROVE  SyncDataAlive'
    BY <1>10 DEF ReadResult, Goto, threadVars
  <1>11. ASSUME NEW r \in Requests, ClearDatabase(r)
         PROVE  SyncDataAlive'
    BY <1>11 DEF ClearDatabase, Goto, threadVars
  <1>12. CASE LockForSend
    BY <1>12 DEF LockForSend, handlerVars
  <1>13. ASSUME NEW id \in ProblemsToSend, NEW task \in DOMAIN calcData[id].computable,
                SendTask(id, task)
         PROVE  SyncDataAlive'
    BY <1>13 DEF SendTask, handlerVars, threadVars
  <1>14. CASE AllSent
    BY <1>14 DEF AllSent, handlerVars
  <1>15. CASE ReadReply
    BY <1>15 DEF ReadReply, handlerVars
  <1>16. CASE UpdateComputableTasks
    BY <1>16, UpdateControl, UpdateRequests DEF handlerVars, Known
  <1>17. CASE SetComputed
    BY <1>17, SetControl
  <1>18. CASE NotifyAll
    BY <1>18 DEF NotifyAll
  <1> QED
    BY <1>1, <1>2, <1>3, <1>4, <1>5, <1>6, <1>7, <1>8, <1>9, <1>10, <1>11, <1>12,
       <1>13, <1>14, <1>15, <1>16, <1>17, <1>18, ManagerSteps

(* Every step keeps a computed, sleeping handler one that is about to be     *)
(* notified: the handler tests is_computed and sleeps in one step of cv_m,   *)
(* and between the flag and notify_all the dispatcher thread keeps m_.       *)
LEMMA WakeupStep ==
    ASSUME Before, NoLostWakeup, [Next]_vars
    PROVE  NoLostWakeup'
  <1> USE DispatcherAssumption
      DEF Before, ThreadTypes, MapTypes, LockDiscipline, SyncDataAlive, NoLostWakeup
  <1>1. CASE UNCHANGED managerVars
    BY <1>1 DEF managerVars, handlerVars, threadVars
  <1>2. CASE RestartManager
    BY <1>2 DEF RestartManager
  <1>3. ASSUME NEW r \in Requests, Decompose(r)
        PROVE  NoLostWakeup'
    BY <1>3 DEF Decompose, Goto, threadVars
  <1>4. ASSUME NEW r \in Requests, LockForPush(r)
        PROVE  NoLostWakeup'
    BY <1>4 DEF LockForPush, Goto, threadVars
  <1>5. ASSUME NEW r \in Requests, PushProblem(r)
        PROVE  NoLostWakeup'
    BY <1>5 DEF PushProblem, Goto, threadVars
  <1>6. ASSUME NEW r \in Requests, TestComputed(r)
        PROVE  NoLostWakeup'
    BY <1>6, TestControl
  <1>7. ASSUME NEW r \in Requests, WakeSpuriously(r)
        PROVE  NoLostWakeup'
    BY <1>7 DEF WakeSpuriously, Goto, threadVars
  <1>8. ASSUME NEW r \in Requests, LockForClear(r)
        PROVE  NoLostWakeup'
    BY <1>8 DEF LockForClear, Goto, threadVars
  <1>9. ASSUME NEW r \in Requests, ClearProblem(r)
        PROVE  NoLostWakeup'
    BY <1>9 DEF ClearProblem, Goto, threadVars
  <1>10. ASSUME NEW r \in Requests, ReadResult(r)
         PROVE  NoLostWakeup'
    BY <1>10 DEF ReadResult, Goto, threadVars
  <1>11. ASSUME NEW r \in Requests, ClearDatabase(r)
         PROVE  NoLostWakeup'
    BY <1>11 DEF ClearDatabase, Goto, threadVars
  <1>12. CASE LockForSend
    BY <1>12 DEF LockForSend, handlerVars
  <1>13. ASSUME NEW id \in ProblemsToSend, NEW task \in DOMAIN calcData[id].computable,
                SendTask(id, task)
         PROVE  NoLostWakeup'
    BY <1>13 DEF SendTask, handlerVars, threadVars
  <1>14. CASE AllSent
    BY <1>14 DEF AllSent, handlerVars
  <1>15. CASE ReadReply
    BY <1>15 DEF ReadReply, handlerVars
  <1>16. CASE UpdateComputableTasks
    BY <1>16, UpdateControl, UpdateRequests DEF handlerVars, Known
  <1>17. CASE SetComputed
    BY <1>17, SetControl
  <1>18. CASE NotifyAll
    BY <1>18 DEF NotifyAll
  <1> QED
    BY <1>1, <1>2, <1>3, <1>4, <1>5, <1>6, <1>7, <1>8, <1>9, <1>10, <1>11, <1>12,
       <1>13, <1>14, <1>15, <1>16, <1>17, <1>18, ManagerSteps

-----------------------------------------------------------------------------
(* The synchronisation invariant holds when the manager starts.              *)
LEMMA SyncInit == Init => SyncInv
  <1> SUFFICES ASSUME Init PROVE SyncInv
    OBVIOUS
  <1> USE DEF Init, ManagerInit
  <1>1. Cardinality(Requests) \in Nat
    BY DispatcherAssumption, FS_CardinalityType
  <1>2. TypeOK
    BY <1>1 DEF TypeOK, HandlerPcs
  <1>3. IdsCounted
    <2>1. PastPush = {}
      BY DEF PastPush
    <2> QED
      BY <2>1, FS_EmptySet DEF IdsCounted
  <1>4. LockDiscipline /\ Registered /\ ReportsKnownProblem
    BY DispatcherAssumption DEF LockDiscipline, Registered, ReportsKnownProblem
  <1>5. SyncDataAlive /\ NoLostWakeup
    BY DEF SyncDataAlive, NoLostWakeup
  <1> QED
    BY <1>2, <1>3, <1>4, <1>5 DEF SyncInv

(* The synchronisation invariant is inductive, restarts and duplicates       *)
(* included.                                                                 *)
LEMMA SyncStep ==
    ASSUME SyncInv, [Next]_vars
    PROVE  SyncInv'
  <1>1. Before
    BY TypeParts DEF Before, SyncInv
  <1>2. ThreadTypes' /\ MapTypes' /\ IdsCounted'
    BY <1>1, ThreadTypesStep, MapTypesStep, IdsStep DEF Before, SyncInv
  <1>3. LockDiscipline' /\ Registered' /\ ReportsKnownProblem'
    BY <1>1, LockStep, RegisteredStep, ReportsStep DEF Before
  <1>4. SyncDataAlive' /\ NoLostWakeup'
    BY <1>1, AliveStep, WakeupStep DEF SyncInv
  <1>5. nextId' \in 0..Cardinality(Requests)
    <2>1. IsFiniteSet(Requests) /\ PastPush' \in SUBSET Requests
      BY DispatcherAssumption DEF PastPush
    <2>2. /\ Cardinality(PastPush') <= Cardinality(Requests)
          /\ Cardinality(PastPush') \in Nat /\ Cardinality(Requests) \in Nat
      BY <2>1, FS_Subset, FS_CardinalityType
    <2> QED
      BY <1>2, <2>2 DEF IdsCounted, MapTypes
  <1>6. TypeOK'
    BY <1>2, <1>5 DEF TypeOK, ThreadTypes, MapTypes, CalcType
  <1> QED
    BY <1>2, <1>3, <1>4, <1>6 DEF SyncInv

(* The inductive invariant holds in every reachable state, faults included.  *)
LEMMA SyncInvariance == Spec => []SyncInv
  <1>1. SyncInv /\ [Next]_vars => SyncInv'
    BY SyncStep
  <1> QED
    BY <1>1, SyncInit, PTL DEF Spec

(* The threads, the two maps and PROBLEM_ID of the manager keep their types, *)
(* and PROBLEM_ID stays within the number of requests, for any requests,     *)
(* graphs, lookups, repeated replies and restarts.                           *)
THEOREM ManagerTypeCorrect == Spec => []TypeOK
  BY SyncInvariance, PTL DEF SyncInv

(* As long as problem_id_to_sync_data_ refers to a SyncData, the handler     *)
(* that owns it has not left its scope, unless an unsynchronised lookup      *)
(* threw: NotifyComputedProblem touches no dead stack object.                *)
THEOREM SyncDataAliveHolds == Spec => []SyncDataAlive
  BY SyncInvariance, PTL DEF SyncInv

(* No handler sleeps on after its problem is computed, however the steps of  *)
(* NotifyComputedProblem and of cv.wait interleave.                          *)
THEOREM NoLostWakeupHolds == Spec => []NoLostWakeup
  BY SyncInvariance, PTL DEF SyncInv

-----------------------------------------------------------------------------
(* Only decomposed requests get beyond Decompose, and no two problems of one *)
(* run of the manager share an id.                                           *)
IdsUnique ==
    /\ \A r \in Requests : handler[r] \notin {"start", "failed"} => Accepted(r)
    /\ \A r \in Posed : problemId[r] < nextId
    /\ \A r, q \in Posed : problemId[r] = problemId[q] => r = q

(* A problem in the map has its own request, its leaves are completed and    *)
(* what is computable has no status yet.                                     *)
ProblemsSound ==
    \A id \in DOMAIN calcData :
        LET c == calcData[id]
        IN  /\ c.request \in Posed /\ problemId[c.request] = id
            /\ Vertices(Graph[c.request]) \ TaskVertices(c.request) \subseteq DOMAIN c.status
            /\ DOMAIN c.computable \cap DOMAIN c.status = {}

(* Whatever is on its way is a task of some problem, with its operands.      *)
TasksGenuine ==
    /\ taskPipe \in Seq(GenuineTasks)
    /\ open \subseteq GenuineTasks
    /\ computed \subseteq GenuineTasks

(* A row of the database is the value of a vertex of the problem it names.   *)
RowsCorrect ==
    \A row \in DOMAIN db : \E r \in Posed : \E v \in TaskVertices(r) :
        row = <<problemId[r], v>> /\ db[row] = Values(Graph[r])[v]

(* The result of a request is read from its own root row.                    *)
ResultsCorrect ==
    \A r \in Requests : handler[r] \in {"clear_db", "done"} =>
        result[r] = Values(Graph[r])[RootTask(Graph[r])]

AnswerInv ==
    /\ managerRestarts \in Nat
    /\ managerRestarts = 0 =>
        /\ IdsUnique /\ ProblemsSound /\ TasksGenuine /\ RowsCorrect /\ ResultsCorrect

-----------------------------------------------------------------------------
(* A step without a restart, and what is known of the state before it.       *)
Going == ThreadTypes /\ MapTypes /\ [Next]_vars /\ ~RestartManager

(* The requests that are posed stay so, with their ids; only PushProblem     *)
(* poses another one.                                                        *)
LEMMA PosedStep ==
    ASSUME Going, IdsUnique
    PROVE  /\ Posed \subseteq Posed'
           /\ \A r \in Posed : problemId'[r] = problemId[r]
           /\ nextId \in Nat /\ nextId' \in Nat
           /\ \/ Posed' = Posed /\ nextId' = nextId
              \/ \E r \in Requests :
                    /\ PushProblem(r)
                    /\ Posed' = Posed \cup {r} /\ r \notin Posed
                    /\ problemId'[r] = nextId /\ nextId' = nextId + 1
  <1> USE DEF Going, ThreadTypes, MapTypes, IdsUnique, Posed, PastPush, Accepted
  <1>0. nextId \in Nat
    OBVIOUS
  <1>1. ASSUME NEW r \in Requests, PushProblem(r)
        PROVE  /\ Posed' = Posed \cup {r} /\ r \notin Posed
               /\ problemId' = [problemId EXCEPT ![r] = nextId] /\ nextId' = nextId + 1
    BY <1>1 DEF PushProblem, Goto
  <1>2. CASE \E r \in Requests : PushProblem(r)
    BY <1>0, <1>1, <1>2
  <1>3. CASE ~\E r \in Requests : PushProblem(r)
    <2> SUFFICES Posed' = Posed /\ UNCHANGED <<problemId, nextId>>
      BY <1>0
    <2>1. ASSUME NEW r \in Requests,
                 \/ Decompose(r) \/ LockForPush(r) \/ WakeSpuriously(r)
                 \/ LockForClear(r) \/ ClearProblem(r) \/ ReadResult(r) \/ ClearDatabase(r)
          PROVE  Posed' = Posed /\ UNCHANGED <<problemId, nextId>>
      BY <2>1
         DEF Decompose, LockForPush, WakeSpuriously, LockForClear, ClearProblem, ReadResult,
             ClearDatabase, Goto
    <2>2. ASSUME NEW r \in Requests, TestComputed(r)
          PROVE  Posed' = Posed /\ UNCHANGED <<problemId, nextId>>
      BY <2>2, TestControl
    <2>3. CASE UpdateComputableTasks
      BY <2>3, UpdateControl DEF handlerVars
    <2>4. CASE SetComputed
      BY <2>4, SetControl
    <2>5. ASSUME \/ LockForSend \/ AllSent \/ ReadReply \/ NotifyAll \/ UNCHANGED managerVars
                 \/ \E id \in ProblemsToSend : \E task \in DOMAIN calcData[id].computable :
                      SendTask(id, task)
          PROVE  Posed' = Posed /\ UNCHANGED <<problemId, nextId>>
      BY <2>5
         DEF LockForSend, AllSent, ReadReply, NotifyAll, SendTask, handlerVars, managerVars
    <2> QED
      BY <1>3, <2>1, <2>2, <2>3, <2>4, <2>5, ManagerSteps
  <1> QED
    BY <1>2, <1>3

(* Every step but a restart keeps the ids of the posed problems distinct     *)
(* and below the next one.                                                   *)
LEMMA IdsUniqueStep ==
    ASSUME Going, IdsUnique
    PROVE  IdsUnique'
  <1>1. ASSUME NEW r \in Requests, handler'[r] \notin {"start", "failed"}
        PROVE  Accepted(r)
    <2> USE <1>1 DEF Going, IdsUnique, ThreadTypes
    <2>1. CASE handler[r] \notin {"start", "failed"}
      BY <2>1
    <2>2. ASSUME NEW q \in Requests, Decompose(q) PROVE Accepted(r)
      BY <2>2 DEF Decompose, Goto, Accepted
    <2>3. ASSUME NEW q \in Requests,
                 \/ LockForPush(q) \/ PushProblem(q) \/ WakeSpuriously(q)
                 \/ LockForClear(q) \/ ClearProblem(q) \/ ReadResult(q) \/ ClearDatabase(q)
          PROVE  Accepted(r)
      BY <2>3
         DEF LockForPush, PushProblem, WakeSpuriously, LockForClear, ClearProblem, ReadResult,
             ClearDatabase, Goto
    <2>4. ASSUME NEW q \in Requests, TestComputed(q)
          PROVE  Accepted(r)
      BY <2>4, TestControl
    <2>5. CASE UpdateComputableTasks
      BY <2>5, UpdateControl DEF handlerVars
    <2>6. CASE SetComputed
      BY <2>6, SetControl
    <2>7. ASSUME \/ LockForSend \/ AllSent \/ ReadReply \/ NotifyAll \/ UNCHANGED managerVars
                 \/ \E id \in ProblemsToSend : \E task \in DOMAIN calcData[id].computable :
                      SendTask(id, task)
          PROVE  Accepted(r)
      BY <2>7
         DEF LockForSend, AllSent, ReadReply, NotifyAll, SendTask, handlerVars, managerVars
    <2> QED
      BY <2>2, <2>3, <2>4, <2>5, <2>6, <2>7, ManagerSteps
  <1>2. \A r \in Posed : problemId[r] \in Nat /\ problemId[r] < nextId
    BY DEF Going, MapTypes, Posed, PastPush, IdsUnique
  <1>3. \A r \in Posed' : problemId'[r] < nextId'
    BY <1>2, PosedStep
  <1>4. \A r, q \in Posed' : problemId'[r] = problemId'[q] => r = q
    BY <1>2, PosedStep DEF IdsUnique
  <1> QED
    BY <1>1, <1>3, <1>4 DEF IdsUnique, Accepted

(* ProblemsSound, of one problem and of the requests posed with their ids.   *)
Sound(posed, ids, id, c) ==
    /\ c.request \in posed /\ ids[c.request] = id
    /\ Vertices(Graph[c.request]) \ TaskVertices(c.request) \subseteq DOMAIN c.status
    /\ DOMAIN c.computable \cap DOMAIN c.status = {}

(* Every step but a restart keeps a registered problem about the graph of    *)
(* its own request.                                                          *)
LEMMA ProblemsSoundStep ==
    ASSUME Going, IdsUnique, ProblemsSound
    PROVE  ProblemsSound'
  <1>0. /\ CalcType /\ \A id \in DOMAIN calcData : Sound(Posed, problemId, id, calcData[id])
    BY DEF Going, MapTypes, ProblemsSound, Sound
  <1>1. SUFFICES \A id \in DOMAIN calcData' : Sound(Posed', problemId', id, calcData'[id])
    BY DEF ProblemsSound, Sound
  <1>2. ASSUME NEW id, NEW c, NEW d, Sound(Posed, problemId, id, c),
               d.request = c.request, DOMAIN c.status \subseteq DOMAIN d.status,
               DOMAIN d.computable \cap DOMAIN d.status = {}
        PROVE  Sound(Posed', problemId', id, d)
    BY <1>2, PosedStep DEF Sound
  <1>3. ASSUME NEW id, NEW c, Sound(Posed, problemId, id, c) PROVE Sound(Posed', problemId', id, c)
    BY <1>3, PosedStep DEF Sound
  <1>4. ASSUME UNCHANGED calcData
        PROVE  \A id \in DOMAIN calcData' : Sound(Posed', problemId', id, calcData'[id])
    BY <1>0, <1>3, <1>4
  <1>5. ASSUME NEW r \in Requests, PushProblem(r)
        PROVE  \A id \in DOMAIN calcData' : Sound(Posed', problemId', id, calcData'[id])
    <2>1. /\ DOMAIN calcData' = DOMAIN calcData \cup {nextId}
          /\ \A id \in DOMAIN calcData : id # nextId => calcData'[id] = calcData[id]
          /\ calcData'[nextId] = New(r)
          /\ problemId' = [problemId EXCEPT ![r] = nextId]
      BY <1>5 DEF PushProblem
    <2>2. /\ New(r).request = r
          /\ DOMAIN New(r).status = {v \in Vertices(Graph[r]) : Graph[r].type[v] \in LeafTypes}
          /\ DOMAIN New(r).computable \cap DOMAIN New(r).status = {}
      BY DEF New, GetIndependentTasks, GetComputableTasks
    <2>3. r \in Posed' /\ problemId'[r] = nextId
      BY <1>5, <2>1 DEF Posed, PastPush, Going, IdsUnique, PushProblem, Goto, ThreadTypes,
                        MapTypes, Accepted
    <2>4. Sound(Posed', problemId', nextId, New(r))
      BY <2>2, <2>3 DEF Sound, TaskVertices, Vertices
    <2> QED
      BY <1>0, <1>3, <2>1, <2>4
  <1>6. ASSUME NEW r \in Requests, ClearProblem(r)
        PROVE  \A id \in DOMAIN calcData' : Sound(Posed', problemId', id, calcData'[id])
    BY <1>0, <1>3, <1>6 DEF ClearProblem
  <1>7. ASSUME NEW id \in ProblemsToSend, NEW task \in DOMAIN calcData[id].computable,
               SendTask(id, task)
        PROVE  \A i \in DOMAIN calcData' : Sound(Posed', problemId', i, calcData'[i])
    <2>1. id \in DOMAIN calcData
      BY DEF ProblemsToSend
    <2>2. /\ DOMAIN calcData' = DOMAIN calcData
          /\ \A i \in DOMAIN calcData : i # id => calcData'[i] = calcData[i]
          /\ calcData'[id].request = calcData[id].request
          /\ DOMAIN calcData'[id].status = DOMAIN calcData[id].status \cup {task}
          /\ DOMAIN calcData'[id].computable = DOMAIN calcData[id].computable \ {task}
      <3>1. CalcType
        BY <1>0
      <3>2. /\ DOMAIN calcData' = DOMAIN calcData
            /\ \A i \in DOMAIN calcData : i # id => calcData'[i] = calcData[i]
            /\ calcData'[id] =
                [request |-> calcData[id].request,
                 status |-> [v \in DOMAIN calcData[id].status \cup {task} |->
                               IF v = task THEN "processing" ELSE calcData[id].status[v]],
                 computable |-> [v \in DOMAIN calcData[id].computable \ {task} |->
                                   calcData[id].computable[v]]]
        BY <1>7, <2>1, <3>1, SendTaskData
      <3> QED
        BY <3>2
    <2>3. Sound(Posed', problemId', id, calcData'[id])
      <3>1. DOMAIN calcData'[id].computable \cap DOMAIN calcData'[id].status = {}
        BY <1>0, <2>1, <2>2 DEF Sound
      <3> QED
        BY <1>0, <1>2, <2>1, <2>2, <3>1
    <2> QED
      BY <1>0, <1>3, <2>2, <2>3
  <1>8. CASE UpdateComputableTasks
    <2> DEFINE id == reply[1]
               task == reply[2]
    <2>1. CASE Known(id, task) /\ calcData' = [calcData EXCEPT ![id].status[task] = "completed"]
      <3>1. /\ DOMAIN calcData' = DOMAIN calcData
            /\ \A i \in DOMAIN calcData : i # id => calcData'[i] = calcData[i]
            /\ calcData'[id].request = calcData[id].request
            /\ DOMAIN calcData'[id].status = DOMAIN calcData[id].status
            /\ DOMAIN calcData'[id].computable = DOMAIN calcData[id].computable
        <4>1. CalcType /\ id \in DOMAIN calcData /\ task \in DOMAIN calcData[id].status
          BY <1>0, <2>1 DEF Known
        <4>2. /\ DOMAIN calcData' = DOMAIN calcData
              /\ \A i \in DOMAIN calcData : i # id => calcData'[i] = calcData[i]
              /\ calcData'[id] = [request |-> calcData[id].request,
                                  status |-> [calcData[id].status EXCEPT ![task] = "completed"],
                                  computable |-> calcData[id].computable]
          <5> HIDE DEF id, task
          <5> QED
            BY <2>1, <4>1, StatusUpdate
        <4> QED
          BY <4>2
      <3>2. id \in DOMAIN calcData
        BY <2>1 DEF Known
      <3>3. DOMAIN calcData'[id].computable \cap DOMAIN calcData'[id].status = {}
        BY <1>0, <3>1, <3>2 DEF Sound
      <3>4. Sound(Posed', problemId', id, calcData'[id])
        BY <1>0, <1>2, <3>1, <3>2, <3>3
      <3> QED
        BY <1>0, <1>3, <3>1, <3>4
    <2>2. CASE Known(id, task) /\ UpdateComputableTasksImpl(id, task)
      <3> DEFINE status == [calcData[id].status EXCEPT ![task] = "completed"]
      <3>1. /\ DOMAIN calcData' = DOMAIN calcData
            /\ \A i \in DOMAIN calcData : i # id => calcData'[i] = calcData[i]
            /\ calcData'[id].request = calcData[id].request
            /\ calcData'[id].status = status
            /\ calcData'[id].computable = GetComputableTasks(Graph[calcData[id].request],
                                                             WithStatus(status, "completed"),
                                                             WithStatus(status, "processing"))
        <4>1. CalcType /\ id \in DOMAIN calcData /\ task \in DOMAIN calcData[id].status
          BY <1>0, <2>2 DEF Known
        <4>2. /\ DOMAIN calcData' = DOMAIN calcData
              /\ \A i \in DOMAIN calcData : i # id => calcData'[i] = calcData[i]
              /\ calcData'[id] =
                   [request |-> calcData[id].request, status |-> status,
                    computable |-> GetComputableTasks(Graph[calcData[id].request],
                                                      WithStatus(status, "completed"),
                                                      WithStatus(status, "processing"))]
          <5> HIDE DEF id, task
          <5> QED
            BY <2>2, <4>1, UpdateData
        <4> HIDE DEF status
        <4> QED
          BY <4>2
      <3>2. /\ id \in DOMAIN calcData
            /\ DOMAIN status = DOMAIN calcData[id].status
        BY <2>2 DEF Known
      <3>3. \A v \in DOMAIN status : status[v] \in {"processing", "completed"}
        <4>1. PICK q \in Requests : calcData[id] \in CalculationData(q)
          BY <1>0, <3>2 DEF CalcType
        <4>2. calcData[id].status \in [DOMAIN calcData[id].status -> {"processing", "completed"}]
          BY <4>1, DataElim
        <4> QED
          BY <4>2
      <3>4. DOMAIN calcData'[id].computable \cap DOMAIN calcData'[id].status = {}
        <4> HIDE DEF status
        <4> QED
          BY <3>1, <3>3 DEF GetComputableTasks, WithStatus
      <3> HIDE DEF status
      <3>5. Sound(Posed', problemId', id, calcData'[id])
        BY <1>0, <1>2, <3>1, <3>2, <3>4
      <3> QED
        BY <1>0, <1>3, <3>1, <3>5
    <2> QED
      BY <1>4, <1>8, <2>1, <2>2 DEF UpdateComputableTasks, Crash
  <1>9. ASSUME NEW r \in Requests,
               \/ Decompose(r) \/ LockForPush(r) \/ TestComputed(r) \/ WakeSpuriously(r)
               \/ LockForClear(r) \/ ReadResult(r) \/ ClearDatabase(r)
        PROVE  UNCHANGED calcData
    BY <1>9
       DEF Decompose, LockForPush, TestComputed, WakeSpuriously, LockForClear, ReadResult,
           ClearDatabase
  <1>10. ASSUME \/ LockForSend \/ AllSent \/ ReadReply \/ SetComputed \/ NotifyAll
                \/ UNCHANGED managerVars
         PROVE  UNCHANGED calcData
    BY <1>10 DEF LockForSend, AllSent, ReadReply, SetComputed, NotifyAll, Crash, managerVars
  <1> QED
    BY <1>4, <1>5, <1>6, <1>7, <1>8, <1>9, <1>10, ManagerSteps DEF Going

-----------------------------------------------------------------------------
(* The task sent for a vertex is the task of that vertex.                    *)
LEMMA FormsGenuineTask ==
    ASSUME MapTypes, ProblemsSound, NEW id \in DOMAIN calcData,
           NEW task \in DOMAIN calcData[id].computable
    PROVE  FormTaskRequest(id, task, calcData[id].computable[task]) \in GenuineTasks
  <1> DEFINE r == calcData[id].request
             g == Graph[r]
  <1>1. PICK q \in Requests : calcData[id] \in CalculationData(q)
    BY DEF MapTypes, CalcType
  <1>2. /\ r = q /\ DOMAIN calcData[id].computable \subseteq Vertices(g)
        /\ calcData[id].computable[task] = g.adj[task]
    <2>1. /\ calcData[id].request = q
          /\ DOMAIN calcData[id].computable \subseteq Vertices(Graph[q])
          /\ calcData[id].computable =
               [v \in DOMAIN calcData[id].computable |-> Graph[q].adj[v]]
      BY <1>1, DataElim
    <2> QED
      BY <2>1
  <1>3. /\ r \in Posed /\ problemId[r] = id
        /\ task \in TaskVertices(r)
    BY <1>2 DEF ProblemsSound
  <1>4. r \in Requests \ Rejected
    BY <1>3 DEF Posed, PastPush, Accepted
  <1>5. FormTaskRequest(id, task, g.adj[task]) = TaskOf(r, task)
    BY <1>3, <1>4, FormsTaskOf
  <1> QED
    BY <1>2, <1>3, <1>5 DEF GenuineTasks

(* A task stays a task of its problem.                                       *)
LEMMA GenuineKept ==
    ASSUME Going, IdsUnique
    PROVE  GenuineTasks \subseteq GenuineTasks'
  <1> SUFFICES ASSUME NEW t \in GenuineTasks PROVE t \in GenuineTasks'
    OBVIOUS
  <1>1. PICK r \in Posed : \E v \in TaskVertices(r) : t = TaskOf(r, v)
    BY DEF GenuineTasks
  <1>2. PICK v \in TaskVertices(r) : t = TaskOf(r, v)
    BY <1>1
  <1>3. r \in Posed' /\ problemId'[r] = problemId[r]
    BY PosedStep
  <1>4. TaskOf(r, v)' = TaskOf(r, v)
    BY <1>3 DEF TaskOf, TaskVertices
  <1>5. v \in TaskVertices(r)'
    BY DEF TaskVertices
  <1> QED
    BY <1>2, <1>3, <1>4, <1>5 DEF GenuineTasks

(* Where tasks go: from the map to the pipe, to a worker and back.           *)
LEMMA TaskSteps ==
    ASSUME [Next]_vars, ~RestartManager
    PROVE  \/ UNCHANGED <<taskPipe, open, computed, db>>
           \/ /\ UNCHANGED <<open, computed, db>>
              /\ \E id \in DOMAIN calcData : \E task \in DOMAIN calcData[id].computable :
                    taskPipe' = Append(taskPipe, FormTaskRequest(id, task,
                                                   calcData[id].computable[task]))
           \/ Accept
           \/ \E t \in open : Calculate(t)
           \/ \E t \in computed : Report(t)
           \/ UNCHANGED <<taskPipe, open, computed>> /\ \E r \in Requests : ClearDatabase(r)
  <1>1. CASE UNCHANGED vars
    BY <1>1 DEF vars, pipeVars, serviceVars
  <1>2. CASE \E t \in computed : ReportAgain(t)
    BY <1>2 DEF ReportAgain, serviceVars
  <1>3. CASE ServiceNext
    BY <1>3 DEF ServiceNext
  <1>4. CASE ManagerNext /\ UNCHANGED <<serviceVars, faultVars>>
    <2>1. ASSUME NEW r \in Requests,
                 \/ Decompose(r) \/ LockForPush(r) \/ PushProblem(r) \/ TestComputed(r)
                 \/ WakeSpuriously(r) \/ LockForClear(r) \/ ClearProblem(r) \/ ReadResult(r)
          PROVE  UNCHANGED <<taskPipe, db>>
      BY <2>1
         DEF Decompose, LockForPush, PushProblem, TestComputed, WakeSpuriously, LockForClear,
             ClearProblem, ReadResult, pipeVars
    <2>2. ASSUME NEW r \in Requests, ClearDatabase(r)
          PROVE  UNCHANGED taskPipe
      BY <2>2 DEF ClearDatabase, pipeVars
    <2>3. ASSUME \/ LockForSend \/ AllSent \/ ReadReply \/ UpdateComputableTasks
                 \/ SetComputed \/ NotifyAll
          PROVE  UNCHANGED <<taskPipe, db>>
      BY <2>3
         DEF LockForSend, AllSent, ReadReply, UpdateComputableTasks, SetComputed, NotifyAll,
             pipeVars
    <2>4. ASSUME NEW id \in ProblemsToSend, NEW task \in DOMAIN calcData[id].computable,
                 SendTask(id, task)
          PROVE  /\ UNCHANGED db /\ id \in DOMAIN calcData
                 /\ taskPipe' = Append(taskPipe, FormTaskRequest(id, task,
                                                   calcData[id].computable[task]))
      BY <2>4 DEF SendTask, SendOnTaskPipe, ProblemsToSend
    <2>5. UNCHANGED <<open, computed>>
      BY <1>4 DEF serviceVars
    <2> QED
      BY <1>4, <2>1, <2>2, <2>3, <2>4, <2>5 DEF ManagerNext, HandlerStep, DispatcherStep
  <1> QED
    BY <1>1, <1>2, <1>3, <1>4 DEF Next

(* Every step but a restart keeps the tasks on their way those of posed      *)
(* problems, operands included.                                              *)
LEMMA TasksGenuineStep ==
    ASSUME Going, IdsUnique, ProblemsSound, TasksGenuine
    PROVE  TasksGenuine'
  <1>1. /\ taskPipe \in Seq(GenuineTasks')
        /\ open \subseteq GenuineTasks'
        /\ computed \subseteq GenuineTasks'
    BY GenuineKept DEF TasksGenuine
  <1> HIDE DEF GenuineTasks
  <1>2. CASE UNCHANGED <<taskPipe, open, computed>>
    BY <1>1, <1>2 DEF TasksGenuine
  <1>3. ASSUME UNCHANGED <<open, computed>>,
               NEW id \in DOMAIN calcData, NEW task \in DOMAIN calcData[id].computable,
               taskPipe' = Append(taskPipe, FormTaskRequest(id, task,
                                              calcData[id].computable[task]))
        PROVE  TasksGenuine'
    <2>1. FormTaskRequest(id, task, calcData[id].computable[task]) \in GenuineTasks'
      BY FormsGenuineTask, GenuineKept DEF Going
    <2> QED
      BY <1>1, <1>3, <2>1 DEF TasksGenuine
  <1>4. CASE Accept
    BY <1>1, <1>4 DEF TasksGenuine, Accept
  <1>5. ASSUME NEW t \in open, Calculate(t)
        PROVE  TasksGenuine'
    BY <1>1, <1>5 DEF TasksGenuine, Calculate, pipeVars
  <1>6. ASSUME NEW t \in computed, Report(t)
        PROVE  TasksGenuine'
    BY <1>1, <1>6 DEF TasksGenuine, Report
  <1> QED
    BY <1>2, <1>3, <1>4, <1>5, <1>6, TaskSteps DEF Going

(* What a worker calculates for a task is the value of its vertex: the       *)
(* operands it reads are the values of the operands of the vertex.           *)
LEMMA CalculatesValue ==
    ASSUME MapTypes, IdsUnique, RowsCorrect, NEW r \in Posed, NEW v \in TaskVertices(r),
           NEW t, t = TaskOf(r, v),
           \A i \in DOMAIN t.operands : Operands(t)[i] # Exception
    PROVE  CalculateTaskImpl(t.op, Operands(t)) = Values(Graph[r])[v]
  <1>1. r \in Requests \ Rejected
    BY DEF Posed, PastPush, Accepted
  <1>2. ASSUME NEW u \in TaskVertices(r), <<problemId[r], u>> \in DOMAIN db
        PROVE  db[<<problemId[r], u>>] = Values(Graph[r])[u]
    <2>1. PICK q \in Posed : \E w \in TaskVertices(q) :
              /\ <<problemId[r], u>> = <<problemId[q], w>>
              /\ db[<<problemId[r], u>>] = Values(Graph[q])[w]
      BY <1>2 DEF RowsCorrect
    <2> QED
      BY <2>1 DEF IdsUnique
  <1>3. Operands(t) = [i \in DOMAIN t.operands |-> ReadData(t.operands[i])]
    BY DEF Operands
  <1> QED
    BY <1>1, <1>2, <1>3, VertexValue

(* Every step but a restart keeps each row of dynamic_data the value of      *)
(* its vertex: what a worker writes is calculated from static_data and       *)
(* from rows of the same problem, which are correct themselves.              *)
LEMMA RowsCorrectStep ==
    ASSUME Going, IdsUnique, TasksGenuine, RowsCorrect
    PROVE  RowsCorrect'
  <1>1. ASSUME NEW row \in DOMAIN db
        PROVE  \E r \in Posed' : \E v \in TaskVertices(r) :
                    row = <<problemId'[r], v>> /\ db[row] = Values(Graph[r])[v]
    <2>1. PICK r \in Posed : \E v \in TaskVertices(r) :
                row = <<problemId[r], v>> /\ db[row] = Values(Graph[r])[v]
      BY DEF RowsCorrect
    <2> QED
      BY <2>1, PosedStep
  <1>2. ASSUME DOMAIN db' \subseteq DOMAIN db, \A row \in DOMAIN db' : db'[row] = db[row]
        PROVE  RowsCorrect'
    BY <1>1, <1>2 DEF RowsCorrect, TaskVertices, Vertices
  <1>3. ASSUME NEW t \in open, Calculate(t)
        PROVE  RowsCorrect'
    <2>1. PICK r \in Posed : \E v \in TaskVertices(r) : t = TaskOf(r, v)
      BY DEF TasksGenuine, GenuineTasks
    <2>2. PICK v \in TaskVertices(r) : t = TaskOf(r, v)
      BY <2>1
    <2>3. CalculateTaskImpl(t.op, Operands(t)) = Values(Graph[r])[v]
      BY <1>3, <2>2, CalculatesValue DEF Calculate, Going
    <2>4. t.id = <<problemId[r], v>> /\ r \in Posed' /\ problemId'[r] = problemId[r]
      BY <2>2, PosedStep DEF TaskOf
    <2>5. WriteDynamicData(t.id, Values(Graph[r])[v])
      BY <1>3, <2>3 DEF Calculate
    <2>6. CASE t.id \in DOMAIN db
      BY <1>2, <2>5, <2>6 DEF WriteDynamicData
    <2>7. CASE t.id \notin DOMAIN db
      <3>1. /\ DOMAIN db' = DOMAIN db \cup {t.id}
            /\ db'[t.id] = Values(Graph[r])[v]
            /\ \A row \in DOMAIN db : db'[row] = db[row]
        BY <2>5, <2>7 DEF WriteDynamicData
      <3>2. ASSUME NEW row \in DOMAIN db'
            PROVE  \E q \in Posed' : \E w \in TaskVertices(q) :
                        row = <<problemId'[q], w>> /\ db'[row] = Values(Graph[q])[w]
        <4>1. CASE row = t.id
          BY <2>4, <3>1, <4>1
        <4>2. CASE row # t.id
          BY <1>1, <3>1, <4>2
        <4> QED
          BY <4>1, <4>2
      <3> QED
        BY <3>2 DEF RowsCorrect, TaskVertices, Vertices
    <2> QED
      BY <2>6, <2>7
  <1>4. ASSUME NEW r \in Requests, ClearDatabase(r)
        PROVE  RowsCorrect'
    BY <1>2, <1>4 DEF ClearDatabase, ClearIntermediateCalculations
  <1>5. ASSUME UNCHANGED db
        PROVE  RowsCorrect'
    BY <1>2, <1>5
  <1> QED
    BY <1>3, <1>4, <1>5, TaskSteps DEF Going, Accept, Report

(* Every step but a restart keeps the results that were read the values of   *)
(* the roots.                                                                *)
LEMMA ResultsCorrectStep ==
    ASSUME Going, IdsUnique, RowsCorrect, ResultsCorrect
    PROVE  ResultsCorrect'
  <1> USE DEF Going, ThreadTypes, ResultsCorrect
  <1>1. ASSUME NEW r \in Requests, ReadResult(r)
        PROVE  ResultsCorrect'
    <2> DEFINE row == <<problemId[r], RootTask(Graph[r])>>
    <2>1. CASE ReadDynamicData(row) = Exception
      BY <1>1, <2>1 DEF ReadResult, Goto
    <2>2. CASE ReadDynamicData(row) # Exception
      <3>1. row \in DOMAIN db /\ ReadDynamicData(row) = db[row]
        BY <2>2 DEF ReadDynamicData
      <3>2. r \in Posed
        BY <1>1 DEF ReadResult, Posed, PastPush, IdsUnique
      <3>3. PICK q \in Posed : \E w \in TaskVertices(q) :
                row = <<problemId[q], w>> /\ db[row] = Values(Graph[q])[w]
        BY <3>1 DEF RowsCorrect
      <3>4. q = r /\ db[row] = Values(Graph[r])[RootTask(Graph[r])]
        BY <3>2, <3>3 DEF IdsUnique
      <3>5. result' = [result EXCEPT ![r] = db[row]] /\ handler' = [handler EXCEPT ![r] = "clear_db"]
        BY <1>1, <2>2, <3>1 DEF ReadResult, Goto
      <3> HIDE DEF row
      <3> QED
        BY <3>4, <3>5
    <2> QED
      BY <2>1, <2>2
  <1>2. ASSUME NEW r \in Requests,
               \/ Decompose(r) \/ LockForPush(r) \/ PushProblem(r) \/ WakeSpuriously(r)
               \/ LockForClear(r) \/ ClearProblem(r) \/ ClearDatabase(r)
        PROVE  ResultsCorrect'
    BY <1>2
       DEF Decompose, LockForPush, PushProblem, WakeSpuriously, LockForClear, ClearProblem,
           ClearDatabase, Goto
  <1>3. ASSUME NEW r \in Requests, TestComputed(r)
        PROVE  ResultsCorrect'
    BY <1>3, TestControl
  <1>4. CASE UpdateComputableTasks
    BY <1>4, UpdateControl DEF handlerVars
  <1>5. CASE SetComputed
    BY <1>5, SetControl
  <1>6. ASSUME \/ LockForSend \/ AllSent \/ ReadReply \/ NotifyAll \/ UNCHANGED managerVars
               \/ \E id \in ProblemsToSend : \E task \in DOMAIN calcData[id].computable :
                    SendTask(id, task)
        PROVE  ResultsCorrect'
    BY <1>6
       DEF LockForSend, AllSent, ReadReply, NotifyAll, SendTask, handlerVars, managerVars
  <1> QED
    BY <1>1, <1>2, <1>3, <1>4, <1>5, <1>6, ManagerSteps

-----------------------------------------------------------------------------
(* The inductive invariant: what is on its way, in the database and in the   *)
(* results belongs to exactly one problem and has the value it should have.  *)
LEMMA AnswerInvariance == Spec => []AnswerInv
  <1>1. Init => AnswerInv
    <2> SUFFICES ASSUME Init PROVE AnswerInv
      OBVIOUS
    <2>1. Posed = {}
      BY DEF Init, ManagerInit, Posed, PastPush
    <2>2. IdsUnique /\ ResultsCorrect
      BY <2>1 DEF Init, ManagerInit, IdsUnique, ResultsCorrect
    <2>3. ProblemsSound
      BY DEF Init, ManagerInit, ProblemsSound
    <2>4. TasksGenuine /\ RowsCorrect
      BY DEF Init, PipeInit, ServiceInit, DatabaseInit, TasksGenuine, RowsCorrect
    <2> QED
      BY <2>2, <2>3, <2>4 DEF AnswerInv, Init
  <1>2. AnswerInv /\ SyncInv /\ [Next]_vars => AnswerInv'
    <2> SUFFICES ASSUME AnswerInv, SyncInv, [Next]_vars PROVE AnswerInv'
      OBVIOUS
    <2>1. ThreadTypes /\ MapTypes
      BY TypeParts
    <2>2. CASE RestartManager
      BY <2>2 DEF RestartManager, AnswerInv
    <2>3. CASE ~RestartManager
      <3>1. managerRestarts' = managerRestarts
        BY <2>3 DEF Next, vars, faultVars, ReportAgain
      <3>2. CASE managerRestarts # 0
        BY <3>1, <3>2 DEF AnswerInv
      <3>3. CASE managerRestarts = 0
        <4>1. Going /\ IdsUnique /\ ProblemsSound /\ TasksGenuine /\ RowsCorrect /\ ResultsCorrect
          BY <2>1, <2>3, <3>3 DEF Going, AnswerInv
        <4>2. /\ IdsUnique' /\ ProblemsSound' /\ TasksGenuine'
              /\ RowsCorrect' /\ ResultsCorrect'
          BY <4>1, IdsUniqueStep, ProblemsSoundStep, TasksGenuineStep, RowsCorrectStep,
             ResultsCorrectStep
        <4> QED
          BY <3>1, <4>2 DEF AnswerInv
      <3> QED
        BY <3>2, <3>3
    <2> QED
      BY <2>2, <2>3
  <1> QED
    BY <1>1, <1>2, SyncInvariance, PTL DEF Spec

(* As long as the manager is not restarted, what a finished request returns  *)
(* is the value of its own expression, for any requests and graphs, even     *)
(* when replies are given twice and unsynchronised lookups of other requests *)
(* throw or end the process.                                                 *)
THEOREM CorrectUnlessRestartedHolds == Spec => []CorrectUnlessRestarted
  <1>1. AnswerInv => CorrectUnlessRestarted
    <2> SUFFICES ASSUME AnswerInv, managerRestarts = 0, NEW r \in Requests, handler[r] = "done"
                 PROVE  result[r] = Value[r]
      BY DEF CorrectUnlessRestarted, CorrectResult
    <2>1. Accepted(r) /\ result[r] = Values(Graph[r])[RootTask(Graph[r])]
      BY DEF AnswerInv, IdsUnique, ResultsCorrect
    <2> QED
      BY <2>1 DEF Accepted, Value, ValueOf
  <1> QED
    BY <1>1, AnswerInvariance, PTL
=============================================================================
