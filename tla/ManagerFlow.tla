---------------------------- MODULE ManagerFlow ----------------------------
(***************************************************************************)
(* Proofs about a manager that is not restarted, gets every reply once and *)
(* whose unsynchronised lookups find what they look for: its books agree   *)
(* with what is on its way, no task starts before its operands are known,  *)
(* nothing is left in the database, nothing throws, and every answer is    *)
(* the one the calculator gives.                                           *)
(***************************************************************************)
EXTENDS ManagerProofs

Reliable ==
    /\ MaxDuplicates = 0 /\ MaxManagerRestarts = 0
    /\ RaceOutcomes = {"found"}

(* The ids of the tasks of the problems posed so far.                        *)
GenuineIds == {t.id : t \in GenuineTasks}

(* Replies are ids of tasks, and a task is with one worker at most.          *)
FlowTypes ==
    /\ duplicates \in Nat
    /\ replyPipe \in Seq(GenuineIds)
    /\ dispatcher \in {"update", "computed", "notify"} => reply \in GenuineIds
    /\ IsFiniteSet(open) /\ IsFiniteSet(computed)
    /\ open \cap computed = {}

(* Whether a vertex is completed, as processed_tasks_to_status has it.       *)
Completed(id) == WithStatus(calcData[id].status, "completed")

(* What has a status or is computable has all its operands completed; the    *)
(* leaves are completed.                                                     *)
StatusSound ==
    \A id \in DOMAIN calcData :
        LET c == calcData[id]
            g == Graph[c.request]
        IN  /\ Vertices(g) \ TaskVertices(c.request) \subseteq Completed(id)
            /\ \A v \in DOMAIN c.status \cup DOMAIN c.computable :
                \A k \in DOMAIN g.adj[v] : g.adj[v][k] \in Completed(id)

(* What is completed, reported or about to be reported is in the database.   *)
WrittenFirst ==
    /\ \A id \in DOMAIN calcData :
        \A v \in Completed(id) \cap TaskVertices(calcData[id].request) : <<id, v>> \in DOMAIN db
    /\ \A t \in computed : t.id \in DOMAIN db
    /\ \A i \in DOMAIN replyPipe : replyPipe[i] \in DOMAIN db
    /\ dispatcher = "update" => reply \in DOMAIN db

RootCompleted(id) ==
    LET r == calcData[id].request
    IN  RootTask(Graph[r]) \in Completed(id) \cap TaskVertices(r)

(* is_computed says that the root is completed, and the handler leaves its   *)
(* wait only then.                                                           *)
RootKnown ==
    /\ dispatcher \in {"computed", "notify"} => RootCompleted(reply[1])
    /\ \A r \in Requests :
        /\ handler[r] \in {"start", "push", "pushing"} => ~isComputed[r]
        /\ handler[r] \in {"clear", "clearing"} => isComputed[r]
        /\ isComputed[r] /\ handler[r] \in {"wait", "asleep", "clear", "clearing"}
            => RootCompleted(problemId[r])
        /\ handler[r] = "read" => <<problemId[r], RootTask(Graph[r])>> \in DOMAIN db

(* A row has a value, and a request fails only if it is refused.             *)
NothingThrows ==
    /\ \A row \in DOMAIN db : db[row] # Exception
    /\ \A r \in Requests : handler[r] = "failed" => ~Accepted(r)
    /\ managerUp

FlowInv ==
    /\ FlowTypes /\ ProcessingIsInFlight /\ StatusSound /\ WrittenFirst /\ OperandsReady
    /\ RootKnown /\ NoResidue /\ NothingThrows

-----------------------------------------------------------------------------
(* Counting the places of a sequence that satisfy some condition: a place    *)
(* added at the end, ...                                                     *)
LEMMA CountAppend ==
    ASSUME NEW n \in Nat, NEW A \in SUBSET (1..n), NEW B \in SUBSET (1..(n + 1)),
           \A i \in 1..n : i \in B <=> i \in A
    PROVE  /\ Cardinality(A) \in Nat
           /\ Cardinality(B) = Cardinality(A) + (IF n + 1 \in B THEN 1 ELSE 0)
  <1>0. 1..(n + 1) = (1..n) \cup {n + 1} /\ n + 1 \notin 1..n
    OBVIOUS
  <1>1. IsFiniteSet(A) /\ Cardinality(A) \in Nat
    <2>1. IsFiniteSet(1..n)
      BY FS_Interval
    <2> QED
      BY <2>1, FS_Subset, FS_CardinalityType
  <1>2. CASE n + 1 \in B
    <2>1. B = A \cup {n + 1} /\ n + 1 \notin A
      BY <1>0, <1>2
    <2> QED
      BY <1>1, <1>2, <2>1, FS_AddElement
  <1>3. CASE n + 1 \notin B
    <2>1. B = A
      BY <1>0, <1>3
    <2> QED
      BY <1>1, <1>3, <2>1
  <1> QED
    BY <1>2, <1>3

(* ... and the first place taken away.                                       *)
LEMMA CountTail ==
    ASSUME NEW n \in Nat, NEW A \in SUBSET (1..(n + 1)), NEW B \in SUBSET (1..n),
           \A i \in 1..n : i \in B <=> i + 1 \in A
    PROVE  /\ Cardinality(B) \in Nat
           /\ Cardinality(A) = Cardinality(B) + (IF 1 \in A THEN 1 ELSE 0)
  <1> DEFINE R == A \ {1}
             f == [i \in B |-> i + 1]
  <1>1. IsFiniteSet(A) /\ IsFiniteSet(B) /\ Cardinality(B) \in Nat
    <2>1. IsFiniteSet(1..(n + 1)) /\ IsFiniteSet(1..n)
      BY FS_Interval
    <2> QED
      BY <2>1, FS_Subset, FS_CardinalityType
  <1>2. f \in [B -> R]
    OBVIOUS
  <1>3. \A i, j \in B : f[i] = f[j] => i = j
    OBVIOUS
  <1>4. \A j \in R : \E i \in B : f[i] = j
    <2> SUFFICES ASSUME NEW j \in R PROVE j - 1 \in B /\ f[j - 1] = j
      OBVIOUS
    <2> QED
      OBVIOUS
  <1>5. ExistsBijection(B, R)
    BY <1>2, <1>3, <1>4 DEF ExistsBijection, Bijection, Injection, Surjection, IsInjective
  <1>6. IsFiniteSet(R) /\ Cardinality(R) = Cardinality(B)
    BY <1>1, <1>5, FS_Bijection
  <1>7. CASE 1 \in A
    <2>1. A = R \cup {1} /\ 1 \notin R
      BY <1>7
    <2> HIDE DEF R
    <2> QED
      BY <1>1, <1>6, <1>7, <2>1, FS_AddElement
  <1>8. CASE 1 \notin A
    <2>1. A = R
      BY <1>8
    <2> HIDE DEF R
    <2> QED
      BY <1>1, <1>6, <1>8, <2>1
  <1> QED
    BY <1>7, <1>8

-----------------------------------------------------------------------------
(* The places where the id of a task can be.                                 *)
Piped(x) == {i \in DOMAIN taskPipe : taskPipe[i].id = x}
Worked(x) == {t \in open \cup computed : t.id = x}
Replied(x) == {i \in DOMAIN replyPipe : replyPipe[i] = x}
Updating(x) == IF dispatcher = "update" /\ reply = x THEN 1 ELSE 0

(* The places of a task are finite, and a task is in flight once for each    *)
(* of them.                                                                  *)
LEMMA PlacesType ==
    ASSUME TasksGenuine, FlowTypes, NEW x
    PROVE  /\ IsFiniteSet(Piped(x)) /\ Cardinality(Piped(x)) \in Nat
           /\ IsFiniteSet(Worked(x)) /\ Cardinality(Worked(x)) \in Nat
           /\ IsFiniteSet(Replied(x)) /\ Cardinality(Replied(x)) \in Nat
           /\ Updating(x) \in 0..1
           /\ InFlight(x) = Cardinality(Piped(x)) + Cardinality(Worked(x))
                              + Cardinality(Replied(x)) + Updating(x)
           /\ InFlight(x) \in Nat
  <1>1. Piped(x) \subseteq 1..Len(taskPipe) /\ Len(taskPipe) \in Nat
    BY DEF TasksGenuine, Piped
  <1>2. Replied(x) \subseteq 1..Len(replyPipe) /\ Len(replyPipe) \in Nat
    BY DEF FlowTypes, Replied
  <1>3. IsFiniteSet(open \cup computed)
    BY FS_Union DEF FlowTypes
  <1>4. /\ IsFiniteSet(1..Len(taskPipe)) /\ IsFiniteSet(1..Len(replyPipe))
        /\ Worked(x) \subseteq open \cup computed
    BY <1>1, <1>2, FS_Interval DEF Worked
  <1>5. IsFiniteSet(Piped(x)) /\ IsFiniteSet(Worked(x)) /\ IsFiniteSet(Replied(x))
    BY <1>1, <1>2, <1>3, <1>4, FS_Subset
  <1>6. /\ Cardinality(Piped(x)) \in Nat /\ Cardinality(Worked(x)) \in Nat
        /\ Cardinality(Replied(x)) \in Nat
    BY <1>5, FS_CardinalityType
  <1>7. InFlight(x) = Cardinality(Piped(x)) + Cardinality(Worked(x))
                        + Cardinality(Replied(x)) + Updating(x)
    BY DEF InFlight, Piped, Worked, Replied, Updating
  <1>8. Updating(x) \in 0..1
    BY DEF Updating
  <1> QED
    BY <1>5, <1>6, <1>7, <1>8

(* An id that is somewhere is in flight.                                     *)
LEMMA SomewhereInFlight ==
    ASSUME TasksGenuine, FlowTypes, NEW x,
           \/ Piped(x) # {} \/ Worked(x) # {} \/ Replied(x) # {}
           \/ dispatcher = "update" /\ reply = x
    PROVE  InFlight(x) >= 1
  <1>1. ASSUME NEW S, IsFiniteSet(S), S # {}, Cardinality(S) \in Nat
        PROVE  Cardinality(S) >= 1
    BY <1>1, FS_EmptySet
  <1>2. CASE Piped(x) # {} \/ Worked(x) # {} \/ Replied(x) # {}
    BY <1>1, <1>2, PlacesType
  <1>3. CASE dispatcher = "update" /\ reply = x
    <2>1. Updating(x) = 1
      BY <1>3 DEF Updating
    <2> QED
      BY <2>1, PlacesType
  <1> QED
    BY <1>2, <1>3

(* The books of the manager: what the id of a task is counted as.            *)
LEMMA BooksAgree ==
    ASSUME MapTypes, IdsUnique, ProblemsSound, ProcessingIsInFlight,
           NEW r \in Posed, NEW v \in TaskVertices(r)
    PROVE  InFlight(<<problemId[r], v>>) =
             IF /\ problemId[r] \in DOMAIN calcData
                /\ v \in WithStatus(calcData[problemId[r]].status, "processing")
             THEN 1 ELSE 0
  <1> DEFINE id == problemId[r]
  <1>1. r \in Requests /\ v \in Vertices(Graph[r])
    BY DEF Posed, PastPush, TaskVertices
  <1>2. id \in 0..nextId
    BY <1>1 DEF MapTypes
  <1>3. CASE id \in DOMAIN calcData
    <2>1. calcData[id].request = r
      BY <1>3 DEF ProblemsSound, IdsUnique
    <2> QED
      BY <1>1, <1>3, <2>1 DEF ProcessingIsInFlight
  <1>4. CASE id \notin DOMAIN calcData
    BY <1>1, <1>2, <1>4 DEF ProcessingIsInFlight
  <1> QED
    BY <1>3, <1>4

(* Hence what is under way is being processed, and is counted once.          *)
LEMMA UnderWay ==
    ASSUME MapTypes, IdsUnique, ProblemsSound, TasksGenuine, FlowTypes, ProcessingIsInFlight,
           NEW x \in GenuineIds,
           \/ Piped(x) # {} \/ Worked(x) # {} \/ Replied(x) # {}
           \/ dispatcher = "update" /\ reply = x
    PROVE  /\ InFlight(x) = 1
           /\ x[1] \in DOMAIN calcData
           /\ x[2] \in WithStatus(calcData[x[1]].status, "processing")
           /\ calcData[x[1]].request \in Posed
           /\ x[2] \in TaskVertices(calcData[x[1]].request)
           /\ x = <<problemId[calcData[x[1]].request], x[2]>>
  <1>1. PICK t \in GenuineTasks : x = t.id
    BY DEF GenuineIds
  <1>2. PICK r \in Posed : \E v \in TaskVertices(r) : t = TaskOf(r, v)
    BY DEF GenuineTasks
  <1>3. PICK v \in TaskVertices(r) : t = TaskOf(r, v)
    BY <1>2
  <1>4. x = <<problemId[r], v>>
    BY <1>1, <1>3 DEF TaskOf
  <1>5. InFlight(x) >= 1 /\ InFlight(x) \in Nat
    BY SomewhereInFlight, PlacesType
  <1>6. /\ InFlight(x) = 1 /\ problemId[r] \in DOMAIN calcData
        /\ v \in WithStatus(calcData[problemId[r]].status, "processing")
    BY <1>4, <1>5, BooksAgree
  <1>7. calcData[problemId[r]].request = r
    BY <1>6 DEF ProblemsSound, IdsUnique
  <1>8. x[1] = problemId[r] /\ x[2] = v
    BY <1>4
  <1> QED
    BY <1>4, <1>6, <1>7, <1>8

-----------------------------------------------------------------------------
(* What is known of the state before a step, and the steps there are.        *)
Steady ==
    /\ Reliable /\ managerRestarts = 0
    /\ ThreadTypes /\ MapTypes /\ LockDiscipline /\ Registered
    /\ ReportsKnownProblem /\ SyncDataAlive
    /\ IdsUnique /\ ProblemsSound /\ TasksGenuine /\ RowsCorrect
    /\ FlowInv

(* Without faults a step is one of the manager's or one of the service's.    *)
LEMMA FlowSteps ==
    ASSUME Steady, [Next]_vars
    PROVE  /\ Going
           /\ \/ UNCHANGED vars
              \/ /\ UNCHANGED <<serviceVars, faultVars>>
                 /\ \/ \E r \in Requests :
                         \/ Decompose(r) \/ LockForPush(r) \/ PushProblem(r)
                         \/ TestComputed(r) \/ WakeSpuriously(r)
                         \/ LockForClear(r) \/ ClearProblem(r)
                         \/ ReadResult(r) \/ ClearDatabase(r)
                    \/ LockForSend
                    \/ \E id \in ProblemsToSend :
                         \E task \in DOMAIN calcData[id].computable : SendTask(id, task)
                    \/ AllSent \/ ReadReply \/ UpdateComputableTasks
                    \/ SetComputed \/ NotifyAll
              \/ /\ UNCHANGED <<managerVars, faultVars>>
                 /\ \/ Accept
                    \/ \E t \in open : Calculate(t)
                    \/ \E t \in computed : Report(t)
  <1>1. ~RestartManager
    BY DEF Steady, Reliable, RestartManager
  <1>2. ~\E t \in computed : ReportAgain(t)
    BY DEF Steady, Reliable, FlowInv, FlowTypes, ReportAgain
  <1>3. Going
    BY <1>1 DEF Going, Steady
  <1> QED
    BY <1>1, <1>2, <1>3 DEF Next, ManagerNext, HandlerStep, DispatcherStep, ServiceNext

(* Of what is in flight, each step sees one place change, or one id move     *)
(* from a place to the next.                                                 *)
LEMMA InFlightAfter ==
    ASSUME NEW x
    PROVE  InFlight(x)' = Cardinality(Piped(x)') + Cardinality(Worked(x)')
                            + Cardinality(Replied(x)') + Updating(x)'
  BY DEF InFlight, Piped, Worked, Replied, Updating

(* What touches none of the four places moves no task.                       *)
LEMMA NothingMoves ==
    ASSUME UNCHANGED <<taskPipe, replyPipe, open, computed>>,
           UNCHANGED <<dispatcher, reply>> \/ (dispatcher # "update" /\ dispatcher' # "update"),
           NEW x
    PROVE  InFlight(x)' = InFlight(x)
  BY DEF InFlight

(* SendTask puts one task in flight, and that one only.                      *)
LEMMA SendInFlight ==
    ASSUME Steady, NEW id \in DOMAIN calcData, NEW task \in DOMAIN calcData[id].computable,
           SendTask(id, task), UNCHANGED serviceVars, NEW x
    PROVE  InFlight(x)' = InFlight(x) + (IF x = <<id, task>> THEN 1 ELSE 0)
  <1> DEFINE t == FormTaskRequest(id, task, calcData[id].computable[task])
  <1>1. taskPipe \in Seq(GenuineTasks) /\ t \in GenuineTasks /\ t.id = <<id, task>>
    BY FormsGenuineTask DEF Steady, TasksGenuine, FormTaskRequest
  <1>2. taskPipe' = Append(taskPipe, t)
    BY DEF SendTask, SendOnTaskPipe
  <1> HIDE DEF t
  <1> DEFINE n == Len(taskPipe)
  <1>3. /\ n \in Nat /\ Piped(x) \in SUBSET (1..n) /\ Piped(x)' \in SUBSET (1..(n + 1))
        /\ \A i \in 1..n : i \in Piped(x)' <=> i \in Piped(x)
        /\ n + 1 \in Piped(x)' <=> x = <<id, task>>
    <2>1. /\ n \in Nat /\ DOMAIN taskPipe = 1..n /\ DOMAIN taskPipe' = 1..(n + 1)
          /\ \A i \in 1..n : taskPipe'[i] = taskPipe[i]
          /\ taskPipe'[n + 1] = t
      BY <1>1, <1>2
    <2> HIDE DEF n
    <2>2. taskPipe'[n + 1].id = <<id, task>> /\ n + 1 \in 1..(n + 1)
      BY <1>1, <2>1
    <2> DEFINE key == <<id, task>>
    <2>3. taskPipe'[n + 1].id = key
      BY <2>2
    <2> HIDE DEF key
    <2>4. /\ Piped(x) \in SUBSET (1..n) /\ Piped(x)' \in SUBSET (1..(n + 1))
          /\ \A i \in 1..n : i \in Piped(x)' <=> i \in Piped(x)
          /\ n + 1 \in Piped(x)' <=> x = key
      BY <2>1, <2>2, <2>3 DEF Piped
    <2> QED
      BY <2>1, <2>4 DEF key
  <1>4. Cardinality(Piped(x)') = Cardinality(Piped(x)) + (IF x = <<id, task>> THEN 1 ELSE 0)
    <2> HIDE DEF n
    <2> QED
      BY <1>3, CountAppend
  <1>5. /\ Worked(x)' = Worked(x) /\ Replied(x)' = Replied(x) /\ Updating(x)' = Updating(x)
    BY DEF Worked, Replied, Updating, SendTask, serviceVars, threadVars
  <1>6. /\ Cardinality(Piped(x)) \in Nat /\ Cardinality(Worked(x)) \in Nat
        /\ Cardinality(Replied(x)) \in Nat /\ Updating(x) \in 0..1
        /\ InFlight(x) = Cardinality(Piped(x)) + Cardinality(Worked(x))
                           + Cardinality(Replied(x)) + Updating(x)
    BY PlacesType DEF Steady, FlowInv
  <1> QED
    BY <1>4, <1>5, <1>6, InFlightAfter

(* Accept moves a task from the pipe to the workers, where it was not        *)
(* before.                                                                   *)
LEMMA AcceptInFlight ==
    ASSUME Steady, Accept, UNCHANGED managerVars, NEW x
    PROVE  /\ InFlight(x)' = InFlight(x)
           /\ Head(taskPipe) \in GenuineTasks /\ Head(taskPipe) \notin open \cup computed
  <1> DEFINE t == Head(taskPipe)
             n == Len(taskPipe) - 1
  <1>1. /\ taskPipe \in Seq(GenuineTasks) /\ taskPipe # <<>> /\ t \in GenuineTasks
        /\ taskPipe' = Tail(taskPipe) /\ open' = open \cup {t}
        /\ UNCHANGED <<replyPipe, computed>>
    BY DEF Steady, TasksGenuine, Accept
  <1>2. t.id \in GenuineIds /\ 1 \in Piped(t.id)
    BY <1>1 DEF GenuineIds, Piped
  <1>3. InFlight(t.id) = 1
    BY <1>2, UnderWay DEF Steady, FlowInv
  <1>4. ASSUME NEW y
        PROVE  /\ IsFiniteSet(Piped(y)) /\ Cardinality(Piped(y)) \in Nat
               /\ IsFiniteSet(Worked(y)) /\ Cardinality(Worked(y)) \in Nat
               /\ Cardinality(Replied(y)) \in Nat /\ Updating(y) \in 0..1
               /\ InFlight(y) = Cardinality(Piped(y)) + Cardinality(Worked(y))
                                  + Cardinality(Replied(y)) + Updating(y)
    BY PlacesType DEF Steady, FlowInv
  <1>5. Cardinality(Piped(t.id)) >= 1
    BY <1>2, <1>4, FS_EmptySet
  <1>6. Cardinality(Worked(t.id)) = 0
    BY <1>3, <1>4, <1>5
  <1>7. Worked(t.id) = {}
    BY <1>4, <1>6, FS_EmptySet
  <1>8. t \notin open \cup computed
    BY <1>7 DEF Worked
  <1>9. /\ n \in Nat /\ Piped(x) \in SUBSET (1..(n + 1)) /\ Piped(x)' \in SUBSET (1..n)
        /\ \A i \in 1..n : i \in Piped(x)' <=> i + 1 \in Piped(x)
        /\ 1 \in Piped(x) <=> x = t.id
    BY <1>1 DEF Piped
  <1>10. Cardinality(Piped(x)) = Cardinality(Piped(x)') + (IF x = t.id THEN 1 ELSE 0)
    <2> HIDE DEF n, t
    <2> QED
      BY <1>9, CountTail
  <1>11. Cardinality(Worked(x)') = Cardinality(Worked(x)) + (IF x = t.id THEN 1 ELSE 0)
    <2>1. CASE x = t.id
      <3>1. Worked(x)' = Worked(x) \cup {t} /\ t \notin Worked(x)
        BY <1>1, <1>8, <2>1 DEF Worked
      <3> QED
        BY <1>4, <2>1, <3>1, FS_AddElement
    <2>2. CASE x # t.id
      <3>1. Worked(x)' = Worked(x)
        BY <1>1, <2>2 DEF Worked
      <3> QED
        BY <1>4, <2>2, <3>1
    <2> QED
      BY <2>1, <2>2
  <1>12. Replied(x)' = Replied(x) /\ Updating(x)' = Updating(x)
    BY <1>1 DEF Replied, Updating, managerVars, threadVars
  <1>13. Cardinality(Piped(x)') \in Nat
    <2> HIDE DEF n, t
    <2> QED
      BY <1>9, CountTail
  <1>14. InFlight(x)' = InFlight(x)
    BY <1>4, <1>10, <1>11, <1>12, <1>13, InFlightAfter
  <1> QED
    BY <1>1, <1>8, <1>14

(* Calculate leaves a task with the workers.                                 *)
LEMMA CalculateInFlight ==
    ASSUME Steady, NEW t \in open, Calculate(t), UNCHANGED managerVars, NEW x
    PROVE  InFlight(x)' = InFlight(x)
  <1>1. open' \cup computed' = open \cup computed /\ UNCHANGED <<taskPipe, replyPipe>>
    BY DEF Calculate, pipeVars
  <1> QED
    BY <1>1 DEF InFlight, managerVars, threadVars

(* Report moves a task from the workers to the pipe back.                    *)
LEMMA ReportInFlight ==
    ASSUME Steady, NEW t \in computed, Report(t), UNCHANGED managerVars, NEW x
    PROVE  InFlight(x)' = InFlight(x)
  <1> DEFINE n == Len(replyPipe)
  <1>1. /\ replyPipe \in Seq(GenuineIds) /\ t \in GenuineTasks /\ t.id \in GenuineIds
        /\ open \cap computed = {} /\ computed' = computed \ {t}
        /\ replyPipe' = Append(replyPipe, t.id) /\ UNCHANGED <<taskPipe, open>>
    BY DEF Steady, FlowInv, FlowTypes, TasksGenuine, GenuineIds, Report, SendOnReplyPipe
  <1>2. /\ Cardinality(Piped(x)) \in Nat
        /\ IsFiniteSet(Worked(x)) /\ Cardinality(Worked(x)) \in Nat
        /\ Cardinality(Replied(x)) \in Nat /\ Updating(x) \in 0..1
        /\ InFlight(x) = Cardinality(Piped(x)) + Cardinality(Worked(x))
                           + Cardinality(Replied(x)) + Updating(x)
    BY PlacesType DEF Steady, FlowInv
  <1>3. Cardinality(Worked(x)') = Cardinality(Worked(x)) - (IF x = t.id THEN 1 ELSE 0)
    <2>1. CASE x = t.id
      <3>1. Worked(x)' = Worked(x) \ {t} /\ t \in Worked(x)
        BY <1>1, <2>1 DEF Worked
      <3> QED
        BY <1>2, <2>1, <3>1, FS_RemoveElement
    <2>2. CASE x # t.id
      <3>1. Worked(x)' = Worked(x)
        BY <1>1, <2>2 DEF Worked
      <3> QED
        BY <1>2, <2>2, <3>1
    <2> QED
      BY <2>1, <2>2
  <1>4. /\ n \in Nat /\ Replied(x) \in SUBSET (1..n) /\ Replied(x)' \in SUBSET (1..(n + 1))
        /\ \A i \in 1..n : i \in Replied(x)' <=> i \in Replied(x)
        /\ n + 1 \in Replied(x)' <=> x = t.id
    BY <1>1 DEF Replied
  <1>5. Cardinality(Replied(x)') = Cardinality(Replied(x)) + (IF x = t.id THEN 1 ELSE 0)
    <2> HIDE DEF n
    <2> QED
      BY <1>4, CountAppend
  <1>6. Piped(x)' = Piped(x) /\ Updating(x)' = Updating(x)
    BY <1>1 DEF Piped, Updating, managerVars, threadVars
  <1> QED
    BY <1>2, <1>3, <1>5, <1>6, InFlightAfter

(* ReadReply moves a task from the pipe back to the dispatcher thread.       *)
LEMMA ReadReplyInFlight ==
    ASSUME Steady, ReadReply, UNCHANGED serviceVars, NEW x
    PROVE  InFlight(x)' = InFlight(x)
  <1> DEFINE n == Len(replyPipe) - 1
  <1>1. CASE replyPipe = <<>>
    BY <1>1, NothingMoves DEF ReadReply, serviceVars
  <1>2. CASE replyPipe # <<>>
    <2>1. /\ replyPipe \in Seq(GenuineIds) /\ replyPipe' = Tail(replyPipe)
          /\ reply' = Head(replyPipe) /\ dispatcher = "read" /\ dispatcher' = "update"
      BY <1>2 DEF Steady, FlowInv, FlowTypes, ReadReply
    <2>2. /\ n \in Nat /\ Replied(x) \in SUBSET (1..(n + 1)) /\ Replied(x)' \in SUBSET (1..n)
          /\ \A i \in 1..n : i \in Replied(x)' <=> i + 1 \in Replied(x)
          /\ 1 \in Replied(x) <=> x = reply'
      BY <1>2, <2>1 DEF Replied
    <2>3. /\ Cardinality(Replied(x)) = Cardinality(Replied(x)') + (IF x = reply' THEN 1 ELSE 0)
          /\ Cardinality(Replied(x)') \in Nat
      <3> HIDE DEF n
      <3> QED
        BY <2>2, CountTail
    <2>4. /\ Piped(x)' = Piped(x) /\ Worked(x)' = Worked(x)
          /\ Updating(x) = 0 /\ Updating(x)' = IF x = reply' THEN 1 ELSE 0
      BY <2>1 DEF Piped, Worked, Updating, ReadReply, serviceVars
    <2>5. /\ Cardinality(Piped(x)) \in Nat /\ Cardinality(Worked(x)) \in Nat
          /\ Cardinality(Replied(x)) \in Nat
          /\ InFlight(x) = Cardinality(Piped(x)) + Cardinality(Worked(x))
                             + Cardinality(Replied(x)) + Updating(x)
      BY PlacesType DEF Steady, FlowInv
    <2> QED
      BY <2>3, <2>4, <2>5, InFlightAfter
  <1> QED
    BY <1>1, <1>2

(* Nothing is in flight under an id that is not the id of a task.            *)
LEMMA OnlyGenuineInFlight ==
    ASSUME TasksGenuine, FlowTypes, NEW x, x \notin GenuineIds
    PROVE  InFlight(x) = 0
  <1>1. ASSUME NEW i \in DOMAIN taskPipe PROVE taskPipe[i].id \in GenuineIds
    <2>1. taskPipe[i] \in GenuineTasks
      BY DEF TasksGenuine
    <2> QED
      BY <2>1 DEF GenuineIds
  <1>2. ASSUME NEW t \in open \cup computed PROVE t.id \in GenuineIds
    BY DEF TasksGenuine, GenuineIds
  <1>3. ASSUME NEW i \in DOMAIN replyPipe PROVE replyPipe[i] \in GenuineIds
    BY DEF FlowTypes
  <1>4. Piped(x) = {} /\ Worked(x) = {} /\ Replied(x) = {}
    BY <1>1, <1>2, <1>3 DEF Piped, Worked, Replied
  <1>5. Updating(x) = 0
    BY DEF FlowTypes, Updating
  <1>6. Cardinality(Piped(x)) = 0 /\ Cardinality(Worked(x)) = 0 /\ Cardinality(Replied(x)) = 0
    BY <1>4, FS_EmptySet
  <1>7. InFlight(x) = Cardinality(Piped(x)) + Cardinality(Worked(x))
                        + Cardinality(Replied(x)) + Updating(x)
    BY PlacesType
  <1> QED
    BY <1>5, <1>6, <1>7

(* The id of a task names its problem and its vertex.                        *)
LEMMA GenuineId ==
    ASSUME NEW x \in GenuineIds
    PROVE  \E r \in Posed : \E v \in TaskVertices(r) : x = <<problemId[r], v>>
  <1>1. PICK t \in GenuineTasks : x = t.id
    BY DEF GenuineIds
  <1>2. PICK r \in Posed : \E v \in TaskVertices(r) : t = TaskOf(r, v)
    BY DEF GenuineTasks
  <1> QED
    BY <1>1, <1>2 DEF TaskOf

(* The reply being processed is about a task the books say is processed, so  *)
(* that its lookups do not throw.                                            *)
LEMMA ReplyIsKnown ==
    ASSUME Steady, dispatcher = "update"
    PROVE  /\ Known(reply[1], reply[2])
           /\ reply = <<reply[1], reply[2]>>
           /\ reply \in DOMAIN db /\ reply \in GenuineIds
           /\ reply[2] \in WithStatus(calcData[reply[1]].status, "processing")
           /\ reply[2] \in TaskVertices(calcData[reply[1]].request)
           /\ InFlight(reply) = 1
  <1>1. reply \in GenuineIds
    BY DEF Steady, FlowInv, FlowTypes
  <1>2. /\ InFlight(reply) = 1 /\ reply[1] \in DOMAIN calcData
        /\ reply[2] \in WithStatus(calcData[reply[1]].status, "processing")
        /\ reply[2] \in TaskVertices(calcData[reply[1]].request)
    BY <1>1, UnderWay DEF Steady, FlowInv
  <1>3. reply = <<reply[1], reply[2]>>
    BY <1>1, GenuineId
  <1> QED
    BY <1>1, <1>2, <1>3 DEF Known, WithStatus, Steady, FlowInv, WrittenFirst

(* A task that is not in flight any more was the reply.                      *)
LEMMA UpdateInFlight ==
    ASSUME Steady, UpdateComputableTasks, UNCHANGED serviceVars, NEW x
    PROVE  InFlight(x)' = IF x = reply THEN 0 ELSE InFlight(x)
  <1>1. /\ dispatcher = "update" /\ dispatcher' \in {"computed", "send"}
        /\ UNCHANGED <<taskPipe, replyPipe>>
    BY ReplyIsKnown DEF UpdateComputableTasks, pipeVars
  <1>2. /\ Piped(x)' = Piped(x) /\ Worked(x)' = Worked(x) /\ Replied(x)' = Replied(x)
        /\ Updating(x)' = 0 /\ Updating(x) = IF x = reply THEN 1 ELSE 0
    BY <1>1 DEF Piped, Worked, Replied, Updating, serviceVars
  <1>3. /\ Cardinality(Piped(x)) \in Nat /\ Cardinality(Worked(x)) \in Nat
        /\ Cardinality(Replied(x)) \in Nat
        /\ InFlight(x) = Cardinality(Piped(x)) + Cardinality(Worked(x))
                           + Cardinality(Replied(x)) + Updating(x)
    BY PlacesType DEF Steady, FlowInv
  <1>4. InFlight(reply) = 1
    BY <1>1, ReplyIsKnown
  <1> QED
    BY <1>2, <1>3, <1>4, InFlightAfter

-----------------------------------------------------------------------------
(* How the books change: what a problem has being processed, and what it has *)
(* a status or operands for.                                                 *)
Processing(id) == WithStatus(calcData[id].status, "processing")

Noted(id) == DOMAIN calcData[id].status \cup DOMAIN calcData[id].computable

(* The books of a problem stay as they are.                                  *)
SameBooks(id) ==
    /\ calcData'[id].request = calcData[id].request
    /\ Completed(id)' = Completed(id)
    /\ Processing(id)' = Processing(id)
    /\ Noted(id)' = Noted(id)

(* A new problem has its leaves completed, nothing processed, and notes on   *)
(* the leaves and on what depends on leaves only.                            *)
LEMMA PushBooks ==
    ASSUME Steady, [Next]_vars, NEW r \in Requests, PushProblem(r),
           NEW id, id = nextId
    PROVE  /\ id \notin DOMAIN calcData /\ nextId' = id + 1
           /\ DOMAIN calcData' = DOMAIN calcData \cup {id}
           /\ calcData'[id].request = r
           /\ Completed(id)' = Vertices(Graph[r]) \ TaskVertices(r)
           /\ Processing(id)' = {}
           /\ \A v \in Noted(id)' : \A k \in DOMAIN Graph[r].adj[v] :
                Graph[r].adj[v][k] \in Completed(id)'
           /\ \A i \in DOMAIN calcData : SameBooks(i)
  <1> DEFINE g == Graph[r]
             leaves == {v \in Vertices(g) : g.type[v] \in LeafTypes}
  <1>1. OperandsFirst(g)
    <2>1. handler[r] = "pushing"
      BY DEF PushProblem
    <2>2. Accepted(r)
      BY <2>1 DEF Steady, IdsUnique
    <2> QED
      BY <2>2, GraphAssumption DEF Accepted
  <1>2. id \notin DOMAIN calcData
    BY DEF Steady, MapTypes
  <1>3. /\ DOMAIN calcData' = DOMAIN calcData \cup {id} /\ nextId' = id + 1
        /\ calcData'[id] = New(r)
        /\ \A i \in DOMAIN calcData : calcData'[i] = calcData[i]
    BY <1>2 DEF PushProblem
  <1>4. DOMAIN GetIndependentTasks(g) = leaves
    BY DEF GetIndependentTasks
  <1>5. /\ New(r).request = r
        /\ New(r).status = [v \in leaves |-> "completed"]
        /\ New(r).computable = GetComputableTasks(g, leaves, {})
    BY <1>4 DEF New
  <1>6. leaves = Vertices(g) \ TaskVertices(r)
    BY DEF TaskVertices
  <1>7. Completed(id)' = leaves /\ Processing(id)' = {}
    BY <1>3, <1>5 DEF Completed, Processing, WithStatus
  <1>8. ASSUME NEW v \in Noted(id)', NEW k \in DOMAIN g.adj[v]
        PROVE  g.adj[v][k] \in leaves
    <2>1. CASE v \in leaves
      <3>1. g.adj[v] = <<>>
        BY <1>1, <2>1 DEF OperandsFirst
      <3> QED
        BY <1>8, <3>1
    <2>2. CASE v \in DOMAIN GetComputableTasks(g, leaves, {})
      BY <1>8, <2>2 DEF GetComputableTasks
    <2> QED
      BY <1>3, <1>5, <1>8, <2>1, <2>2 DEF Noted
  <1>9. \A i \in DOMAIN calcData : SameBooks(i)
    BY <1>3 DEF SameBooks, Completed, Processing, Noted
  <1> HIDE DEF g, leaves
  <1> QED
    BY <1>2, <1>3, <1>5, <1>6, <1>7, <1>8, <1>9 DEF g

(* A task that is sent is noted as being processed.                          *)
LEMMA SendBooks ==
    ASSUME Steady, NEW id \in DOMAIN calcData, NEW task \in DOMAIN calcData[id].computable,
           SendTask(id, task)
    PROVE  /\ DOMAIN calcData' = DOMAIN calcData /\ nextId' = nextId
           /\ calcData'[id].request = calcData[id].request
           /\ Completed(id)' = Completed(id)
           /\ task \notin Processing(id) /\ Processing(id)' = Processing(id) \cup {task}
           /\ Noted(id)' = Noted(id)
           /\ \A i \in DOMAIN calcData : i # id => SameBooks(i)
  <1>1. task \notin DOMAIN calcData[id].status
    BY DEF Steady, ProblemsSound
  <1>2. /\ DOMAIN calcData' = DOMAIN calcData
        /\ \A i \in DOMAIN calcData : i # id => calcData'[i] = calcData[i]
        /\ calcData'[id] =
             [request |-> calcData[id].request,
              status |-> [v \in DOMAIN calcData[id].status \cup {task} |->
                            IF v = task THEN "processing" ELSE calcData[id].status[v]],
              computable |-> [v \in DOMAIN calcData[id].computable \ {task} |->
                                calcData[id].computable[v]]]
    BY SendTaskData DEF Steady, MapTypes
  <1>3. /\ calcData'[id].request = calcData[id].request
        /\ calcData'[id].status = [v \in DOMAIN calcData[id].status \cup {task} |->
                                     IF v = task THEN "processing" ELSE calcData[id].status[v]]
        /\ DOMAIN calcData'[id].computable = DOMAIN calcData[id].computable \ {task}
    BY <1>2
  <1>4. Completed(id)' = Completed(id)
    BY <1>1, <1>3 DEF Completed, WithStatus
  <1>5. task \notin Processing(id) /\ Processing(id)' = Processing(id) \cup {task}
    BY <1>1, <1>3 DEF Processing, WithStatus
  <1>6. Noted(id)' = Noted(id)
    BY <1>3 DEF Noted
  <1>7. \A i \in DOMAIN calcData : i # id => SameBooks(i)
    BY <1>2 DEF SameBooks, Completed, Processing, Noted
  <1>8. nextId' = nextId
    BY Zenon DEF SendTask
  <1> QED
    BY <1>2, <1>3, <1>4, <1>5, <1>6, <1>7, <1>8

(* A task that is replied to is completed, and what is noted then has its    *)
(* operands completed.                                                       *)
LEMMA UpdateBooks ==
    ASSUME Steady, UpdateComputableTasks, NEW id, NEW task, id = reply[1], task = reply[2]
    PROVE  /\ DOMAIN calcData' = DOMAIN calcData /\ nextId' = nextId
           /\ id \in DOMAIN calcData
           /\ calcData'[id].request = calcData[id].request
           /\ Completed(id)' = Completed(id) \cup {task}
           /\ Processing(id)' = Processing(id) \ {task}
           /\ \A v \in Noted(id)' : v \in Noted(id) \/
                \A k \in DOMAIN Graph[calcData[id].request].adj[v] :
                    Graph[calcData[id].request].adj[v][k] \in Completed(id)'
           /\ \A i \in DOMAIN calcData : i # id => SameBooks(i)
  <1> DEFINE g == Graph[calcData[id].request]
             status == [calcData[id].status EXCEPT ![task] = "completed"]
  <1>1. /\ Known(id, task) /\ id \in DOMAIN calcData /\ task \in DOMAIN calcData[id].status
        /\ CalcType
    BY ReplyIsKnown DEF UpdateComputableTasks, Known, Steady, MapTypes
  <1>2. nextId' = nextId
    BY UpdateControl
  <1>3. /\ DOMAIN calcData' = DOMAIN calcData
        /\ \A i \in DOMAIN calcData : i # id => calcData'[i] = calcData[i]
        /\ calcData'[id].request = calcData[id].request
        /\ calcData'[id].status = status
        /\ \/ calcData'[id].computable = calcData[id].computable
           \/ calcData'[id].computable = GetComputableTasks(g, WithStatus(status, "completed"),
                                                            WithStatus(status, "processing"))
    <2>1. CASE calcData' = [calcData EXCEPT ![id].status[task] = "completed"]
      <3>1. /\ DOMAIN calcData' = DOMAIN calcData
            /\ \A i \in DOMAIN calcData : i # id => calcData'[i] = calcData[i]
            /\ calcData'[id] = [request |-> calcData[id].request, status |-> status,
                                computable |-> calcData[id].computable]
        BY <1>1, <2>1, StatusUpdate, Zenon
      <3> QED
        BY <3>1
    <2>2. CASE UpdateComputableTasksImpl(id, task)
      <3>1. /\ DOMAIN calcData' = DOMAIN calcData
            /\ \A i \in DOMAIN calcData : i # id => calcData'[i] = calcData[i]
            /\ calcData'[id] = [request |-> calcData[id].request, status |-> status,
                                computable |-> GetComputableTasks(g,
                                                 WithStatus(status, "completed"),
                                                 WithStatus(status, "processing"))]
        BY <1>1, <2>2, UpdateData
      <3> QED
        BY <3>1
    <2> QED
      BY <1>1, <2>1, <2>2 DEF UpdateComputableTasks
  <1>4. Completed(id)' = Completed(id) \cup {task} /\ Processing(id)' = Processing(id) \ {task}
    BY <1>1, <1>3 DEF Completed, Processing, WithStatus
  <1>5. Completed(id)' = WithStatus(status, "completed")
    BY <1>3 DEF Completed
  <1>6. DOMAIN status = DOMAIN calcData[id].status
    OBVIOUS
  <1> HIDE DEF status, g
  <1>7. ASSUME NEW v \in Noted(id)', v \notin Noted(id)
        PROVE  \A k \in DOMAIN g.adj[v] : g.adj[v][k] \in Completed(id)'
    <2>1. v \in DOMAIN calcData'[id].computable /\ v \notin DOMAIN calcData[id].computable
      BY <1>3, <1>6, <1>7 DEF Noted
    <2>2. v \in DOMAIN GetComputableTasks(g, WithStatus(status, "completed"),
                                          WithStatus(status, "processing"))
      BY <1>3, <2>1
    <2> QED
      BY <1>5, <2>2 DEF GetComputableTasks
  <1>8. \A i \in DOMAIN calcData : i # id => SameBooks(i)
    BY <1>3 DEF SameBooks, Completed, Processing, Noted
  <1> QED
    BY <1>1, <1>2, <1>3, <1>4, <1>7, <1>8 DEF g

(* A problem is cleared when all its vertices are completed: its root is,    *)
(* and whatever is completed has its operands completed.                     *)
LEMMA ClearBooks ==
    ASSUME Steady, NEW r \in Requests, ClearProblem(r), NEW id, id = problemId[r]
    PROVE  /\ id \in DOMAIN calcData /\ calcData[id].request = r /\ r \in Posed
           /\ Completed(id) = Vertices(Graph[r]) /\ Processing(id) = {}
           /\ DOMAIN calcData' = DOMAIN calcData \ {id} /\ nextId' = nextId
           /\ \A i \in DOMAIN calcData' : SameBooks(i)
  <1> DEFINE g == Graph[r]
  <1>1. handler[r] = "clearing"
    BY DEF ClearProblem
  <1>2. id \in DOMAIN calcData /\ calcData[id].request = r
    BY <1>1 DEF Steady, Registered, MapTypes
  <1>3. r \in Posed /\ OneRoot(g)
    <2>1. Accepted(r)
      BY <1>1 DEF Steady, IdsUnique
    <2>2. r \in Posed
      BY <1>1, <2>1 DEF Posed, PastPush
    <2> QED
      BY <2>1, <2>2, GraphAssumption DEF Accepted
  <1>4. RootTask(g) \in Completed(id)
    <2>1. RootCompleted(id)
      BY <1>1 DEF Steady, FlowInv, RootKnown
    <2> QED
      BY <1>2, <2>1 DEF RootCompleted
  <1>5. \A v \in Completed(id) : \A k \in DOMAIN g.adj[v] : g.adj[v][k] \in Completed(id)
    BY <1>2 DEF Steady, FlowInv, StatusSound, Completed, WithStatus
  <1>6. Completed(id) \subseteq Vertices(g)
    <2>1. PICK q \in Requests : calcData[id] \in CalculationData(q)
      BY <1>2 DEF Steady, MapTypes, CalcType
    <2>2. q = r /\ DOMAIN calcData[id].status \subseteq Vertices(Graph[q])
      BY <1>2, <2>1, DataElim
    <2> QED
      BY <2>2 DEF Completed, WithStatus
  <1>7. Completed(id) = Vertices(g)
    BY <1>3, <1>4, <1>5, <1>6 DEF OneRoot
  <1>8. Processing(id) = {}
    <2>1. PICK q \in Requests : calcData[id] \in CalculationData(q)
      BY <1>2 DEF Steady, MapTypes, CalcType
    <2>2. q = r /\ DOMAIN calcData[id].status \subseteq Vertices(Graph[q])
      BY <1>2, <2>1, DataElim
    <2> QED
      BY <1>7, <2>2 DEF Completed, Processing, WithStatus
  <1>9. DOMAIN calcData' = DOMAIN calcData \ {id} /\ nextId' = nextId
    BY DEF ClearProblem
  <1>10. ASSUME NEW i \in DOMAIN calcData' PROVE SameBooks(i)
    <2>1. calcData'[i] = calcData[i]
      BY DEF ClearProblem
    <2> QED
      BY <2>1 DEF SameBooks, Completed, Processing, Noted
  <1> QED
    BY <1>2, <1>3, <1>7, <1>8, <1>9, <1>10

(* What a step does to the books and to what is in flight.                   *)
LEMMA BooksSteps ==
    ASSUME Steady, [Next]_vars
    PROVE  \/ UNCHANGED <<calcData, nextId>> /\ \A x : InFlight(x)' = InFlight(x)
           \/ \E r \in Requests : PushProblem(r) /\ \A x : InFlight(x)' = InFlight(x)
           \/ \E r \in Requests : ClearProblem(r) /\ \A x : InFlight(x)' = InFlight(x)
           \/ \E id \in DOMAIN calcData : \E task \in DOMAIN calcData[id].computable :
                /\ SendTask(id, task)
                /\ \A x : InFlight(x)' = InFlight(x) + (IF x = <<id, task>> THEN 1 ELSE 0)
           \/ /\ UpdateComputableTasks
              /\ \A x : InFlight(x)' = IF x = reply THEN 0 ELSE InFlight(x)
  <1>1. CASE UNCHANGED vars
    <2>1. /\ UNCHANGED <<calcData, nextId>>
          /\ UNCHANGED <<taskPipe, replyPipe, open, computed, dispatcher, reply>>
      BY <1>1 DEF vars, managerVars, threadVars, pipeVars, serviceVars
    <2> QED
      BY <2>1, NothingMoves
  <1>2. ASSUME NEW r \in Requests, UNCHANGED serviceVars,
               \/ Decompose(r) \/ LockForPush(r) \/ TestComputed(r) \/ WakeSpuriously(r)
               \/ LockForClear(r) \/ ReadResult(r) \/ ClearDatabase(r)
        PROVE  /\ UNCHANGED <<calcData, nextId>>
               /\ UNCHANGED <<taskPipe, replyPipe, open, computed, dispatcher, reply>>
    BY <1>2
       DEF Decompose, LockForPush, TestComputed, WakeSpuriously, LockForClear, ReadResult,
           ClearDatabase, threadVars, pipeVars, serviceVars
  <1>3. ASSUME NEW r \in Requests, UNCHANGED serviceVars, PushProblem(r) \/ ClearProblem(r)
        PROVE  UNCHANGED <<taskPipe, replyPipe, open, computed, dispatcher, reply>>
    BY <1>3 DEF PushProblem, ClearProblem, threadVars, pipeVars, serviceVars
  <1>4. ASSUME UNCHANGED serviceVars, LockForSend \/ AllSent \/ NotifyAll \/ SetComputed
        PROVE  /\ UNCHANGED <<calcData, nextId, taskPipe, replyPipe, open, computed>>
               /\ dispatcher # "update" /\ dispatcher' # "update"
    BY <1>4
       DEF LockForSend, AllSent, NotifyAll, SetComputed, Crash, threadVars, pipeVars, serviceVars
  <1>5. CASE ReadReply /\ UNCHANGED serviceVars
    BY <1>5, ReadReplyInFlight DEF ReadReply
  <1>6. CASE UNCHANGED managerVars /\ \/ Accept
                                      \/ \E t \in open : Calculate(t)
                                      \/ \E t \in computed : Report(t)
    <2>1. UNCHANGED <<calcData, nextId>>
      BY <1>6 DEF managerVars
    <2> QED
      BY <1>6, <2>1, AcceptInFlight, CalculateInFlight, ReportInFlight
  <1>7. CASE UpdateComputableTasks /\ UNCHANGED serviceVars
    BY <1>7, UpdateInFlight
  <1>8. ASSUME NEW id \in ProblemsToSend, NEW task \in DOMAIN calcData[id].computable,
               SendTask(id, task), UNCHANGED serviceVars
        PROVE  /\ id \in DOMAIN calcData
               /\ \A x : InFlight(x)' = InFlight(x) + (IF x = <<id, task>> THEN 1 ELSE 0)
    <2>1. id \in DOMAIN calcData
      BY DEF ProblemsToSend
    <2> QED
      BY <1>8, <2>1, SendInFlight
  <1> QED
    BY <1>1, <1>2, <1>3, <1>4, <1>5, <1>6, <1>7, <1>8, FlowSteps, NothingMoves

(* The books go on agreeing with what is on its way.                         *)
LEMMA ProcessingStep ==
    ASSUME Steady, [Next]_vars
    PROVE  ProcessingIsInFlight'
  <1> DEFINE Agrees(id) ==
               \A v \in Vertices(Graph[calcData'[id].request]) :
                   InFlight(<<id, v>>)' = IF v \in Processing(id)' THEN 1 ELSE 0
             Nothing(id) ==
               \A r \in Requests : \A v \in Vertices(Graph[r]) : InFlight(<<id, v>>)' = 0
  <1> SUFFICES /\ \A id \in DOMAIN calcData' : Agrees(id)
               /\ \A id \in (0..nextId') \ DOMAIN calcData' : Nothing(id)
    BY DEF ProcessingIsInFlight, Processing
  <1>1. /\ \A id \in DOMAIN calcData : \A v \in Vertices(Graph[calcData[id].request]) :
             InFlight(<<id, v>>) = IF v \in Processing(id) THEN 1 ELSE 0
        /\ \A id \in (0..nextId) \ DOMAIN calcData :
             \A r \in Requests : \A v \in Vertices(Graph[r]) : InFlight(<<id, v>>) = 0
        /\ nextId \in Nat /\ DOMAIN calcData \subseteq 0..(nextId - 1)
    BY DEF Steady, FlowInv, ProcessingIsInFlight, Processing, MapTypes
  <1>2. CASE UNCHANGED <<calcData, nextId>> /\ \A x : InFlight(x)' = InFlight(x)
    BY <1>1, <1>2 DEF Processing
  <1>3. ASSUME NEW r \in Requests, PushProblem(r), \A x : InFlight(x)' = InFlight(x)
        PROVE  /\ \A id \in DOMAIN calcData' : Agrees(id)
               /\ \A id \in (0..nextId') \ DOMAIN calcData' : Nothing(id)
    <2>1. PICK n : n = nextId
      OBVIOUS
    <2>2. /\ nextId' = n + 1 /\ DOMAIN calcData' = DOMAIN calcData \cup {n}
          /\ n \notin DOMAIN calcData
          /\ calcData'[n].request = r /\ Processing(n)' = {}
          /\ \A i \in DOMAIN calcData : SameBooks(i)
      BY <1>3, <2>1, PushBooks
    <2>3. ASSUME NEW id \in DOMAIN calcData
          PROVE  Agrees(id)
      BY <1>1, <1>3, <2>2 DEF SameBooks
    <2>4. Agrees(n)
      BY <1>1, <1>3, <2>1, <2>2
    <2>5. ASSUME NEW v PROVE InFlight(<<n + 1, v>>) = 0
      <3>1. \A q \in Posed : problemId[q] < nextId /\ problemId[q] \in Int
        BY DEF Steady, IdsUnique, MapTypes, Posed, PastPush
      <3>2. <<n + 1, v>> \notin GenuineIds
        BY <1>1, <2>1, <3>1, GenuineId
      <3> QED
        BY <3>2, OnlyGenuineInFlight DEF Steady, FlowInv
    <2>6. ASSUME NEW id \in (0..nextId') \ DOMAIN calcData'
          PROVE  Nothing(id)
      <3>1. id = n + 1 \/ id \in (0..nextId) \ DOMAIN calcData
        BY <1>1, <2>1, <2>2
      <3> QED
        BY <1>1, <1>3, <2>5, <3>1
    <2> QED
      BY <2>2, <2>3, <2>4, <2>6
  <1>4. ASSUME NEW r \in Requests, ClearProblem(r), \A x : InFlight(x)' = InFlight(x)
        PROVE  /\ \A id \in DOMAIN calcData' : Agrees(id)
               /\ \A id \in (0..nextId') \ DOMAIN calcData' : Nothing(id)
    <2>1. PICK n : n = problemId[r]
      OBVIOUS
    <2>2. /\ n \in DOMAIN calcData /\ calcData[n].request = r /\ r \in Posed
          /\ Processing(n) = {}
          /\ DOMAIN calcData' = DOMAIN calcData \ {n} /\ nextId' = nextId
          /\ \A i \in DOMAIN calcData' : SameBooks(i)
      BY <1>4, <2>1, ClearBooks
    <2>3. ASSUME NEW id \in DOMAIN calcData'
          PROVE  Agrees(id)
      BY <1>1, <1>4, <2>2 DEF SameBooks
    <2>4. ASSUME NEW v PROVE InFlight(<<n, v>>) = 0
      <3>1. CASE <<n, v>> \notin GenuineIds
        BY <3>1, OnlyGenuineInFlight DEF Steady, FlowInv
      <3>2. CASE <<n, v>> \in GenuineIds
        <4>1. PICK q \in Posed : \E w \in TaskVertices(q) : <<n, v>> = <<problemId[q], w>>
          BY <3>2, GenuineId
        <4>2. q = r /\ v \in TaskVertices(r)
          BY <2>1, <2>2, <4>1 DEF Steady, IdsUnique
        <4>3. v \in Vertices(Graph[r])
          BY <4>2 DEF TaskVertices
        <4> QED
          BY <1>1, <2>2, <4>3
      <3> QED
        BY <3>1, <3>2
    <2>5. ASSUME NEW id \in (0..nextId') \ DOMAIN calcData'
          PROVE  Nothing(id)
      <3>1. id = n \/ id \in (0..nextId) \ DOMAIN calcData
        BY <2>2
      <3> QED
        BY <1>1, <1>4, <2>4, <3>1
    <2> QED
      BY <2>3, <2>5
  <1>5. ASSUME NEW id \in DOMAIN calcData, NEW task \in DOMAIN calcData[id].computable,
               SendTask(id, task),
               \A x : InFlight(x)' = InFlight(x) + (IF x = <<id, task>> THEN 1 ELSE 0)
        PROVE  /\ \A i \in DOMAIN calcData' : Agrees(i)
               /\ \A i \in (0..nextId') \ DOMAIN calcData' : Nothing(i)
    <2>1. /\ DOMAIN calcData' = DOMAIN calcData /\ nextId' = nextId
          /\ calcData'[id].request = calcData[id].request
          /\ task \notin Processing(id) /\ Processing(id)' = Processing(id) \cup {task}
          /\ \A i \in DOMAIN calcData : i # id => SameBooks(i)
      BY <1>5, SendBooks
    <2>2. ASSUME NEW i, NEW v, i # id \/ v # task
          PROVE  InFlight(<<i, v>>)' = InFlight(<<i, v>>)
      <3>1. <<i, v>> # <<id, task>>
        BY <2>2
      <3>2. InFlight(<<i, v>>) \in Nat
        BY PlacesType DEF Steady, FlowInv
      <3> QED
        BY <1>5, <3>1, <3>2
    <2>3. ASSUME NEW i \in DOMAIN calcData, i # id PROVE Agrees(i)
      BY <1>1, <2>1, <2>2, <2>3 DEF SameBooks
    <2>4. Agrees(id)
      <3> SUFFICES ASSUME NEW v \in Vertices(Graph[calcData[id].request])
                   PROVE  InFlight(<<id, v>>)' = IF v \in Processing(id)' THEN 1 ELSE 0
        BY <2>1
      <3>1. InFlight(<<id, v>>) = IF v \in Processing(id) THEN 1 ELSE 0
        BY <1>1
      <3>2. CASE v = task
        <4>1. InFlight(<<id, v>>)' = InFlight(<<id, v>>) + 1
          BY <1>5, <3>2
        <4> QED
          BY <2>1, <3>1, <3>2, <4>1
      <3>3. CASE v # task
        BY <2>1, <2>2, <3>1, <3>3
      <3> QED
        BY <3>2, <3>3
    <2>5. ASSUME NEW i \in (0..nextId') \ DOMAIN calcData' PROVE Nothing(i)
      <3>1. i # id /\ i \in (0..nextId) \ DOMAIN calcData
        BY <2>1
      <3> QED
        BY <1>1, <2>2, <3>1
    <2> QED
      BY <2>1, <2>3, <2>4, <2>5
  <1>6. ASSUME UpdateComputableTasks, \A x : InFlight(x)' = IF x = reply THEN 0 ELSE InFlight(x)
        PROVE  /\ \A id \in DOMAIN calcData' : Agrees(id)
               /\ \A id \in (0..nextId') \ DOMAIN calcData' : Nothing(id)
    <2>1. PICK id : id = reply[1]
      OBVIOUS
    <2>2. PICK task : task = reply[2]
      OBVIOUS
    <2>3. reply = <<id, task>>
      BY <1>6, <2>1, <2>2, ReplyIsKnown DEF UpdateComputableTasks
    <2>4. /\ DOMAIN calcData' = DOMAIN calcData /\ nextId' = nextId /\ id \in DOMAIN calcData
          /\ calcData'[id].request = calcData[id].request
          /\ Processing(id)' = Processing(id) \ {task}
          /\ \A i \in DOMAIN calcData : i # id => SameBooks(i)
      BY <1>6, <2>1, <2>2, UpdateBooks
    <2>5. ASSUME NEW i, NEW v
          PROVE  InFlight(<<i, v>>)' = IF i = id /\ v = task THEN 0 ELSE InFlight(<<i, v>>)
      BY <1>6, <2>3
    <2>6. ASSUME NEW i \in DOMAIN calcData PROVE Agrees(i)
      BY <1>1, <2>4, <2>5 DEF SameBooks
    <2>7. ASSUME NEW i \in (0..nextId') \ DOMAIN calcData' PROVE Nothing(i)
      BY <1>1, <2>4, <2>5
    <2> QED
      BY <2>4, <2>6, <2>7
  <1> HIDE DEF Agrees, Nothing
  <1> QED
    BY <1>2, <1>3, <1>4, <1>5, <1>6, BooksSteps

-----------------------------------------------------------------------------
(* How the handler of a request moves when nothing throws, and who tells it  *)
(* that its problem is computed.                                             *)
Moves(r) ==
    \/ handler'[r] = handler[r] /\ problemId'[r] = problemId[r]
    \/ /\ handler[r] = "pushing" /\ handler'[r] = "wait" /\ PushProblem(r)
       /\ UNCHANGED isComputed
    \/ /\ problemId'[r] = problemId[r] /\ UNCHANGED isComputed
       /\ \/ handler[r] = "start" /\ handler'[r] = "push"
          \/ handler[r] = "start" /\ handler'[r] = "failed" /\ ~Accepted(r)
          \/ handler[r] = "push" /\ handler'[r] = "pushing"
          \/ handler[r] = "wait" /\ handler'[r] = "clear" /\ isComputed[r]
          \/ handler[r] = "wait" /\ handler'[r] = "asleep"
          \/ handler[r] = "asleep" /\ handler'[r] = "wait"
          \/ handler[r] = "clear" /\ handler'[r] = "clearing"
          \/ handler[r] = "clearing" /\ handler'[r] = "read" /\ ClearProblem(r)
          \/ handler[r] = "read" /\ handler'[r] = "clear_db"
          \/ handler[r] = "clear_db" /\ handler'[r] = "done" /\ ClearDatabase(r)

IsTold(r) ==
    \/ isComputed'[r] = isComputed[r]
    \/ SetComputed /\ r = syncData[reply[1]] /\ isComputed'[r]

(* Every step moves the handlers so, and none ends the process.              *)
LEMMA HandlerMoves ==
    ASSUME Steady, [Next]_vars
    PROVE  managerUp' /\ \A r \in Requests : Moves(r) /\ IsTold(r)
  <1> DEFINE Fine == managerUp' /\ \A r \in Requests : Moves(r) /\ IsTold(r)
  <1> USE DEF Moves, IsTold
  <1>0. /\ managerUp /\ handler \in [Requests -> HandlerPcs] /\ problemId \in [Requests -> 0..nextId]
        /\ isComputed \in [Requests -> BOOLEAN]
    BY DEF Steady, FlowInv, NothingThrows, ThreadTypes, MapTypes
  <1>1. ASSUME UNCHANGED <<handler, problemId, isComputed, managerUp>>
        PROVE  Fine
    BY <1>0, <1>1
  <1>2. ASSUME NEW r \in Requests,
               \/ LockForPush(r) \/ WakeSpuriously(r) \/ LockForClear(r) \/ ClearProblem(r)
               \/ ClearDatabase(r)
        PROVE  Fine
    BY <1>0, <1>2
       DEF LockForPush, WakeSpuriously, LockForClear, ClearProblem, ClearDatabase, Goto
  <1>3. ASSUME NEW r \in Requests, Decompose(r)
        PROVE  Fine
    BY <1>0, <1>3 DEF Decompose, Accepted, Goto
  <1>4. ASSUME NEW r \in Requests, PushProblem(r)
        PROVE  Fine
    <2>1. /\ handler[r] = "pushing" /\ handler' = [handler EXCEPT ![r] = "wait"]
          /\ problemId' = [problemId EXCEPT ![r] = nextId] /\ UNCHANGED <<isComputed, managerUp>>
      BY <1>4 DEF PushProblem, Goto
    <2> QED
      BY <1>0, <1>4, <2>1
  <1>5. ASSUME NEW r \in Requests, TestComputed(r)
        PROVE  Fine
    <2>1. Lookups(r) = {"found"}
      BY DEF Lookups, Steady, Reliable
    <2>2. /\ handler[r] = "wait"
          /\ handler' = [handler EXCEPT ![r] = IF isComputed[r] THEN "clear" ELSE "asleep"]
          /\ UNCHANGED <<problemId, isComputed, managerUp>>
      BY <1>5, <2>1 DEF TestComputed, Goto
    <2> QED
      BY <1>0, <2>2
  <1>6. ASSUME NEW r \in Requests, ReadResult(r)
        PROVE  Fine
    <2>1. handler[r] = "read"
      BY <1>6 DEF ReadResult
    <2>2. ReadDynamicData(<<problemId[r], RootTask(Graph[r])>>) # Exception
      BY <2>1 DEF ReadDynamicData, Steady, FlowInv, RootKnown, NothingThrows
    <2>3. /\ handler' = [handler EXCEPT ![r] = "clear_db"]
          /\ UNCHANGED <<problemId, isComputed, managerUp>>
      BY <1>6, <2>2 DEF ReadResult, Goto
    <2> QED
      BY <1>0, <2>1, <2>3
  <1>7. ASSUME UpdateComputableTasks
        PROVE  Fine
    <2>1. Known(reply[1], reply[2])
      BY <1>7, ReplyIsKnown DEF UpdateComputableTasks
    <2>2. UNCHANGED <<handler, problemId, isComputed, managerUp>>
      BY <1>7, <2>1 DEF UpdateComputableTasks, handlerVars
    <2> QED
      BY <1>1, <2>2
  <1>8. ASSUME SetComputed
        PROVE  Fine
    <2> DEFINE r == syncData[reply[1]]
    <2>1. reply[1] \in DOMAIN syncData /\ r \in Requests /\ ~Gone(r)
      <3>1. reply[1] \in DOMAIN syncData
        BY <1>8 DEF SetComputed, Steady, ReportsKnownProblem
      <3> QED
        BY <3>1 DEF Gone, Steady, SyncDataAlive, MapTypes, Reliable
    <2>2. /\ isComputed' = [isComputed EXCEPT ![r] = TRUE]
          /\ UNCHANGED <<handler, problemId, managerUp>>
      BY <1>8, <2>1 DEF SetComputed
    <2> HIDE DEF r
    <2> QED
      BY <1>0, <1>8, <2>1, <2>2 DEF r
  <1>9. ASSUME NotifyAll
        PROVE  Fine
    <2> DEFINE r == syncData[reply[1]]
    <2>1. /\ handler' = [handler EXCEPT ![r] = IF @ = "asleep" THEN "wait" ELSE @]
          /\ UNCHANGED <<problemId, isComputed, managerUp>>
      BY <1>9 DEF NotifyAll
    <2> HIDE DEF r
    <2> QED
      BY <1>0, <2>1
  <1>10. ASSUME \/ LockForSend \/ AllSent \/ ReadReply \/ UNCHANGED managerVars
                \/ \E id \in ProblemsToSend : \E task \in DOMAIN calcData[id].computable :
                    SendTask(id, task)
         PROVE  UNCHANGED <<handler, problemId, isComputed, managerUp>>
    BY <1>10 DEF LockForSend, AllSent, ReadReply, SendTask, handlerVars, managerVars
  <1> HIDE DEF Fine
  <1>11. ~RestartManager
    BY FlowSteps DEF Going
  <1>12. Fine
    BY <1>1, <1>2, <1>3, <1>4, <1>5, <1>6, <1>7, <1>8, <1>9, <1>10, <1>11, ManagerSteps
  <1> QED
    BY <1>12 DEF Fine

(* How the database changes.                                                 *)
LEMMA DatabaseSteps ==
    ASSUME Steady, [Next]_vars
    PROVE  \/ UNCHANGED db /\ computed' \subseteq computed
           \/ \E t \in open :
                /\ Calculate(t) /\ UNCHANGED managerVars /\ computed' = computed \cup {t}
                /\ DOMAIN db' = DOMAIN db \cup {t.id} /\ db'[t.id] # Exception
                /\ \A row \in DOMAIN db : db'[row] = db[row]
           \/ \E r \in Requests :
                /\ ClearDatabase(r) /\ UNCHANGED serviceVars
                /\ DOMAIN db' = {row \in DOMAIN db : row[1] # problemId[r]}
                /\ \A row \in DOMAIN db' : db'[row] = db[row]
  <1>1. ASSUME NEW t \in open, Calculate(t)
        PROVE  /\ DOMAIN db' = DOMAIN db \cup {t.id} /\ db'[t.id] # Exception
               /\ \A row \in DOMAIN db : db'[row] = db[row]
               /\ computed' = computed \cup {t}
    BY <1>1 DEF Calculate, WriteDynamicData, Steady, FlowInv, NothingThrows
  <1>2. ASSUME NEW r \in Requests, ClearDatabase(r)
        PROVE  /\ DOMAIN db' = {row \in DOMAIN db : row[1] # problemId[r]}
               /\ \A row \in DOMAIN db' : db'[row] = db[row]
    BY <1>2 DEF ClearDatabase, ClearIntermediateCalculations
  <1>3. UNCHANGED serviceVars => computed' \subseteq computed
    BY DEF serviceVars
  <1>4. CASE UNCHANGED vars
    BY <1>3, <1>4 DEF vars
  <1>5. ASSUME NEW r \in Requests,
               \/ Decompose(r) \/ LockForPush(r) \/ PushProblem(r) \/ TestComputed(r)
               \/ WakeSpuriously(r) \/ LockForClear(r) \/ ClearProblem(r) \/ ReadResult(r)
        PROVE  UNCHANGED db
    BY <1>5
       DEF Decompose, LockForPush, PushProblem, TestComputed, WakeSpuriously, LockForClear,
           ClearProblem, ReadResult
  <1>6. ASSUME \/ LockForSend \/ AllSent \/ ReadReply \/ UpdateComputableTasks
               \/ SetComputed \/ NotifyAll \/ \E id \in ProblemsToSend : \E task \in DOMAIN calcData[id].computable :
                    SendTask(id, task)
        PROVE  UNCHANGED db
    BY <1>6
       DEF LockForSend, AllSent, ReadReply, UpdateComputableTasks, SetComputed, NotifyAll,
           SendTask
  <1>7. ASSUME Accept \/ \E t \in computed : Report(t)
        PROVE  UNCHANGED db /\ computed' \subseteq computed
    BY <1>7 DEF Accept, Report
  <1> QED
    BY <1>1, <1>2, <1>3, <1>4, <1>5, <1>6, <1>7, FlowSteps

-----------------------------------------------------------------------------
(* A problem keeps its request, and what is completed stays so, until the    *)
(* problem is cleared; what is newly completed was the reply.                *)
LEMMA CompletedSteps ==
    ASSUME Steady, [Next]_vars
    PROVE  /\ \A id \in DOMAIN calcData :
                \/ /\ id \in DOMAIN calcData'
                   /\ calcData'[id].request = calcData[id].request
                   /\ Completed(id) \subseteq Completed(id)'
                \/ \E r \in Requests : ClearProblem(r) /\ id = problemId[r]
           /\ \A id \in DOMAIN calcData' :
                \A v \in Completed(id)' \cap TaskVertices(calcData'[id].request) :
                    \/ /\ id \in DOMAIN calcData
                       /\ calcData'[id].request = calcData[id].request
                       /\ v \in Completed(id)
                    \/ dispatcher = "update" /\ reply = <<id, v>>
  <1> DEFINE Stays(id) ==
                \/ /\ id \in DOMAIN calcData'
                   /\ calcData'[id].request = calcData[id].request
                   /\ Completed(id) \subseteq Completed(id)'
                \/ \E r \in Requests : ClearProblem(r) /\ id = problemId[r]
             Knew(id, v) ==
                \/ /\ id \in DOMAIN calcData
                   /\ calcData'[id].request = calcData[id].request
                   /\ v \in Completed(id)
                \/ dispatcher = "update" /\ reply = <<id, v>>
             News(id) == Completed(id)' \cap TaskVertices(calcData'[id].request)
             Fine == /\ \A id \in DOMAIN calcData : Stays(id)
                     /\ \A id \in DOMAIN calcData' : \A v \in News(id) : Knew(id, v)
  <1>1. ASSUME UNCHANGED calcData PROVE Fine
    BY <1>1 DEF Completed
  <1>2. ASSUME NEW r \in Requests, PushProblem(r) PROVE Fine
    <2>1. PICK n : n = nextId
      OBVIOUS
    <2>2. /\ DOMAIN calcData' = DOMAIN calcData \cup {n} /\ calcData'[n].request = r
          /\ Completed(n)' = Vertices(Graph[r]) \ TaskVertices(r)
          /\ \A i \in DOMAIN calcData : SameBooks(i)
      BY <1>2, <2>1, PushBooks
    <2>3. News(n) = {}
      BY <2>2
    <2> QED
      BY <2>2, <2>3 DEF SameBooks
  <1>3. ASSUME NEW r \in Requests, ClearProblem(r) PROVE Fine
    <2>1. PICK n : n = problemId[r]
      OBVIOUS
    <2>2. /\ DOMAIN calcData' = DOMAIN calcData \ {n}
          /\ \A i \in DOMAIN calcData' : SameBooks(i)
      BY <1>3, <2>1, ClearBooks
    <2> QED
      BY <1>3, <2>1, <2>2 DEF SameBooks
  <1>4. ASSUME NEW id \in DOMAIN calcData, NEW task \in DOMAIN calcData[id].computable,
               SendTask(id, task)
        PROVE  Fine
    <2>1. /\ DOMAIN calcData' = DOMAIN calcData
          /\ calcData'[id].request = calcData[id].request
          /\ Completed(id)' = Completed(id)
          /\ \A i \in DOMAIN calcData : i # id => SameBooks(i)
      BY <1>4, SendBooks
    <2> QED
      BY <2>1 DEF SameBooks
  <1>5. ASSUME UpdateComputableTasks PROVE Fine
    <2>1. PICK id : id = reply[1]
      OBVIOUS
    <2>2. PICK task : task = reply[2]
      OBVIOUS
    <2>3. dispatcher = "update" /\ reply = <<id, task>>
      BY <1>5, <2>1, <2>2, ReplyIsKnown DEF UpdateComputableTasks
    <2>4. /\ DOMAIN calcData' = DOMAIN calcData /\ id \in DOMAIN calcData
          /\ calcData'[id].request = calcData[id].request
          /\ Completed(id)' = Completed(id) \cup {task}
          /\ \A i \in DOMAIN calcData : i # id => SameBooks(i)
      BY <1>5, <2>1, <2>2, UpdateBooks
    <2> QED
      BY <2>3, <2>4 DEF SameBooks
  <1> HIDE DEF Fine
  <1>6. Fine
    BY <1>1, <1>2, <1>3, <1>4, <1>5, BooksSteps
  <1> QED
    BY <1>6 DEF Fine

(* Whatever has a status or is computable goes on having its operands        *)
(* completed.                                                                *)
LEMMA StatusStep ==
    ASSUME Steady, [Next]_vars
    PROVE  StatusSound'
  <1> DEFINE HasOperands(id) ==
               LET g == Graph[calcData'[id].request]
               IN  /\ Vertices(g) \ TaskVertices(calcData'[id].request) \subseteq Completed(id)'
                   /\ \A v \in Noted(id)' : \A k \in DOMAIN g.adj[v] :
                        g.adj[v][k] \in Completed(id)'
             Fine == \A id \in DOMAIN calcData' : HasOperands(id)
  <1>0. \A id \in DOMAIN calcData :
            LET g == Graph[calcData[id].request]
            IN  /\ Vertices(g) \ TaskVertices(calcData[id].request) \subseteq Completed(id)
                /\ \A v \in Noted(id) : \A k \in DOMAIN g.adj[v] : g.adj[v][k] \in Completed(id)
    BY DEF Steady, FlowInv, StatusSound, Noted
  <1>1. ASSUME UNCHANGED calcData PROVE Fine
    BY <1>0, <1>1 DEF Completed, Noted
  <1>2. ASSUME NEW i \in DOMAIN calcData, SameBooks(i) PROVE HasOperands(i)
    BY <1>0, <1>2 DEF SameBooks
  <1>3. ASSUME NEW r \in Requests, PushProblem(r) PROVE Fine
    <2>1. PICK n : n = nextId
      OBVIOUS
    <2>2. /\ DOMAIN calcData' = DOMAIN calcData \cup {n} /\ calcData'[n].request = r
          /\ Completed(n)' = Vertices(Graph[r]) \ TaskVertices(r)
          /\ \A v \in Noted(n)' : \A k \in DOMAIN Graph[r].adj[v] :
                Graph[r].adj[v][k] \in Completed(n)'
          /\ \A i \in DOMAIN calcData : SameBooks(i)
      BY <1>3, <2>1, PushBooks
    <2>3. HasOperands(n)
      BY <2>2
    <2> HIDE DEF HasOperands
    <2> QED
      BY <1>2, <2>2, <2>3
  <1>4. ASSUME NEW r \in Requests, ClearProblem(r) PROVE Fine
    <2>1. PICK n : n = problemId[r]
      OBVIOUS
    <2>2. /\ DOMAIN calcData' = DOMAIN calcData \ {n}
          /\ \A i \in DOMAIN calcData' : SameBooks(i)
      BY <1>4, <2>1, ClearBooks
    <2> HIDE DEF HasOperands
    <2> QED
      BY <1>2, <2>2
  <1>5. ASSUME NEW id \in DOMAIN calcData, NEW task \in DOMAIN calcData[id].computable,
               SendTask(id, task)
        PROVE  Fine
    <2>1. /\ DOMAIN calcData' = DOMAIN calcData
          /\ calcData'[id].request = calcData[id].request
          /\ Completed(id)' = Completed(id) /\ Noted(id)' = Noted(id)
          /\ \A i \in DOMAIN calcData : i # id => SameBooks(i)
      BY <1>5, SendBooks
    <2>2. HasOperands(id)
      BY <1>0, <2>1
    <2> HIDE DEF HasOperands
    <2> QED
      BY <1>2, <2>1, <2>2
  <1>6. ASSUME UpdateComputableTasks PROVE Fine
    <2>1. PICK id : id = reply[1]
      OBVIOUS
    <2>2. PICK task : task = reply[2]
      OBVIOUS
    <2>3. /\ DOMAIN calcData' = DOMAIN calcData /\ id \in DOMAIN calcData
          /\ calcData'[id].request = calcData[id].request
          /\ Completed(id)' = Completed(id) \cup {task}
          /\ \A v \in Noted(id)' : v \in Noted(id) \/
               \A k \in DOMAIN Graph[calcData[id].request].adj[v] :
                   Graph[calcData[id].request].adj[v][k] \in Completed(id)'
          /\ \A i \in DOMAIN calcData : i # id => SameBooks(i)
      BY <1>6, <2>1, <2>2, UpdateBooks
    <2>4. HasOperands(id)
      BY <1>0, <2>3
    <2> HIDE DEF HasOperands
    <2> QED
      BY <1>2, <2>3, <2>4
  <1>7. Fine
    <2> HIDE DEF Fine
    <2> QED
      BY <1>1, <1>3, <1>4, <1>5, <1>6, BooksSteps
  <1> QED
    BY <1>7 DEF StatusSound, Noted

(* A handler clears the rows of a problem nobody works on any more.          *)
LEMMA ClearsItsOwn ==
    ASSUME Steady, NEW r \in Requests, handler[r] = "clear_db"
    PROVE  r \in Posed /\ problemId[r] \notin DOMAIN calcData
  <1>1. r \in Posed
    BY DEF Steady, IdsUnique, Posed, PastPush
  <1>2. ASSUME problemId[r] \in DOMAIN calcData
        PROVE  FALSE
    <2>1. /\ calcData[problemId[r]].request \in Posed
          /\ problemId[calcData[problemId[r]].request] = problemId[r]
      BY <1>2 DEF Steady, ProblemsSound
    <2>2. calcData[problemId[r]].request = r
      BY <1>1, <2>1 DEF Steady, IdsUnique
    <2>3. problemId[r] \in DOMAIN syncData /\ syncData[problemId[r]] = r
      BY <1>2, <2>2 DEF Steady, Registered, MapTypes
    <2> QED
      BY <2>3 DEF Steady, SyncDataAlive, Reliable
  <1> QED
    BY <1>1, <1>2

(* The rows of the problems in the map stay.                                 *)
LEMMA RowsKept ==
    ASSUME Steady, [Next]_vars, NEW row \in DOMAIN db, row[1] \in DOMAIN calcData
    PROVE  row \in DOMAIN db'
  <1>1. ASSUME NEW r \in Requests, ClearDatabase(r)
        PROVE  row[1] # problemId[r]
    <2>1. handler[r] = "clear_db"
      BY <1>1 DEF ClearDatabase
    <2> QED
      BY <2>1, ClearsItsOwn
  <1> QED
    BY <1>1, DatabaseSteps

(* A task under way keeps its row.                                           *)
LEMMA UnderWayRow ==
    ASSUME Steady, [Next]_vars, NEW x \in GenuineIds, x \in DOMAIN db,
           \/ \E t \in computed : x = t.id
           \/ \E i \in DOMAIN replyPipe : x = replyPipe[i]
           \/ dispatcher = "update" /\ x = reply
    PROVE  x \in DOMAIN db'
  <1>1. \/ Worked(x) # {} \/ Replied(x) # {} \/ (dispatcher = "update" /\ reply = x)
    <2>1. ASSUME NEW t \in computed, x = t.id PROVE t \in Worked(x)
      BY <2>1 DEF Worked
    <2>2. ASSUME NEW i \in DOMAIN replyPipe, x = replyPipe[i] PROVE i \in Replied(x)
      BY <2>2 DEF Replied
    <2>3. CASE \E t \in computed : x = t.id
      <3>1. PICK t \in computed : x = t.id
        BY <2>3
      <3>2. t \in Worked(x)
        BY <2>1, <3>1
      <3> QED
        BY <3>2
    <2>4. CASE \E i \in DOMAIN replyPipe : x = replyPipe[i]
      <3>1. PICK i \in DOMAIN replyPipe : x = replyPipe[i]
        BY <2>4
      <3>2. i \in Replied(x)
        BY <2>2, <3>1
      <3> QED
        BY <3>2
    <2> QED
      BY <2>3, <2>4
  <1>2. x[1] \in DOMAIN calcData
    BY <1>1, UnderWay DEF Steady, FlowInv
  <1> QED
    BY <1>2, RowsKept

(* Where replies come from.                                                  *)
LEMMA ReplySteps ==
    ASSUME Steady, [Next]_vars
    PROVE  /\ \/ UNCHANGED replyPipe
              \/ replyPipe # <<>> /\ replyPipe' = Tail(replyPipe)
              \/ \E t \in computed : replyPipe' = Append(replyPipe, t.id)
           /\ \/ dispatcher' \notin {"update", "computed", "notify"}
              \/ dispatcher' = "update" /\ replyPipe # <<>> /\ reply' = Head(replyPipe)
              \/ UNCHANGED <<dispatcher, reply>>
              \/ /\ dispatcher = "update" /\ dispatcher' = "computed" /\ UpdateComputableTasks
                 /\ UNCHANGED reply /\ reply[2] = RootTask(Graph[calcData[reply[1]].request])
              \/ /\ dispatcher = "computed" /\ dispatcher' = "notify" /\ UNCHANGED reply
  <1>1. CASE UNCHANGED vars
    BY <1>1 DEF vars, managerVars, threadVars, pipeVars
  <1>2. ASSUME NEW r \in Requests,
               \/ Decompose(r) \/ LockForPush(r) \/ PushProblem(r) \/ TestComputed(r)
               \/ WakeSpuriously(r) \/ LockForClear(r) \/ ClearProblem(r) \/ ReadResult(r)
               \/ ClearDatabase(r)
        PROVE  UNCHANGED <<replyPipe, dispatcher, reply>>
    BY <1>2
       DEF Decompose, LockForPush, PushProblem, TestComputed, WakeSpuriously, LockForClear,
           ClearProblem, ReadResult, ClearDatabase, threadVars, pipeVars
  <1>3. ASSUME LockForSend \/ AllSent \/ NotifyAll
        PROVE  UNCHANGED replyPipe /\ dispatcher' \notin {"update", "computed", "notify"}
    BY <1>3 DEF LockForSend, AllSent, NotifyAll, pipeVars
  <1>4. ASSUME NEW id \in ProblemsToSend, NEW task \in DOMAIN calcData[id].computable,
               SendTask(id, task)
        PROVE  UNCHANGED <<replyPipe, dispatcher, reply>>
    BY <1>4, Zenon DEF SendTask, threadVars
  <1>5. CASE SetComputed
    BY <1>5 DEF SetComputed, Crash, threadVars, pipeVars
  <1>6. CASE ReadReply
    BY <1>6 DEF ReadReply
  <1>7. CASE UpdateComputableTasks
    <2>1. dispatcher = "update" /\ Known(reply[1], reply[2])
      BY <1>7, ReplyIsKnown DEF UpdateComputableTasks
    <2> QED
      BY <1>7, <2>1 DEF UpdateComputableTasks, pipeVars
  <1>8. CASE UNCHANGED managerVars /\ \/ Accept
                                      \/ \E t \in open : Calculate(t)
                                      \/ \E t \in computed : Report(t)
    <2>1. UNCHANGED <<dispatcher, reply>>
      BY <1>8 DEF managerVars, threadVars
    <2> QED
      BY <1>8, <2>1 DEF Accept, Calculate, Report, SendOnReplyPipe, pipeVars
  <1> QED
    BY <1>1, <1>2, <1>3, <1>4, <1>5, <1>6, <1>7, <1>8, FlowSteps

(* The same for what is on its way back: each reply after the step was one   *)
(* before, or its task was calculated.                                       *)
LEMMA RepliesKnown ==
    ASSUME Steady, [Next]_vars, NEW x,
           \/ \E i \in DOMAIN replyPipe' : x = replyPipe'[i]
           \/ dispatcher' = "update" /\ x = reply'
    PROVE  /\ x \in GenuineIds
           /\ \/ \E t \in computed : x = t.id
              \/ \E i \in DOMAIN replyPipe : x = replyPipe[i]
              \/ dispatcher = "update" /\ x = reply
  <1>1. replyPipe \in Seq(GenuineIds) /\ computed \subseteq GenuineTasks
    BY DEF Steady, FlowInv, FlowTypes, TasksGenuine
  <1>2. \/ \E t \in computed : x = t.id
        \/ \E i \in DOMAIN replyPipe : x = replyPipe[i]
        \/ dispatcher = "update" /\ x = reply
    <2>1. CASE \E i \in DOMAIN replyPipe' : x = replyPipe'[i]
      <3>1. CASE UNCHANGED replyPipe
        BY <2>1, <3>1
      <3>2. CASE replyPipe # <<>> /\ replyPipe' = Tail(replyPipe)
        BY <1>1, <2>1, <3>2
      <3>3. ASSUME NEW t \in computed, replyPipe' = Append(replyPipe, t.id)
            PROVE  x = t.id \/ \E i \in DOMAIN replyPipe : x = replyPipe[i]
        <4>1. t.id \in GenuineIds
          BY <1>1 DEF GenuineIds
        <4> QED
          BY <1>1, <2>1, <3>3, <4>1
      <3> QED
        BY <3>1, <3>2, <3>3, ReplySteps
    <2>2. CASE dispatcher' = "update" /\ x = reply'
      <3>1. CASE replyPipe # <<>> /\ reply' = Head(replyPipe)
        <4>1. 1 \in DOMAIN replyPipe /\ x = replyPipe[1]
          BY <1>1, <2>2, <3>1
        <4> QED
          BY <4>1
      <3>2. CASE UNCHANGED <<dispatcher, reply>>
        BY <2>2, <3>2
      <3> QED
        BY <2>2, <3>1, <3>2, ReplySteps
    <2> QED
      BY <2>1, <2>2
  <1>3. \A t \in computed : t.id \in GenuineIds
    BY <1>1 DEF GenuineIds
  <1> QED
    BY <1>1, <1>2, <1>3 DEF Steady, FlowInv, FlowTypes

(* What is completed or reported goes on being in the database.              *)
LEMMA WrittenStep ==
    ASSUME Steady, [Next]_vars
    PROVE  WrittenFirst'
  <1>0. WrittenFirst /\ TasksGenuine /\ FlowTypes
    BY DEF Steady, FlowInv
  <1>1. ASSUME NEW id \in DOMAIN calcData',
               NEW v \in Completed(id)' \cap TaskVertices(calcData'[id].request)
        PROVE  <<id, v>> \in DOMAIN db'
    <2>1. CASE /\ id \in DOMAIN calcData
               /\ calcData'[id].request = calcData[id].request
               /\ v \in Completed(id)
      <3>1. <<id, v>> \in DOMAIN db /\ <<id, v>>[1] \in DOMAIN calcData
        BY <1>0, <1>1, <2>1 DEF WrittenFirst
      <3> QED
        BY <3>1, RowsKept
    <2>2. CASE dispatcher = "update" /\ reply = <<id, v>>
      BY <2>2, ReplyIsKnown, UnderWayRow
    <2> QED
      BY <1>1, <2>1, <2>2, CompletedSteps
  <1>2. ASSUME NEW t \in computed
        PROVE  t.id \in DOMAIN db'
    <2>1. PICK x : x = t.id
      OBVIOUS
    <2>2. x \in GenuineIds /\ x \in DOMAIN db
      BY <1>0, <1>2, <2>1 DEF TasksGenuine, GenuineIds, WrittenFirst
    <2> QED
      BY <2>1, <2>2, UnderWayRow
  <1>3. ASSUME NEW t \in computed'
        PROVE  t.id \in DOMAIN db'
    BY <1>2, <1>3, DatabaseSteps DEF ClearDatabase, serviceVars
  <1>4. ASSUME NEW x,
               \/ \E i \in DOMAIN replyPipe' : x = replyPipe'[i]
               \/ dispatcher' = "update" /\ x = reply'
        PROVE  x \in DOMAIN db'
    <2>1. x \in GenuineIds
      BY <1>4, RepliesKnown
    <2>2. CASE \E i \in DOMAIN replyPipe : x = replyPipe[i]
      <3>1. x \in DOMAIN db
        BY <1>0, <2>2 DEF WrittenFirst
      <3> QED
        BY <2>1, <2>2, <3>1, UnderWayRow
    <2>3. CASE dispatcher = "update" /\ x = reply
      BY <1>0, <2>1, <2>3, UnderWayRow DEF WrittenFirst
    <2> QED
      BY <1>2, <1>4, <2>2, <2>3, RepliesKnown
  <1> QED
    BY <1>1, <1>3, <1>4 DEF WrittenFirst, TaskVertices, Vertices

(* Replies stay ids of tasks, and a task is with one worker at most.         *)
LEMMA FlowTypesStep ==
    ASSUME Steady, [Next]_vars
    PROVE  FlowTypes'
  <1>1. /\ replyPipe \in Seq(GenuineIds) /\ computed \subseteq GenuineTasks
        /\ dispatcher \in {"update", "computed", "notify"} => reply \in GenuineIds
        /\ IsFiniteSet(open) /\ IsFiniteSet(computed) /\ open \cap computed = {}
        /\ duplicates \in Nat
    BY DEF Steady, FlowInv, FlowTypes, TasksGenuine
  <1>2. GenuineIds \subseteq GenuineIds'
    BY FlowSteps, GenuineKept DEF Steady, GenuineIds
  <1>3. \A t \in computed : t.id \in GenuineIds
    BY <1>1 DEF GenuineIds
  <1> HIDE DEF GenuineIds
  <1>4. replyPipe' \in Seq(GenuineIds)
    BY <1>1, <1>3, ReplySteps
  <1>5. dispatcher' \in {"update", "computed", "notify"} => reply' \in GenuineIds
    BY <1>1, ReplySteps
  <1>6. replyPipe' \in Seq(GenuineIds')
    BY <1>2, <1>4
  <1>7. /\ IsFiniteSet(open') /\ IsFiniteSet(computed') /\ open' \cap computed' = {}
    <2>1. CASE UNCHANGED <<open, computed>>
      BY <1>1, <2>1
    <2>2. CASE Accept /\ UNCHANGED managerVars
      <3>1. Head(taskPipe) \notin open \cup computed
        BY <2>2, AcceptInFlight
      <3>2. open' = open \cup {Head(taskPipe)} /\ UNCHANGED computed
        BY <2>2 DEF Accept
      <3> QED
        BY <1>1, <3>1, <3>2, FS_AddElement
    <2>3. ASSUME NEW t \in open, Calculate(t)
          PROVE  /\ IsFiniteSet(open') /\ IsFiniteSet(computed') /\ open' \cap computed' = {}
      <3>1. open' = open \ {t} /\ computed' = computed \cup {t}
        BY <2>3 DEF Calculate
      <3> QED
        BY <1>1, <3>1, FS_AddElement, FS_RemoveElement
    <2>4. ASSUME NEW t \in computed, Report(t)
          PROVE  /\ IsFiniteSet(open') /\ IsFiniteSet(computed') /\ open' \cap computed' = {}
      <3>1. UNCHANGED open /\ computed' = computed \ {t}
        BY <2>4 DEF Report
      <3> QED
        BY <1>1, <3>1, FS_RemoveElement
    <2> QED
      BY <2>1, <2>2, <2>3, <2>4, FlowSteps DEF vars, serviceVars
  <1>8. duplicates' = duplicates
    BY FlowSteps DEF vars, faultVars
  <1> QED
    BY <1>1, <1>2, <1>5, <1>6, <1>7, <1>8 DEF FlowTypes

(* The rows a task reads are those of its operands in its own problem.       *)
LEMMA TaskOperands ==
    ASSUME NEW r, NEW v, NEW t, t = TaskOf(r, v), NEW i \in DOMAIN t.operands,
           "id" \in DOMAIN t.operands[i]
    PROVE  /\ i \in DOMAIN Graph[r].adj[v] /\ Graph[r].adj[v][i] \in TaskVertices(r)
           /\ t.operands[i].id = <<problemId[r], Graph[r].adj[v][i]>>
  <1>1. i \in DOMAIN Graph[r].adj[v]
    BY DEF TaskOf
  <1>2. CASE Graph[r].adj[v][i] \in TaskVertices(r)
    <2>1. t.operands[i] = [id |-> <<problemId[r], Graph[r].adj[v][i]>>]
      BY <1>1, <1>2 DEF TaskOf, DynOperand
    <2> QED
      BY <1>1, <1>2, <2>1
  <1>3. CASE Graph[r].adj[v][i] \notin TaskVertices(r)
    <2>1. t.operands[i] = [identifier |-> Graph[r].data[Graph[r].adj[v][i]]]
      BY <1>1, <1>3 DEF TaskOf, StaticOperand
    <2> QED
      BY <2>1
  <1> QED
    BY <1>1, <1>2, <1>3

(* A task that is sent finds its operands, and they stay until it is         *)
(* calculated.                                                               *)
LEMMA OperandsStep ==
    ASSUME Steady, [Next]_vars
    PROVE  OperandsReady'
  <1> DEFINE Waiting == open \cup {taskPipe[i] : i \in DOMAIN taskPipe}
             Ready(t) == \A i \in DOMAIN t.operands :
                           "id" \in DOMAIN t.operands[i] => t.operands[i].id \in DOMAIN db'
  <1>0. OperandsReady /\ TasksGenuine /\ taskPipe \in Seq(GenuineTasks)
    BY DEF Steady, FlowInv, TasksGenuine
  <1>1. ASSUME NEW t \in Waiting PROVE Ready(t)
    <2>1. t \in GenuineTasks
      BY <1>0 DEF TasksGenuine
    <2>2. PICK r \in Posed : \E v \in TaskVertices(r) : t = TaskOf(r, v)
      BY <2>1 DEF GenuineTasks
    <2>3. PICK v \in TaskVertices(r) : t = TaskOf(r, v)
      BY <2>2
    <2>4. PICK x : x = t.id
      OBVIOUS
    <2>5. x \in GenuineIds /\ x = <<problemId[r], v>>
      <3>1. x \in GenuineIds
        BY <2>1, <2>4 DEF GenuineIds
      <3>2. x = <<problemId[r], v>>
        BY <2>3, <2>4 DEF TaskOf
      <3> QED
        BY <3>1, <3>2
    <2>6. Piped(x) # {} \/ Worked(x) # {}
      <3>1. CASE t \in open
        <4>1. t \in Worked(x)
          BY <2>4, <3>1 DEF Worked
        <4> QED
          BY <4>1
      <3>2. ASSUME NEW i \in DOMAIN taskPipe, t = taskPipe[i] PROVE i \in Piped(x)
        BY <2>4, <3>2 DEF Piped
      <3> QED
        BY <3>1, <3>2
    <2>7. x[1] \in DOMAIN calcData
      BY <2>5, <2>6, UnderWay DEF Steady, FlowInv
    <2>8. problemId[r] \in DOMAIN calcData
      BY <2>5, <2>7
    <2> SUFFICES ASSUME NEW i \in DOMAIN t.operands, "id" \in DOMAIN t.operands[i]
                 PROVE  t.operands[i].id \in DOMAIN db'
      OBVIOUS
    <2>9. t.operands[i].id \in DOMAIN db
      BY <1>0 DEF OperandsReady
    <2>10. t.operands[i].id[1] = problemId[r]
      BY <2>3, TaskOperands
    <2> QED
      BY <2>8, <2>9, <2>10, RowsKept
  <1>2. ASSUME NEW id \in DOMAIN calcData, NEW task \in DOMAIN calcData[id].computable,
               NEW t, t = FormTaskRequest(id, task, calcData[id].computable[task])
        PROVE  t \in GenuineTasks /\ Ready(t)
    <2>1. t \in GenuineTasks /\ t.id = <<id, task>>
      BY <1>2, FormsGenuineTask DEF Steady, FormTaskRequest
    <2>2. PICK r \in Posed : \E v \in TaskVertices(r) : t = TaskOf(r, v)
      BY <2>1 DEF GenuineTasks
    <2>3. PICK v \in TaskVertices(r) : t = TaskOf(r, v)
      BY <2>2
    <2>4. problemId[r] = id /\ v = task
      BY <2>1, <2>3 DEF TaskOf
    <2>5. calcData[id].request = r
      BY <2>4 DEF Steady, ProblemsSound, IdsUnique
    <2> SUFFICES ASSUME NEW i \in DOMAIN t.operands, "id" \in DOMAIN t.operands[i]
                 PROVE  t.operands[i].id \in DOMAIN db'
      BY <2>1
    <2> DEFINE u == Graph[r].adj[v][i]
    <2>6. /\ i \in DOMAIN Graph[r].adj[v] /\ u \in TaskVertices(r)
          /\ t.operands[i].id = <<problemId[r], u>>
      BY <2>3, TaskOperands
    <2>7. u \in Completed(id)
      BY <2>4, <2>5, <2>6 DEF Steady, FlowInv, StatusSound
    <2>8. <<id, u>> \in DOMAIN db
      BY <2>5, <2>6, <2>7 DEF Steady, FlowInv, WrittenFirst
    <2> HIDE DEF u
    <2>9. <<id, u>>[1] \in DOMAIN calcData
      OBVIOUS
    <2> QED
      BY <2>4, <2>6, <2>8, <2>9, RowsKept
  <1> SUFFICES ASSUME NEW t \in Waiting' PROVE Ready(t)
    BY DEF OperandsReady
  <1> HIDE DEF Ready
  <1>3. \/ t \in Waiting
        \/ \E id \in DOMAIN calcData : \E task \in DOMAIN calcData[id].computable :
              t = FormTaskRequest(id, task, calcData[id].computable[task])
    <2>1. CASE UNCHANGED <<taskPipe, open>>
      BY <2>1
    <2>2. ASSUME UNCHANGED open,
                 NEW id \in DOMAIN calcData, NEW task \in DOMAIN calcData[id].computable,
                 taskPipe' = Append(taskPipe, FormTaskRequest(id, task,
                                                calcData[id].computable[task]))
          PROVE  t \in Waiting \/ t = FormTaskRequest(id, task, calcData[id].computable[task])
      <3>1. PICK n : n = FormTaskRequest(id, task, calcData[id].computable[task])
        OBVIOUS
      <3>2. n \in GenuineTasks /\ taskPipe' = Append(taskPipe, n)
        BY <1>2, <2>2, <3>1
      <3>3. \A i \in DOMAIN taskPipe' :
                \/ taskPipe'[i] = n
                \/ i \in DOMAIN taskPipe /\ taskPipe'[i] = taskPipe[i]
        <4>1. /\ Len(taskPipe) \in Nat /\ DOMAIN taskPipe = 1..Len(taskPipe)
              /\ DOMAIN taskPipe' = 1..(Len(taskPipe) + 1)
              /\ \A i \in 1..Len(taskPipe) : taskPipe'[i] = taskPipe[i]
              /\ taskPipe'[Len(taskPipe) + 1] = n
          BY <1>0, <3>2
        <4>2. \A i \in 1..(Len(taskPipe) + 1) : i \in 1..Len(taskPipe) \/ i = Len(taskPipe) + 1
          BY <4>1
        <4> QED
          BY <4>1, <4>2
      <3> QED
        BY <2>2, <3>1, <3>3
    <2>3. CASE Accept
      <3>1. /\ taskPipe # <<>> /\ open' = open \cup {taskPipe[1]} /\ 1 \in DOMAIN taskPipe
            /\ \A i \in DOMAIN taskPipe' : i + 1 \in DOMAIN taskPipe /\ taskPipe'[i] = taskPipe[i + 1]
        BY <1>0, <2>3 DEF Accept
      <3> QED
        BY <3>1
    <2>4. CASE \E c \in open : Calculate(c)
      BY <2>4 DEF Calculate, pipeVars
    <2>5. CASE \E c \in computed : Report(c)
      BY <2>5 DEF Report
    <2>6. ~RestartManager
      BY FlowSteps DEF Going
    <2> QED
      BY <2>1, <2>2, <2>3, <2>4, <2>5, <2>6, TaskSteps
  <1> QED
    BY <1>1, <1>2, <1>3

(* The root of a problem is completed before its handler is told, and its    *)
(* row is there when the handler reads it.                                   *)
LEMMA RootStep ==
    ASSUME Steady, [Next]_vars
    PROVE  RootKnown'
  <1>0. RootKnown /\ \A r \in Requests : Moves(r) /\ IsTold(r)
    BY HandlerMoves DEF Steady, FlowInv
  <1>1. ASSUME NEW id \in DOMAIN calcData, RootCompleted(id),
               ~\E r \in Requests : ClearProblem(r) /\ id = problemId[r]
        PROVE  RootCompleted(id)'
    <2>1. /\ id \in DOMAIN calcData' /\ calcData'[id].request = calcData[id].request
          /\ Completed(id) \subseteq Completed(id)'
      BY <1>1, CompletedSteps
    <2> QED
      BY <1>1, <2>1 DEF RootCompleted, TaskVertices, Vertices
  <1>2. ASSUME dispatcher' \in {"computed", "notify"}
        PROVE  RootCompleted(reply[1])'
    <2>1. PICK id : id = reply[1]
      OBVIOUS
    <2>2. CASE dispatcher \in {"computed", "notify"} /\ reply' = reply
      <3>1. id \in DOMAIN calcData /\ RootCompleted(id)
        BY <1>0, <2>1, <2>2 DEF RootKnown, Steady, ReportsKnownProblem, MapTypes
      <3>2. m = "dispatcher"
        BY <2>2 DEF Steady, LockDiscipline
      <3>3. ASSUME NEW r \in Requests PROVE ~ClearProblem(r)
        BY <3>2, DispatcherAssumption DEF ClearProblem, Steady, LockDiscipline
      <3>4. RootCompleted(id)'
        BY <1>1, <3>1, <3>3
      <3> QED
        BY <2>1, <2>2, <3>4
    <2>3. CASE /\ UpdateComputableTasks /\ dispatcher = "update" /\ UNCHANGED reply
               /\ reply[2] = RootTask(Graph[calcData[reply[1]].request])
      <3>1. PICK task : task = reply[2]
        OBVIOUS
      <3>2. /\ id \in DOMAIN calcData
            /\ calcData'[id].request = calcData[id].request
            /\ Completed(id)' = Completed(id) \cup {task}
        BY <2>1, <2>3, <3>1, UpdateBooks
      <3>3. task \in TaskVertices(calcData[id].request)
        BY <2>1, <2>3, <3>1, ReplyIsKnown
      <3>4. RootCompleted(id)'
        BY <2>1, <2>3, <3>1, <3>2, <3>3 DEF RootCompleted, TaskVertices, Vertices
      <3> QED
        BY <2>1, <2>3, <3>4
    <2> QED
      BY <1>2, <2>2, <2>3, ReplySteps
  <1>3. ASSUME NEW r \in Requests, SetComputed, r = syncData[reply[1]]
        PROVE  /\ handler[r] \in {"wait", "asleep", "clear", "clearing"}
               /\ problemId[r] = reply[1]
               /\ dispatcher \in {"computed", "notify"}
    <2>1. reply[1] \in DOMAIN syncData /\ dispatcher = "computed"
      BY <1>3 DEF SetComputed, Steady, ReportsKnownProblem
    <2> QED
      BY <1>3, <2>1 DEF Steady, SyncDataAlive, Reliable
  <1>4. ASSUME NEW r \in Requests, handler'[r] \in {"start", "push", "pushing"}
        PROVE  ~isComputed'[r]
    <2>1. handler[r] \in {"start", "push", "pushing"}
      BY <1>0, <1>4 DEF Moves
    <2> QED
      BY <1>0, <1>3, <2>1 DEF IsTold, RootKnown
  <1>5. ASSUME NEW r \in Requests, handler'[r] \in {"clear", "clearing"}
        PROVE  isComputed'[r]
    <2>1. isComputed[r]
      BY <1>0, <1>5 DEF Moves, RootKnown
    <2> QED
      BY <1>0, <2>1 DEF IsTold
  <1>6. ASSUME NEW r \in Requests, isComputed'[r],
               handler'[r] \in {"wait", "asleep", "clear", "clearing"}
        PROVE  RootCompleted(problemId[r])'
    <2>1. handler[r] # "pushing"
      BY <1>0, <1>6 DEF Moves, RootKnown
    <2>2. handler[r] \in {"wait", "asleep", "clear", "clearing"} /\ problemId'[r] = problemId[r]
      BY <1>0, <1>6, <2>1 DEF Moves
    <2>3. PICK id : id = problemId[r]
      OBVIOUS
    <2>4. RootCompleted(id) /\ id \in DOMAIN calcData
      <3>1. id \in DOMAIN calcData
        BY <2>2, <2>3 DEF Steady, Registered, MapTypes
      <3>2. CASE isComputed[r]
        BY <1>0, <2>2, <2>3, <3>1, <3>2 DEF RootKnown
      <3>3. CASE SetComputed /\ r = syncData[reply[1]]
        BY <1>0, <1>3, <2>3, <3>1, <3>3 DEF RootKnown
      <3> QED
        BY <1>0, <1>6, <3>2, <3>3 DEF IsTold
    <2>5. ASSUME NEW q \in Requests, ClearProblem(q), id = problemId[q] PROVE FALSE
      <3>1. calcData[id].request = q
        BY <2>5, ClearBooks
      <3>2. calcData[id].request = r
        BY <2>2, <2>3 DEF Steady, Registered, MapTypes
      <3>3. handler'[r] = "read"
        BY <2>5, <3>1, <3>2 DEF ClearProblem, Goto, Steady, ThreadTypes
      <3> QED
        BY <1>6, <3>3
    <2>6. RootCompleted(id)'
      BY <1>1, <2>4, <2>5
    <2> QED
      BY <2>2, <2>3, <2>6
  <1>7. ASSUME NEW r \in Requests, handler'[r] = "read"
        PROVE  <<problemId'[r], RootTask(Graph[r])>> \in DOMAIN db'
    <2>1. problemId'[r] = problemId[r]
      BY <1>0, <1>7 DEF Moves
    <2> DEFINE row == <<problemId[r], RootTask(Graph[r])>>
    <2>2. CASE handler[r] = "read"
      <3>1. row \in DOMAIN db
        BY <1>0, <2>2 DEF RootKnown
      <3>2. ASSUME NEW q \in Requests, ClearDatabase(q) PROVE problemId[r] # problemId[q]
        <4>1. handler[q] = "clear_db"
          BY <3>2 DEF ClearDatabase
        <4>2. q \in Posed /\ r \in Posed /\ q # r
          BY <2>2, <4>1 DEF Steady, IdsUnique, Posed, PastPush
        <4> QED
          BY <4>2 DEF Steady, IdsUnique
      <3>3. row \in DOMAIN db'
        BY <3>1, <3>2, DatabaseSteps
      <3> QED
        BY <2>1, <3>3
    <2>3. CASE handler[r] = "clearing" /\ ClearProblem(r)
      <3>1. PICK id : id = problemId[r]
        OBVIOUS
      <3>2. id \in DOMAIN calcData /\ calcData[id].request = r
        BY <2>3, <3>1, ClearBooks
      <3>3. RootCompleted(id)
        BY <1>0, <2>3, <3>1 DEF RootKnown
      <3>4. row \in DOMAIN db
        BY <3>1, <3>2, <3>3 DEF RootCompleted, Steady, FlowInv, WrittenFirst
      <3>5. UNCHANGED db
        BY <2>3 DEF ClearProblem
      <3> QED
        BY <2>1, <3>4, <3>5
    <2> QED
      BY <1>0, <1>7, <2>2, <2>3 DEF Moves
  <1> QED
    BY <1>2, <1>4, <1>5, <1>6, <1>7 DEF RootKnown

(* Whatever is written is cleared by the handler of its problem.             *)
LEMMA ResidueStep ==
    ASSUME Steady, [Next]_vars
    PROVE  NoResidue'
  <1> DEFINE Pcs == {"wait", "asleep", "clear", "clearing", "read", "clear_db"}
  <1>1. ASSUME NEW row \in DOMAIN db, row \in DOMAIN db'
        PROVE  \E r \in Requests : problemId'[r] = row[1] /\ handler'[r] \in Pcs
    <2>1. PICK r \in Requests : problemId[r] = row[1] /\ handler[r] \in Pcs
      BY DEF Steady, FlowInv, NoResidue
    <2>2. Moves(r)
      BY HandlerMoves
    <2>3. ~ClearDatabase(r)
      BY <1>1, <2>1 DEF ClearDatabase, ClearIntermediateCalculations
    <2>4. problemId'[r] = problemId[r] /\ handler'[r] \in Pcs
      BY <2>1, <2>2, <2>3 DEF Moves
    <2> QED
      BY <2>1, <2>4
  <1>2. ASSUME NEW t \in open, Calculate(t), UNCHANGED managerVars
        PROVE  \E r \in Requests : problemId'[r] = t.id[1] /\ handler'[r] \in Pcs
    <2>1. PICK x : x = t.id
      OBVIOUS
    <2>2. x \in GenuineIds /\ t \in Worked(x)
      BY <2>1 DEF Steady, TasksGenuine, GenuineIds, Worked
    <2>3. Worked(x) # {}
      BY <2>2
    <2>4. x[1] \in DOMAIN calcData
      BY <2>2, <2>3, UnderWay DEF Steady, FlowInv
    <2>5. PICK r : r = syncData[x[1]]
      OBVIOUS
    <2>6. r \in Requests /\ problemId[r] = x[1] /\ handler[r] \in Pcs
      BY <2>4, <2>5 DEF Steady, SyncDataAlive, MapTypes, Reliable
    <2>7. UNCHANGED <<problemId, handler>>
      BY <1>2 DEF managerVars, handlerVars
    <2> QED
      BY <2>1, <2>6, <2>7
  <1>3. ASSUME NEW row \in DOMAIN db'
        PROVE  \E r \in Requests : problemId'[r] = row[1] /\ handler'[r] \in Pcs
    <2>1. CASE row \in DOMAIN db
      BY <1>1, <1>3, <2>1
    <2>2. CASE row \notin DOMAIN db
      <3>1. PICK t \in open : Calculate(t) /\ UNCHANGED managerVars /\ row = t.id
        BY <1>3, <2>2, DatabaseSteps
      <3> QED
        BY <1>2, <3>1
    <2> QED
      BY <2>1, <2>2
  <1> QED
    BY <1>3 DEF NoResidue

(* Nothing throws.                                                           *)
LEMMA ThrowsStep ==
    ASSUME Steady, [Next]_vars
    PROVE  NothingThrows'
  <1>1. \A row \in DOMAIN db : db[row] # Exception
    BY DEF Steady, FlowInv, NothingThrows
  <1>2. \A row \in DOMAIN db' : db'[row] # Exception
    BY <1>1, DatabaseSteps
  <1>3. ASSUME NEW r \in Requests, handler'[r] = "failed" PROVE ~Accepted(r)
    BY <1>3, HandlerMoves DEF Moves, Steady, FlowInv, NothingThrows
  <1>4. managerUp'
    BY HandlerMoves
  <1> QED
    BY <1>2, <1>3, <1>4 DEF NothingThrows, Accepted

-----------------------------------------------------------------------------
(* The inductive invariant of a reliable run.                                *)
LEMMA FlowInit == Init => FlowInv
  <1> SUFFICES ASSUME Init PROVE FlowInv
    OBVIOUS
  <1>1. FlowTypes
    BY FS_EmptySet DEF Init, PipeInit, ServiceInit, ManagerInit, FlowTypes
  <1>2. TasksGenuine
    BY DEF Init, PipeInit, ServiceInit, TasksGenuine
  <1>3. Posed = {}
    BY DEF Init, ManagerInit, Posed, PastPush
  <1>4. \A x : InFlight(x) = 0
    <2>1. \A x : x \notin GenuineIds
      BY <1>3, GenuineId
    <2> QED
      BY <1>1, <1>2, <2>1, OnlyGenuineInFlight
  <1>5. ProcessingIsInFlight
    BY <1>4 DEF Init, ManagerInit, ProcessingIsInFlight
  <1>6. StatusSound
    BY DEF Init, ManagerInit, StatusSound
  <1>7. WrittenFirst /\ OperandsReady
    BY DEF Init, ManagerInit, PipeInit, ServiceInit, WrittenFirst, OperandsReady
  <1>8. RootKnown /\ NoResidue /\ NothingThrows
    BY DEF Init, ManagerInit, DatabaseInit, RootKnown, NoResidue, NothingThrows
  <1> QED
    BY <1>1, <1>5, <1>6, <1>7, <1>8 DEF FlowInv

(* It holds in every state such a run reaches.                               *)
LEMMA FlowInvariance == Spec => [](Reliable => FlowInv /\ managerRestarts = 0)
  <1> DEFINE Inv == Reliable => FlowInv /\ managerRestarts = 0
  <1>1. Init => Inv
    BY FlowInit DEF Init
  <1>2. SyncInv /\ AnswerInv /\ Inv /\ [Next]_vars => Inv'
    <2> SUFFICES ASSUME SyncInv, AnswerInv, Inv, [Next]_vars, Reliable'
                 PROVE  FlowInv' /\ managerRestarts' = 0
      OBVIOUS
    <2>1. Reliable
      BY DEF Reliable
    <2>2. Steady
      BY <2>1, TypeParts DEF Steady, SyncInv, AnswerInv
    <2>3. managerRestarts' = 0
      BY <2>2, FlowSteps DEF Steady, vars, faultVars
    <2>4. /\ FlowTypes' /\ ProcessingIsInFlight' /\ StatusSound' /\ WrittenFirst'
          /\ OperandsReady' /\ RootKnown' /\ NoResidue' /\ NothingThrows'
      BY <2>2, FlowTypesStep, ProcessingStep, StatusStep, WrittenStep, OperandsStep, RootStep,
         ResidueStep, ThrowsStep
    <2> QED
      BY <2>3, <2>4 DEF FlowInv
  <1> HIDE DEF Inv
  <1>3. Spec => []Inv
    BY <1>1, <1>2, SyncInvariance, AnswerInvariance, PTL DEF Spec
  <1> QED
    BY <1>3 DEF Inv

(* In a reliable run, processed_tasks_to_status says "processing" of exactly *)
(* the tasks on their way, each once: for any requests, graphs and length of *)
(* the pipe, SendComputableTasks sends no task twice, no task is forgotten,  *)
(* and no .at() made for a reply throws.                                     *)
THEOREM ProcessingIsInFlightHolds == Spec => [](Reliable => ProcessingIsInFlight)
  <1>1. (Reliable => FlowInv /\ managerRestarts = 0) => (Reliable => ProcessingIsInFlight)
    BY DEF FlowInv
  <1> QED
    BY <1>1, FlowInvariance, PTL

(* In a reliable run, the results a task needs are in the database from the  *)
(* moment SendComputableTasks sends it until a worker calculates it.         *)
THEOREM OperandsReadyHolds == Spec => [](Reliable => OperandsReady)
  <1>1. (Reliable => FlowInv /\ managerRestarts = 0) => (Reliable => OperandsReady)
    BY DEF FlowInv
  <1> QED
    BY <1>1, FlowInvariance, PTL

(* In a reliable run, every row of the database belongs to a problem whose   *)
(* handler has still to call ClearIntermediateCalculations.                  *)
THEOREM NoResidueHolds == Spec => [](Reliable => NoResidue)
  <1>1. (Reliable => FlowInv /\ managerRestarts = 0) => (Reliable => NoResidue)
    BY DEF FlowInv
  <1> QED
    BY <1>1, FlowInvariance, PTL

(* In a reliable run, no request ends the process: neither the lookups of    *)
(* UpdateComputableTasks nor the SyncData of NotifyComputedProblem fail.     *)
THEOREM ManagerSurvivesHolds == Spec => [](Reliable => ManagerSurvives)
  <1>1. (Reliable => FlowInv /\ managerRestarts = 0) => (Reliable => ManagerSurvives)
    BY DEF FlowInv, NothingThrows, ManagerSurvives
  <1> QED
    BY <1>1, FlowInvariance, PTL

-----------------------------------------------------------------------------
(* A step answers one request with the value of its expression, or none.     *)
LEMMA AnswerStep ==
    ASSUME Steady, ResultsCorrect, [Next]_vars
    PROVE  [Calculation!Next]_<<Answered, Answer>>
  <1>0. /\ handler \in [Requests -> HandlerPcs] /\ DOMAIN result = Requests
        /\ \A r \in Requests : handler[r] = "failed" => ~Accepted(r)
        /\ IdsUnique /\ \A r \in Requests : Moves(r)
    BY HandlerMoves DEF Steady, ThreadTypes, FlowInv, NothingThrows
  <1>1. ASSUME Answered' = Answered, \A r \in Requests : handler[r] = "done" => result'[r] = result[r]
        PROVE  UNCHANGED <<Answered, Answer>>
    <2>1. ASSUME NEW r \in Requests PROVE handler'[r] = "done" <=> handler[r] = "done"
      BY <1>0, <1>1 DEF Answered, Moves
    <2>2. Answer' = Answer
      BY <1>1, <2>1 DEF Answer
    <2> QED
      BY <1>1, <2>2
  <1>2. ASSUME NEW r \in Requests, UNCHANGED result,
               handler[r] \notin {"done", "failed"}, handler'[r] \in {"done", "failed"},
               handler' = [handler EXCEPT ![r] = handler'[r]],
               handler'[r] = "done" => result[r] = Value[r],
               handler'[r] = "failed" => Value[r] = Exception
        PROVE  Calculation!Next
    <2>1. r \notin Answered /\ Answered' = Answered \cup {r}
      BY <1>0, <1>2 DEF Answered
    <2>2. Answer' = [Answer EXCEPT ![r] = Value[r]]
      BY <1>0, <1>2 DEF Answer
    <2>3. Calculation!Answer(r)
      BY <2>1, <2>2 DEF Calculation!Answer
    <2> QED
      BY <2>3 DEF Calculation!Next
  <1>3. ASSUME NEW r \in Requests, Decompose(r)
        PROVE  [Calculation!Next]_<<Answered, Answer>>
    <2>1. CASE handler'[r] = "failed"
      <3>1. ~Accepted(r) /\ Value[r] = Exception
        BY <1>0, <1>3, <2>1 DEF Decompose, Accepted, Goto, Value, ValueOf
      <3>2. /\ handler[r] = "start" /\ handler' = [handler EXCEPT ![r] = handler'[r]]
            /\ UNCHANGED result
        BY <1>0, <1>3, <2>1 DEF Decompose, Goto
      <3> QED
        BY <1>2, <2>1, <3>1, <3>2
    <2>2. CASE handler'[r] # "failed"
      <3>1. Answered' = Answered /\ UNCHANGED result
        BY <1>0, <1>3, <2>2 DEF Decompose, Goto, Answered
      <3> QED
        BY <1>1, <3>1
    <2> QED
      BY <2>1, <2>2
  <1>4. ASSUME NEW r \in Requests, ClearDatabase(r)
        PROVE  [Calculation!Next]_<<Answered, Answer>>
    <2>1. /\ handler[r] = "clear_db" /\ handler'[r] = "done" /\ UNCHANGED result
          /\ handler' = [handler EXCEPT ![r] = handler'[r]]
      BY <1>0, <1>4 DEF ClearDatabase, Goto
    <2>2. result[r] = Value[r]
      BY <1>0, <2>1 DEF ResultsCorrect, IdsUnique, Accepted, Value, ValueOf
    <2> QED
      BY <1>2, <2>1, <2>2
  <1>5. ASSUME ~\E r \in Requests : Decompose(r) \/ ClearDatabase(r)
        PROVE  /\ Answered' = Answered
               /\ \A r \in Requests : handler[r] = "done" => result'[r] = result[r]
    <2>1. ASSUME NEW r \in Requests,
                 \/ LockForPush(r) \/ PushProblem(r) \/ WakeSpuriously(r)
                 \/ LockForClear(r) \/ ClearProblem(r)
          PROVE  Answered' = Answered /\ UNCHANGED result
      BY <1>0, <2>1
         DEF LockForPush, PushProblem, WakeSpuriously, LockForClear, ClearProblem, Goto, Answered
    <2>2. ASSUME NEW r \in Requests, TestComputed(r)
          PROVE  Answered' = Answered /\ UNCHANGED result
      <3>1. Lookups(r) = {"found"}
        BY DEF Lookups, Steady, Reliable
      <3> QED
        BY <1>0, <2>2, <3>1 DEF TestComputed, Goto, Answered
    <2>3. ASSUME NEW r \in Requests, ReadResult(r)
          PROVE  /\ Answered' = Answered
                 /\ \A q \in Requests : handler[q] = "done" => result'[q] = result[q]
      <3>1. handler[r] = "read" /\ handler'[r] = "clear_db"
        BY <1>0, <2>3 DEF ReadResult, Moves, Goto
      <3>2. handler' = [handler EXCEPT ![r] = "clear_db"]
        BY <1>0, <2>3, <3>1 DEF ReadResult, Goto
      <3>3. \A q \in Requests : q # r => result'[q] = result[q]
        BY <1>0, <2>3 DEF ReadResult
      <3> QED
        BY <1>0, <3>1, <3>2, <3>3 DEF Answered
    <2>4. CASE UpdateComputableTasks
      BY <2>4, UpdateControl DEF handlerVars, Answered
    <2>5. CASE SetComputed
      BY <2>5, SetControl DEF Answered
    <2>6. CASE NotifyAll
      BY <1>0, <2>6 DEF NotifyAll, Answered
    <2>7. ASSUME \/ LockForSend \/ AllSent \/ ReadReply \/ UNCHANGED managerVars
                 \/ \E id \in ProblemsToSend : \E task \in DOMAIN calcData[id].computable :
                      SendTask(id, task)
          PROVE  Answered' = Answered /\ UNCHANGED result
      BY <2>7 DEF LockForSend, AllSent, ReadReply, SendTask, handlerVars, managerVars, Answered
    <2>8. ~RestartManager
      BY FlowSteps DEF Going
    <2> QED
      BY <1>5, <2>1, <2>2, <2>3, <2>4, <2>5, <2>6, <2>7, <2>8, ManagerSteps
  <1> QED
    BY <1>1, <1>3, <1>4, <1>5

(* The safety part of ImplementsCalculator: in a reliable run, a request is  *)
(* answered once, with the value of its expression, or refused when it       *)
(* cannot be decomposed, and the answers of others never change.             *)
THEOREM ImplementsCalculatorSafely ==
    Spec => (Reliable => Calculation!Init /\ [][Calculation!Next]_<<Answered, Answer>>)
  <1>1. Init => Calculation!Init
    BY DEF Init, ManagerInit, Answered, Answer, Calculation!Init
  <1>2. Reliable /\ [Next]_vars => Reliable'
    BY DEF Reliable
  <1>3. (/\ SyncInv /\ AnswerInv /\ Reliable
         /\ Reliable => FlowInv /\ managerRestarts = 0
         /\ [Next]_vars)
        => [Calculation!Next]_<<Answered, Answer>>
    <2> SUFFICES ASSUME SyncInv, AnswerInv, Reliable, FlowInv, managerRestarts = 0, [Next]_vars
                 PROVE  [Calculation!Next]_<<Answered, Answer>>
      OBVIOUS
    <2>1. Steady /\ ResultsCorrect
      BY TypeParts DEF Steady, SyncInv, AnswerInv
    <2> QED
      BY <2>1, AnswerStep
  <1> QED
    BY <1>1, <1>2, <1>3, SyncInvariance, AnswerInvariance, FlowInvariance, PTL DEF Spec
=============================================================================
