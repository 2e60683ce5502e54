----------------------------- MODULE PoolProofs -----------------------------
(***************************************************************************)
(* Proofs about the broker with its workers (module Pool), for any number  *)
(* of workers, cores and tasks, any high-water marks, with or without lost *)
(* messages, failing calculations and restarted workers.                   *)
(***************************************************************************)
EXTENDS Pool, FiniteSetTheorems, TLAPS

(* Counting in a sequence: a natural number, ...                             *)
LEMMA CountInType ==
    ASSUME NEW X, NEW s \in Seq(X), NEW S
    PROVE  /\ IsFiniteSet({i \in DOMAIN s : s[i] \in S})
           /\ CountIn(s, S) \in Nat
  <1>1. {i \in DOMAIN s : s[i] \in S} \subseteq 1..Len(s)
    OBVIOUS
  <1>2. IsFiniteSet(1..Len(s))
    BY FS_Interval
  <1>3. IsFiniteSet({i \in DOMAIN s : s[i] \in S})
    BY <1>1, <1>2, FS_Subset
  <1> QED
    BY <1>3, FS_CardinalityType DEF CountIn

(* ... zero for the empty sequence, ...                                      *)
LEMMA CountInEmpty ==
    ASSUME NEW S
    PROVE  CountIn(<<>>, S) = 0
  <1>1. {i \in DOMAIN <<>> : <<>>[i] \in S} = {}
    OBVIOUS
  <1> QED
    BY <1>1, FS_EmptySet DEF CountIn

(* ... increased by an element of S that is appended, and by no other, ...   *)
LEMMA CountInAppend ==
    ASSUME NEW X, NEW s \in Seq(X), NEW S, NEW x \in X
    PROVE  CountIn(Append(s, x), S) = CountIn(s, S) + (IF x \in S THEN 1 ELSE 0)
  <1> DEFINE A == {i \in DOMAIN s : s[i] \in S}
  <1> DEFINE B == {i \in DOMAIN Append(s, x) : Append(s, x)[i] \in S}
  <1>1. IsFiniteSet(A) /\ Cardinality(A) \in Nat
    BY CountInType DEF CountIn
  <1>2. CASE x \in S
    <2>1. B = A \cup {Len(s) + 1} /\ Len(s) + 1 \notin A
      BY <1>2
    <2> QED
      BY <1>1, <1>2, <2>1, FS_AddElement DEF CountIn
  <1>3. CASE x \notin S
    <2>1. B = A
      BY <1>3
    <2>2. CountIn(s, S) = Cardinality(A) /\ CountIn(Append(s, x), S) = Cardinality(B)
      BY DEF CountIn
    <2> HIDE DEF A, B
    <2> QED
      BY <1>1, <1>3, <2>1, <2>2
  <1> QED
    BY <1>2, <1>3

(* ... decreased by an element of S that is removed from the front, ...      *)
LEMMA CountInTail ==
    ASSUME NEW X, NEW s \in Seq(X), NEW S, s # <<>>
    PROVE  CountIn(s, S) = CountIn(Tail(s), S) + (IF Head(s) \in S THEN 1 ELSE 0)
  <1> DEFINE A == {i \in DOMAIN s : s[i] \in S}
  <1> DEFINE R == {i \in A : i # 1}
  <1> DEFINE B == {i \in DOMAIN Tail(s) : Tail(s)[i] \in S}
  <1> DEFINE f == [i \in R |-> i - 1]
  <1>0. Tail(s) \in Seq(X) /\ Len(s) \in Nat /\ Len(s) # 0 /\ Len(Tail(s)) = Len(s) - 1
    OBVIOUS
  <1>1. IsFiniteSet(A) /\ Cardinality(A) \in Nat
    BY CountInType DEF CountIn
  <1>2. IsFiniteSet(R) /\ Cardinality(R) \in Nat
    BY <1>1, FS_Subset, FS_CardinalityType
  <1>3. f \in [R -> B]
    BY <1>0
  <1>4. \A i, j \in R : f[i] = f[j] => i = j
    BY <1>0
  <1>5. \A j \in B : \E i \in R : f[i] = j
    <2> SUFFICES ASSUME NEW j \in B PROVE j + 1 \in R /\ f[j + 1] = j
      OBVIOUS
    <2> QED
      BY <1>0
  <1>6. ExistsBijection(R, B)
    BY <1>3, <1>4, <1>5 DEF ExistsBijection, Bijection, Injection, Surjection, IsInjective
  <1>7. Cardinality(B) = Cardinality(R)
    BY <1>2, <1>6, FS_Bijection
  <1>8. CASE Head(s) \in S
    <2>1. A = R \cup {1} /\ 1 \notin R
      BY <1>0, <1>8
    <2> QED
      BY <1>2, <1>7, <1>8, <2>1, FS_AddElement DEF CountIn
  <1>9. CASE Head(s) \notin S
    <2>1. A = R
      BY <1>0, <1>9
    <2>2. CountIn(s, S) = Cardinality(A) /\ CountIn(Tail(s), S) = Cardinality(B)
      BY DEF CountIn
    <2> HIDE DEF A, B, R
    <2> QED
      BY <1>2, <1>7, <1>9, <2>1, <2>2
  <1> QED
    BY <1>8, <1>9

(* ... and not increased by cutting the sequence off.                        *)
LEMMA CountInPrefix ==
    ASSUME NEW X, NEW s \in Seq(X), NEW S, NEW n \in 0..Len(s)
    PROVE  CountIn(SubSeq(s, 1, n), S) <= CountIn(s, S)
  <1> DEFINE A == {i \in DOMAIN s : s[i] \in S}
  <1> DEFINE B == {i \in DOMAIN SubSeq(s, 1, n) : SubSeq(s, 1, n)[i] \in S}
  <1>1. B \in SUBSET A
    OBVIOUS
  <1>2. IsFiniteSet(A)
    BY CountInType
  <1>3. CountIn(s, S) = Cardinality(A) /\ CountIn(SubSeq(s, 1, n), S) = Cardinality(B)
    BY DEF CountIn
  <1> HIDE DEF A, B
  <1> QED
    BY <1>1, <1>2, <1>3, FS_Subset

-----------------------------------------------------------------------------
(* Reading from and writing to one of a family of queues.                    *)
LEMMA QueueTail ==
    ASSUME NEW D, NEW M, NEW f \in [D -> Seq(M)], NEW d \in D, f[d] # <<>>
    PROVE  /\ [f EXCEPT ![d] = Tail(@)] \in [D -> Seq(M)]
           /\ Head(f[d]) \in M
  OBVIOUS

(* An element appended to one queue of a function of queues.                 *)
LEMMA QueueAppend ==
    ASSUME NEW D, NEW M, NEW f \in [D -> Seq(M)], NEW d \in D, NEW x \in M
    PROVE  [f EXCEPT ![d] = Append(@, x)] \in [D -> Seq(M)]
  OBVIOUS

(* One queue of a function of queues cut to a prefix (Terminate).            *)
LEMMA QueuePrefix ==
    ASSUME NEW D, NEW M, NEW f \in [D -> Seq(M)], NEW d \in D, NEW n \in 0..Len(f[d])
    PROVE  [f EXCEPT ![d] = SubSeq(@, 1, n)] \in [D -> Seq(M)]
  OBVIOUS

(* Taking a core from the counts of the broker and giving one back.          *)
LEMMA CountBack ==
    ASSUME NEW D, NEW c \in [D -> Nat], NEW d
    PROVE  [c EXCEPT ![d] = @ + 1] \in [D -> Nat]
  <1>1. CASE d \in D
    BY <1>1
  <1>2. CASE d \notin D
    BY <1>2
  <1> QED
    BY <1>1, <1>2

(* The count of one worker when its core is taken.                           *)
LEMMA CountTaken ==
    ASSUME NEW D, NEW c \in [D -> Nat], NEW d, d \in D => c[d] # 0
    PROVE  [c EXCEPT ![d] = @ - 1] \in [D -> Nat]
  <1>1. CASE d \in D
    BY <1>1
  <1>2. CASE d \notin D
    BY <1>2
  <1> QED
    BY <1>1, <1>2

(* The count of one worker when a core is given back and taken again.        *)
LEMMA CountBackTaken ==
    ASSUME NEW D, NEW c \in [D -> Nat], NEW d
    PROVE  [[c EXCEPT ![d] = @ + 1] EXCEPT ![d] = @ - 1] = c
  <1> DEFINE up == [c EXCEPT ![d] = @ + 1]
  <1> DEFINE down == [up EXCEPT ![d] = @ - 1]
  <1>1. up \in [D -> Nat] /\ \A e \in D : up[e] = IF e = d THEN c[e] + 1 ELSE c[e]
    BY CountBack
  <1> HIDE DEF up
  <1>2. down = [e \in D |-> IF e = d THEN up[d] - 1 ELSE up[e]]
    BY <1>1
  <1>3. \A e \in D : (IF e = d THEN up[d] - 1 ELSE up[e]) = c[e]
    BY <1>1
  <1>4. down = c
    BY <1>2, <1>3
  <1> QED
    BY <1>4 DEF up

(* What publishing does to the queue of a subscriber.                        *)
LEMMA PublishType ==
    ASSUME SocketsTypeOK, NEW m \in WorkerTask, Publish(m)
    PROVE  /\ pub' \in [Workers -> Seq(WorkerTask)]
           /\ \A v \in Workers : pub'[v] = pub[v] \/ pub'[v] = Append(pub[v], m)
  BY DEF SocketsTypeOK, Publish

(* A part of the type invariant survives a step that leaves its variables.   *)
LEMMA TypeUnchanged ==
    /\ PipesTypeOK /\ UNCHANGED pipeVars => PipesTypeOK'
    /\ SocketsTypeOK /\ UNCHANGED socketVars => SocketsTypeOK'
    /\ BrokerTypeOK /\ UNCHANGED brokerVars => BrokerTypeOK'
    /\ WorkersTypeOK /\ UNCHANGED <<workerUp, workerPc, tasks, finished>> => WorkersTypeOK'
    /\ ThreadsTypeOK /\ UNCHANGED thread => ThreadsTypeOK'
    /\ EnvironmentTypeOK /\ UNCHANGED <<db, envVars>> => EnvironmentTypeOK'
  <1>1. PipesTypeOK /\ UNCHANGED pipeVars => PipesTypeOK'
    BY DEF PipesTypeOK, pipeVars
  <1>2. SocketsTypeOK /\ UNCHANGED socketVars => SocketsTypeOK'
    BY DEF SocketsTypeOK, socketVars
  <1>3. BrokerTypeOK /\ UNCHANGED brokerVars => BrokerTypeOK'
    BY DEF BrokerTypeOK, brokerVars, Registered
  <1>4. WorkersTypeOK /\ UNCHANGED <<workerUp, workerPc, tasks, finished>> => WorkersTypeOK'
    BY DEF WorkersTypeOK
  <1>5. ThreadsTypeOK /\ UNCHANGED thread => ThreadsTypeOK'
    BY DEF ThreadsTypeOK, ThreadTypeOK, Calculating, Threads
  <1>6. EnvironmentTypeOK /\ UNCHANGED <<db, envVars>> => EnvironmentTypeOK'
    BY DEF EnvironmentTypeOK, envVars
  <1> QED
    BY <1>1, <1>2, <1>3, <1>4, <1>5, <1>6

(* At most thread k of worker w changes its state.                           *)
OnlyThread(w, k) ==
    /\ DOMAIN thread' = Workers
    /\ \A v \in Workers : DOMAIN thread'[v] = Threads(v)
    /\ \A v \in Workers : \A j \in Threads(v) :
          v # w \/ j # k => thread'[v][j] = thread[v][j]

(* A step that gives one thread a well-formed new state keeps the types.     *)
LEMMA ThreadUpdate ==
    ASSUME ThreadsTypeOK, NEW w \in Workers, NEW k \in Threads(w), OnlyThread(w, k),
           thread'[w][k].pc \in {"idle", "asleep", "calculate", "write", "push"},
           thread'[w][k].pc \in {"calculate", "write", "push"} =>
               thread'[w][k].task \in WorkerTask
    PROVE  ThreadsTypeOK'
  <1>1. ASSUME NEW v \in Workers, NEW j \in Threads(v)
        PROVE  /\ thread'[v][j].pc \in {"idle", "asleep", "calculate", "write", "push"}
               /\ thread'[v][j].pc \in {"calculate", "write", "push"} =>
                    thread'[v][j].task \in WorkerTask
    <2>1. CASE v = w /\ j = k
      BY <2>1
    <2>2. CASE v # w \/ j # k
      BY <2>2 DEF OnlyThread, ThreadsTypeOK, ThreadTypeOK, Calculating
    <2> QED
      BY <2>1, <2>2
  <1> QED
    BY <1>1 DEF OnlyThread, ThreadsTypeOK, ThreadTypeOK, Calculating, Threads

(* How the steps of a worker move one of its threads.                        *)
LEMMA ThreadSteps ==
    ASSUME TypeOK, NEW w \in Workers, NEW k \in Threads(w)
    PROVE  /\ TakeTask(w, k) /\ tasks[w] # <<>> =>
                /\ OnlyThread(w, k) /\ thread[w][k].pc = "idle"
                /\ thread'[w][k].pc = "calculate" /\ thread'[w][k].task = Head(tasks[w])
           /\ TakeTask(w, k) /\ tasks[w] = <<>> =>
                /\ OnlyThread(w, k) /\ thread[w][k].pc = "idle"
                /\ thread'[w][k].pc = "asleep"
           /\ CalculateTask(w, k) /\ ~Terminate(w) =>
                /\ OnlyThread(w, k) /\ thread[w][k].pc = "calculate"
                /\ thread'[w][k].pc = "write" /\ thread'[w][k].task = thread[w][k].task
           /\ WriteResult(w, k) =>
                /\ OnlyThread(w, k) /\ thread[w][k].pc = "write"
                /\ thread'[w][k].pc = "push" /\ thread'[w][k].task = thread[w][k].task
           /\ PushFinished(w, k) =>
                /\ OnlyThread(w, k) /\ thread[w][k].pc = "push"
                /\ thread'[w][k].pc = "idle"
           /\ SpuriousWakeup(w, k) =>
                /\ OnlyThread(w, k) /\ thread[w][k].pc = "asleep"
                /\ thread'[w][k].pc = "idle"
  <1> USE DEF TypeOK, ThreadsTypeOK, ThreadTypeOK, OnlyThread, Idle, Asleep
  <1>1. ASSUME TakeTask(w, k), tasks[w] # <<>>
        PROVE  /\ OnlyThread(w, k) /\ thread[w][k].pc = "idle"
               /\ thread'[w][k].pc = "calculate" /\ thread'[w][k].task = Head(tasks[w])
    <2>1. thread' = [thread EXCEPT ![w][k] = [pc |-> "calculate", task |-> Head(tasks[w])]]
      BY <1>1 DEF TakeTask
    <2> QED
      BY <1>1, <2>1 DEF TakeTask
  <1>2. ASSUME TakeTask(w, k), tasks[w] = <<>>
        PROVE  /\ OnlyThread(w, k) /\ thread[w][k].pc = "idle"
               /\ thread'[w][k].pc = "asleep"
    BY <1>2 DEF TakeTask
  <1>3. ASSUME CalculateTask(w, k), ~Terminate(w)
        PROVE  /\ OnlyThread(w, k) /\ thread[w][k].pc = "calculate"
               /\ thread'[w][k].pc = "write" /\ thread'[w][k].task = thread[w][k].task
    <2>1. PICK result :
            thread' = [thread EXCEPT ![w][k] = [pc |-> "write",
                         task |-> thread[w][k].task, result |-> result]]
      BY <1>3 DEF CalculateTask
    <2> QED
      BY <1>3, <2>1 DEF CalculateTask
  <1>4. ASSUME WriteResult(w, k)
        PROVE  /\ OnlyThread(w, k) /\ thread[w][k].pc = "write"
               /\ thread'[w][k].pc = "push" /\ thread'[w][k].task = thread[w][k].task
    BY <1>4 DEF WriteResult
  <1>5. ASSUME PushFinished(w, k)
        PROVE  /\ OnlyThread(w, k) /\ thread[w][k].pc = "push"
               /\ thread'[w][k].pc = "idle"
    BY <1>5 DEF PushFinished
  <1>6. ASSUME SpuriousWakeup(w, k)
        PROVE  /\ OnlyThread(w, k) /\ thread[w][k].pc = "asleep"
               /\ thread'[w][k].pc = "idle"
    BY <1>6 DEF SpuriousWakeup
  <1> QED
    BY <1>1, <1>2, <1>3, <1>4, <1>5, <1>6

(* A notification leaves the calculating threads alone.                      *)
LEMMA NotifyThreads ==
    ASSUME TypeOK, NEW w \in Workers, NotifyOne(w)
    PROVE  UNCHANGED thread \/
           \E k \in Threads(w) :
              /\ OnlyThread(w, k) /\ thread[w][k].pc = "asleep"
              /\ thread'[w][k].pc = "idle"
  <1>1. CASE Sleeping(w) = {}
    BY <1>1 DEF NotifyOne
  <1>2. CASE Sleeping(w) # {}
    <2>1. PICK k \in Sleeping(w) : thread' = [thread EXCEPT ![w][k] = Idle]
      BY <1>2 DEF NotifyOne
    <2>2. k \in Threads(w) /\ thread[w][k].pc = "asleep"
      BY <2>1 DEF Sleeping, Asleep
    <2>3. OnlyThread(w, k) /\ thread'[w][k].pc = "idle"
      BY <2>1, <2>2 DEF TypeOK, ThreadsTypeOK, ThreadTypeOK, OnlyThread, Idle
    <2> QED
      BY <2>2, <2>3
  <1> QED
    BY <1>1, <1>2

(* A thread that sleeps or wakes up was and is not calculating.              *)
LEMMA RestingThread ==
    ASSUME NEW w \in Workers, NEW k \in Threads(w), OnlyThread(w, k),
           thread[w][k].pc \in {"idle", "asleep"}, thread'[w][k].pc \in {"idle", "asleep"}
    PROVE  /\ Calculating(w)' = Calculating(w)
           /\ \A j \in Calculating(w) : thread'[w][j] = thread[w][j]
  BY DEF OnlyThread, Calculating, Threads

(* The end of a worker process keeps the types.                              *)
LEMMA TerminateType ==
    ASSUME TypeOK, NEW w \in Workers, Terminate(w)
    PROVE  SocketsTypeOK' /\ WorkersTypeOK' /\ ThreadsTypeOK'
  <1>1. SocketsTypeOK'
    BY QueuePrefix DEF TypeOK, SocketsTypeOK, Terminate
  <1>2. WorkersTypeOK'
    BY DEF TypeOK, WorkersTypeOK, Terminate
  <1>3. ThreadsTypeOK'
    BY DEF TypeOK, ThreadsTypeOK, ThreadTypeOK, Calculating, Threads, Terminate, Idle
  <1> QED
    BY <1>1, <1>2, <1>3

(* Every step keeps the types.  No other invariant is needed: the broker     *)
(* takes a core only of a worker that has one, or that just got one back.    *)
LEMMA TypeStep ==
    ASSUME TypeOK, Next
    PROVE  TypeOK'
  <1> USE DEF TypeOK
  <1>1. CASE BrokerPoll /\ UNCHANGED <<workerVars, db, envVars>>
    <2>1. BrokerTypeOK'
      BY <1>1 DEF BrokerPoll, BrokerTypeOK, PollReady, Registered
    <2> QED
      BY <1>1, <2>1, TypeUnchanged DEF BrokerPoll, workerVars
  <1>2. ASSUME NEW w \in Workers, ReceiveWorkerMessage(w),
               UNCHANGED <<workerVars, db, envVars>>
        PROVE  TypeOK'
    <2> DEFINE message == Head(dealer[w])
    <2>1. message \in WorkerMessage /\ dealer' \in [Workers -> Seq(WorkerMessage)]
      BY <1>2, QueueTail DEF ReceiveWorkerMessage, SocketsTypeOK
    <2>2. CASE message.data = "core_count"
      <3>1. message.core_count \in Nat
        BY <2>1, <2>2 DEF WorkerMessage, CoreCountMessage, TaskIdMessage
      <3>2. SocketsTypeOK'
        BY <1>2, <2>1, <2>2 DEF ReceiveWorkerMessage, RegisterWorker, SocketsTypeOK
      <3>3. BrokerTypeOK'
        BY <1>2, <2>2, <3>1 DEF ReceiveWorkerMessage, RegisterWorker, BrokerTypeOK, Registered
      <3> QED
        BY <1>2, <3>2, <3>3, TypeUnchanged DEF ReceiveWorkerMessage, workerVars
    <2>3. CASE message.data # "core_count"
      <3>1. message.task_id \in WorkerTaskId
        BY <2>1, <2>3 DEF WorkerMessage, CoreCountMessage, TaskIdMessage
      <3>2. message.task_id.identity \in Workers /\ message.task_id.id \in TaskId
        BY <3>1 DEF WorkerTaskId
      <3>3. ProcessWorkerTaskReply(message.task_id)
        BY <1>2, <2>3 DEF ReceiveWorkerMessage
      <3>4. CASE taskQueue = <<>>
        <4>1. availableCoreCount' \in [Registered -> Nat]
          BY <3>3, <3>4, CountBack DEF ProcessWorkerTaskReply, BrokerTypeOK
        <4>2. SocketsTypeOK'
          BY <1>2, <2>1, <3>3, <3>4
          DEF ReceiveWorkerMessage, ProcessWorkerTaskReply, SocketsTypeOK
        <4>3. BrokerTypeOK'
          BY <1>2, <3>2, <3>3, <3>4, <4>1
          DEF ReceiveWorkerMessage, ProcessWorkerTaskReply, BrokerTypeOK, Registered
        <4> QED
          BY <1>2, <4>2, <4>3, TypeUnchanged DEF ReceiveWorkerMessage, workerVars
      <3>5. CASE taskQueue # <<>>
        <4> DEFINE task == taskQueue[Len(taskQueue)]
        <4> DEFINE m == [identity |-> message.task_id.identity, task |-> task]
        <4>1. task \in Tasks /\ Tail(taskQueue) \in Seq(Tasks)
          BY <3>5 DEF BrokerTypeOK
        <4>2. m \in WorkerTask
          BY <3>2, <4>1 DEF WorkerTask
        <4>3. Publish(m) /\ taskQueue' = Tail(taskQueue)
          BY <3>3, <3>5
          DEF ProcessWorkerTaskReply, SendTaskToWorkerFromQueue, SendTaskToWorkerImpl
        <4>4. pub' \in [Workers -> Seq(WorkerTask)]
          BY <4>2, <4>3, PublishType
        <4>5. availableCoreCount' = availableCoreCount
          BY <3>3, <3>5, CountBackTaken
          DEF ProcessWorkerTaskReply, SendTaskToWorkerFromQueue, SendTaskToWorkerImpl, BrokerTypeOK
        <4>6. SocketsTypeOK'
          BY <1>2, <2>1, <4>4 DEF ReceiveWorkerMessage, SocketsTypeOK
        <4>7. BrokerTypeOK'
          BY <1>2, <3>2, <3>3, <4>1, <4>3, <4>5
          DEF ReceiveWorkerMessage, ProcessWorkerTaskReply, BrokerTypeOK, Registered
        <4> QED
          BY <1>2, <4>6, <4>7, TypeUnchanged DEF ReceiveWorkerMessage, workerVars
      <3> QED
        BY <3>4, <3>5
    <2> QED
      BY <2>2, <2>3
  <1>3. CASE SendResultToManager /\ UNCHANGED <<workerVars, db, envVars>>
    <2>1. BrokerTypeOK'
      BY <1>3 DEF SendResultToManager, BrokerTypeOK, Registered
    <2>2. PipesTypeOK'
      BY <1>3 DEF SendResultToManager, SendOnReplyPipe, PipesTypeOK, BrokerTypeOK
    <2> QED
      BY <1>3, <2>1, <2>2, TypeUnchanged DEF SendResultToManager, workerVars
  <1>4. CASE ReceiveManagerRequest /\ UNCHANGED <<workerVars, db, envVars>>
    <2> DEFINE task == Head(taskPipe)
    <2>1. task \in Tasks /\ PipesTypeOK'
      BY <1>4 DEF ReceiveManagerRequest, PipesTypeOK
    <2>2. CASE taskQueue' = Append(taskQueue, task) /\ UNCHANGED <<availableCoreCount, pub>>
      <3>1. BrokerTypeOK'
        BY <1>4, <2>1, <2>2 DEF ReceiveManagerRequest, BrokerTypeOK, Registered
      <3> QED
        BY <1>4, <2>1, <2>2, <3>1, TypeUnchanged DEF ReceiveManagerRequest, socketVars, workerVars
    <2>3. ASSUME NEW w \in Registered, availableCoreCount[w] # 0,
                 SendTaskToWorkerImpl(w, task, availableCoreCount), UNCHANGED taskQueue
          PROVE  TypeOK'
      <3>1. [identity |-> w, task |-> task] \in WorkerTask
        BY <2>1, <2>3 DEF BrokerTypeOK, WorkerTask
      <3>2. pub' \in [Workers -> Seq(WorkerTask)]
        BY <2>3, <3>1, PublishType DEF SendTaskToWorkerImpl
      <3>3. availableCoreCount' \in [Registered -> Nat]
        BY <2>3, CountTaken DEF SendTaskToWorkerImpl, BrokerTypeOK
      <3>4. SocketsTypeOK'
        BY <1>4, <3>2 DEF ReceiveManagerRequest, SocketsTypeOK
      <3>5. BrokerTypeOK'
        BY <1>4, <2>3, <3>3 DEF ReceiveManagerRequest, BrokerTypeOK, Registered
      <3> QED
        BY <1>4, <2>1, <3>4, <3>5, TypeUnchanged DEF ReceiveManagerRequest, workerVars
    <2> QED
      BY <1>4, <2>2, <2>3 DEF ReceiveManagerRequest, SendTaskToWorker
  <1>5. ASSUME NEW w \in Workers, WorkerNext(w), UNCHANGED <<pipeVars, brokerVars, envVars>>
        PROVE  TypeOK'
    <2>1. CASE Subscribe(w)
      <3>1. SocketsTypeOK'
        BY <2>1 DEF Subscribe, SocketsTypeOK
      <3> QED
        BY <1>5, <2>1, <3>1, TypeUnchanged DEF Subscribe, workerVars
    <2>2. CASE SendAckMessage(w)
      <3>0. [data |-> "core_count", core_count |-> CoreCount[w] - 1] \in WorkerMessage
        BY WorkerSocketsAssumption DEF WorkerMessage, CoreCountMessage
      <3>1. SocketsTypeOK'
        BY <2>2, <3>0, QueueAppend DEF SendAckMessage, SocketsTypeOK
      <3>2. WorkersTypeOK'
        BY <2>2 DEF SendAckMessage, WorkersTypeOK
      <3> QED
        BY <1>5, <2>2, <3>1, <3>2, TypeUnchanged DEF SendAckMessage
    <2>3. CASE ReadRequest(w)
      <3>1. SocketsTypeOK'
        BY <2>3, QueueTail DEF ReadRequest, SocketsTypeOK
      <3>2. WorkersTypeOK'
        <4>1. Head(pub[w]) \in WorkerTask
          BY <2>3, QueueTail DEF ReadRequest, SocketsTypeOK
        <4>2. tasks' \in [Workers -> Seq(WorkerTask)]
          <5>1. CASE Head(pub[w]).identity = w
            <6>1. tasks' = [tasks EXCEPT ![w] = Append(@, Head(pub[w]))]
              BY <2>3, <5>1 DEF ReadRequest
            <6> QED
              BY <4>1, <6>1, QueueAppend DEF WorkersTypeOK
          <5>2. CASE Head(pub[w]).identity # w
            BY <2>3, <5>2 DEF ReadRequest, WorkersTypeOK
          <5> QED
            BY <5>1, <5>2
        <4> QED
          BY <2>3, <4>2 DEF ReadRequest, WorkersTypeOK
      <3> QED
        BY <1>5, <2>3, <3>1, <3>2, TypeUnchanged DEF ReadRequest
    <2>4. CASE NothingToRead(w)
      <3>1. WorkersTypeOK'
        BY <2>4 DEF NothingToRead, WorkersTypeOK
      <3> QED
        BY <1>5, <2>4, <3>1, TypeUnchanged DEF NothingToRead
    <2>5. CASE NotifyOne(w)
      <3>1. WorkersTypeOK'
        BY <2>5 DEF NotifyOne, WorkersTypeOK
      <3>2. ThreadsTypeOK'
        BY <2>5, NotifyThreads, ThreadUpdate, TypeUnchanged
      <3> QED
        BY <1>5, <2>5, <3>1, <3>2, TypeUnchanged DEF NotifyOne
    <2>6. CASE CheckOutputQueue(w)
      <3>0. finished[w] # <<>> =>
              [data |-> "task_id", task_id |-> Head(finished[w])] \in WorkerMessage
        BY QueueTail DEF WorkersTypeOK, WorkerMessage, TaskIdMessage
      <3>1. SocketsTypeOK'
        <4>1. CASE finished[w] = <<>>
          BY <2>6, <4>1 DEF CheckOutputQueue, SocketsTypeOK
        <4>2. CASE finished[w] # <<>>
          <5>1. dealer' = [dealer EXCEPT ![w] =
                             Append(@, [data |-> "task_id", task_id |-> Head(finished[w])])]
            BY <2>6, <4>2 DEF CheckOutputQueue
          <5>2. dealer' \in [Workers -> Seq(WorkerMessage)]
            BY <3>0, <4>2, <5>1, QueueAppend DEF SocketsTypeOK
          <5> QED
            BY <2>6, <5>2 DEF CheckOutputQueue, SocketsTypeOK
        <4> QED
          BY <4>1, <4>2
      <3>2. WorkersTypeOK'
        <4>1. finished' \in [Workers -> Seq(WorkerTaskId)]
          <5>1. CASE finished[w] = <<>>
            BY <2>6, <5>1 DEF CheckOutputQueue, WorkersTypeOK
          <5>2. CASE finished[w] # <<>>
            <6>1. finished' = [finished EXCEPT ![w] = Tail(@)]
              BY <2>6, <5>2 DEF CheckOutputQueue
            <6> QED
              BY <5>2, <6>1, QueueTail DEF WorkersTypeOK
          <5> QED
            BY <5>1, <5>2
        <4> QED
          BY <2>6, <4>1 DEF CheckOutputQueue, WorkersTypeOK
      <3> QED
        BY <1>5, <2>6, <3>1, <3>2, TypeUnchanged DEF CheckOutputQueue
    <2>7. ASSUME NEW k \in Threads(w), TakeTask(w, k)
          PROVE  TypeOK'
      <3>1. WorkersTypeOK'
        <4>1. tasks' \in [Workers -> Seq(WorkerTask)]
          <5>1. CASE tasks[w] = <<>>
            BY <2>7, <5>1 DEF TakeTask, WorkersTypeOK
          <5>2. CASE tasks[w] # <<>>
            <6>1. tasks' = [tasks EXCEPT ![w] = Tail(@)]
              BY <2>7, <5>2 DEF TakeTask
            <6> QED
              BY <5>2, <6>1, QueueTail DEF WorkersTypeOK
          <5> QED
            BY <5>1, <5>2
        <4> QED
          BY <2>7, <4>1 DEF TakeTask, WorkersTypeOK
      <3>2. ThreadsTypeOK'
        <4>1. CASE tasks[w] # <<>>
          <5>1. Head(tasks[w]) \in WorkerTask
            BY <4>1, QueueTail DEF WorkersTypeOK
          <5> QED
            BY <2>7, <4>1, <5>1, ThreadSteps, ThreadUpdate
        <4>2. CASE tasks[w] = <<>>
          BY <2>7, <4>2, ThreadSteps, ThreadUpdate
        <4> QED
          BY <4>1, <4>2
      <3> QED
        BY <1>5, <2>7, <3>1, <3>2, TypeUnchanged DEF TakeTask
    <2>8. ASSUME NEW k \in Threads(w), CalculateTask(w, k)
          PROVE  TypeOK'
      <3>1. CASE Terminate(w)
        BY <1>5, <2>8, <3>1, TerminateType, TypeUnchanged DEF CalculateTask
      <3>2. CASE ~Terminate(w)
        <4>1. ThreadsTypeOK'
          <5>1. thread[w][k].task \in WorkerTask
            BY <2>8 DEF CalculateTask, ThreadsTypeOK, ThreadTypeOK, Calculating
          <5> QED
            BY <2>8, <3>2, <5>1, ThreadSteps, ThreadUpdate
        <4> QED
          BY <1>5, <2>8, <3>2, <4>1, TypeUnchanged DEF CalculateTask
      <3> QED
        BY <3>1, <3>2
    <2>9. ASSUME NEW k \in Threads(w), WriteResult(w, k)
          PROVE  TypeOK'
      <3>1. ThreadsTypeOK'
        <4>1. thread[w][k].task \in WorkerTask
          BY <2>9 DEF WriteResult, ThreadsTypeOK, ThreadTypeOK, Calculating
        <4> QED
          BY <2>9, <4>1, ThreadSteps, ThreadUpdate
      <3>2. thread[w][k].task.task.id \in TaskId
        BY <2>9 DEF WriteResult, ThreadsTypeOK, ThreadTypeOK, Calculating, TaskId, WorkerTask
      <3>3. EnvironmentTypeOK'
        BY <1>5, <2>9, <3>2 DEF WriteResult, WriteDynamicData, EnvironmentTypeOK, envVars
      <3> QED
        BY <1>5, <2>9, <3>1, <3>3, TypeUnchanged DEF WriteResult
    <2>10. ASSUME NEW k \in Threads(w), PushFinished(w, k)
           PROVE  TypeOK'
      <3>1. ThreadsTypeOK'
        BY <2>10, ThreadSteps, ThreadUpdate
      <3>2. thread[w][k].task \in WorkerTask
        BY <2>10 DEF PushFinished, ThreadsTypeOK, ThreadTypeOK, Calculating
      <3>4. [identity |-> thread[w][k].task.identity, id |-> thread[w][k].task.task.id]
              \in WorkerTaskId
        BY <3>2 DEF TaskId, WorkerTask, WorkerTaskId
      <3>3. WorkersTypeOK'
        BY <2>10, <3>2, <3>4, QueueAppend DEF PushFinished, WorkersTypeOK
      <3> QED
        BY <1>5, <2>10, <3>1, <3>3, TypeUnchanged DEF PushFinished
    <2>11. ASSUME NEW k \in Threads(w), SpuriousWakeup(w, k)
           PROVE  TypeOK'
      <3>1. ThreadsTypeOK'
        BY <2>11, ThreadSteps, ThreadUpdate
      <3> QED
        BY <1>5, <2>11, <3>1, TypeUnchanged DEF SpuriousWakeup
    <2> QED
      BY <1>5, <2>1, <2>2, <2>3, <2>4, <2>5, <2>6, <2>7, <2>8, <2>9, <2>10, <2>11
      DEF WorkerNext, MainStep, ThreadStep
  <1>6. ASSUME NEW w \in Workers, StopWorker(w)
        PROVE  TypeOK'
    BY <1>6, TerminateType, TypeUnchanged DEF StopWorker
  <1>7. ASSUME NEW w \in Workers, RestartWorker(w)
        PROVE  TypeOK'
    <2>1. WorkersTypeOK'
      BY <1>7 DEF RestartWorker, WorkersTypeOK
    <2>2. EnvironmentTypeOK'
      BY <1>7, PoolAssumption DEF RestartWorker, EnvironmentTypeOK
    <2> QED
      BY <1>7, <2>1, <2>2, TypeUnchanged DEF RestartWorker
  <1>8. ASSUME NEW task \in Tasks, SendRequest(task)
        PROVE  TypeOK'
    <2>1. PipesTypeOK'
      BY <1>8 DEF SendRequest, SendOnTaskPipe, PipesTypeOK
    <2>2. EnvironmentTypeOK'
      BY <1>8 DEF SendRequest, EnvironmentTypeOK
    <2> QED
      BY <1>8, <2>1, <2>2, TypeUnchanged DEF SendRequest, workerVars
  <1>9. CASE ReadReply
    <2>1. PipesTypeOK'
      BY <1>9 DEF ReadReply, PipesTypeOK
    <2>2. EnvironmentTypeOK'
      BY <1>9 DEF ReadReply, EnvironmentTypeOK, PipesTypeOK
    <2> QED
      BY <1>9, <2>1, <2>2, TypeUnchanged DEF ReadReply, workerVars
  <1> QED
    BY <1>1, <1>2, <1>3, <1>4, <1>5, <1>6, <1>7, <1>8, <1>9
    DEF Next, BrokerStep, BrokerNext, WorkerStep

(* The initial states are of the right type.                                 *)
LEMMA InitType == Init => TypeOK
  <1>1. ASSUME Init PROVE TypeOK
    <2> USE <1>1
    <2>1. PipesTypeOK
      BY DEF Init, PipeInit, PipesTypeOK
    <2>2. SocketsTypeOK
      BY DEF Init, SocketsInit, SocketsTypeOK
    <2>3. BrokerTypeOK
      BY DEF Init, BrokerInit, BrokerTypeOK, Registered
    <2>4. WorkersTypeOK
      BY DEF Init, WorkerInit, WorkersTypeOK
    <2>5. ThreadsTypeOK
      BY DEF Init, WorkerInit, ThreadsTypeOK, ThreadTypeOK, Calculating, Threads, Idle
    <2>6. EnvironmentTypeOK
      BY PoolAssumption DEF Init, DatabaseInit, EnvironmentTypeOK
    <2> QED
      BY <2>1, <2>2, <2>3, <2>4, <2>5, <2>6 DEF TypeOK
  <1> QED
    BY <1>1

(* Every reachable state is well typed.                                      *)
THEOREM TypeCorrect == Spec => []TypeOK
  <1>1. Init => TypeOK
    BY InitType
  <1>2. TypeOK /\ [Next]_vars => TypeOK'
    <2>1. TypeOK /\ UNCHANGED vars => TypeOK'
      BY TypeUnchanged DEF TypeOK, vars, workerVars
    <2> QED
      BY <2>1, TypeStep
  <1> QED
    BY <1>1, <1>2, PTL DEF Spec

-----------------------------------------------------------------------------
(* A worker that a step does not touch keeps to its own tasks.               *)
LEMMA OwnUnchanged ==
    ASSUME NEW v \in Workers, OwnTasks(v), tasks'[v] = tasks[v],
           thread'[v] = thread[v], finished'[v] = finished[v], dealer'[v] = dealer[v]
    PROVE  OwnTasks(v)'
  BY DEF OwnTasks, Calculating, Threads, TasksOf, AnswersOf, MessagesOf

(* Every step keeps the workers to their own tasks.                          *)
LEMMA OwnStep ==
    ASSUME TypeOK, OwnTasksOnly, Next
    PROVE  OwnTasksOnly'
  <1> SUFFICES ASSUME NEW v \in Workers PROVE OwnTasks(v)'
    BY DEF OwnTasksOnly
  <1>0. OwnTasks(v)
    BY DEF OwnTasksOnly
  <1>1. CASE UNCHANGED <<workerVars, dealer>>
    BY <1>0, <1>1, OwnUnchanged DEF workerVars
  <1>2. ASSUME NEW w \in Workers, ReceiveWorkerMessage(w), UNCHANGED workerVars
        PROVE  OwnTasks(v)'
    <2>1. dealer'[v] \in Seq(MessagesOf(v))
      BY <1>0, <1>2 DEF ReceiveWorkerMessage, OwnTasks, TypeOK, SocketsTypeOK
    <2> QED
      BY <1>0, <1>2, <2>1 DEF workerVars, OwnTasks, Calculating, Threads, TasksOf, AnswersOf, MessagesOf
  <1>3. ASSUME NEW w \in Workers, Terminate(w)
        PROVE  OwnTasks(v)'
    <2>1. CASE v # w
      BY <1>0, <1>3, <2>1, OwnUnchanged
      DEF Terminate, TypeOK, SocketsTypeOK, WorkersTypeOK, ThreadsTypeOK
    <2>2. CASE v = w
      <3>1. dealer'[v] \in Seq(MessagesOf(v))
        BY <1>0, <1>3, <2>2 DEF Terminate, OwnTasks, TypeOK, SocketsTypeOK
      <3>2. tasks'[v] = <<>> /\ finished'[v] = <<>> /\ Calculating(v)' = {}
        BY <1>3, <2>2
        DEF Terminate, TypeOK, WorkersTypeOK, ThreadsTypeOK, Calculating, Threads, Idle
      <3> QED
        BY <3>1, <3>2 DEF OwnTasks, TasksOf, AnswersOf, MessagesOf
    <2> QED
      BY <2>1, <2>2
  <1>4. ASSUME NEW w \in Workers, WorkerNext(w), v # w
        PROVE  OwnTasks(v)'
    <2> USE DEF TypeOK, SocketsTypeOK, WorkersTypeOK, ThreadsTypeOK
    <2>1. ASSUME NEW k \in Threads(w), ThreadStep(w, k) \/ SpuriousWakeup(w, k)
          PROVE  OwnTasks(v)'
      <3>1. CASE Terminate(w)
        BY <1>3, <3>1
      <3>2. CASE ~Terminate(w)
        BY <1>0, <1>4, <2>1, <3>2, OwnUnchanged
        DEF ThreadStep, TakeTask, CalculateTask, WriteResult, PushFinished, SpuriousWakeup,
            socketVars
      <3> QED
        BY <3>1, <3>2
    <2>2. CASE MainStep(w)
      BY <1>0, <1>4, <2>2, OwnUnchanged
      DEF MainStep, SendAckMessage, ReadRequest, NothingToRead, NotifyOne, CheckOutputQueue,
          Sleeping, socketVars
    <2>3. CASE Subscribe(w)
      BY <1>1, <2>3 DEF Subscribe, workerVars
    <2> QED
      BY <1>4, <2>1, <2>2, <2>3 DEF WorkerNext
  <1>5. CASE WorkerNext(v)
    <2> USE DEF TypeOK, SocketsTypeOK, WorkersTypeOK, ThreadsTypeOK, ThreadTypeOK
    <2>1. CASE Subscribe(v) \/ NothingToRead(v)
      BY <1>0, <2>1, OwnUnchanged DEF Subscribe, NothingToRead, workerVars, socketVars
    <2>2. CASE SendAckMessage(v)
      <3>1. [data |-> "core_count", core_count |-> CoreCount[v] - 1] \in MessagesOf(v)
        BY DEF MessagesOf
      <3>2. dealer'[v] \in Seq(MessagesOf(v))
        BY <1>0, <2>2, <3>1 DEF SendAckMessage, OwnTasks
      <3> QED
        BY <1>0, <2>2, <3>2
        DEF SendAckMessage, OwnTasks, Calculating, Threads, TasksOf, AnswersOf, MessagesOf
    <2>3. CASE ReadRequest(v)
      <3>1. CASE Head(pub[v]).identity = v
        <4>1. Head(pub[v]) \in TasksOf(v)
          <5>1. Head(pub[v]) \in WorkerTask
            BY <2>3, QueueTail DEF ReadRequest
          <5> QED
            BY <3>1, <5>1 DEF WorkerTask, TasksOf
        <4>2. tasks' = [tasks EXCEPT ![v] = Append(@, Head(pub[v]))]
          BY <2>3, <3>1 DEF ReadRequest
        <4>3. tasks'[v] \in Seq(TasksOf(v))
          BY <1>0, <4>1, <4>2 DEF OwnTasks
        <4> QED
          BY <1>0, <2>3, <4>3
          DEF ReadRequest, OwnTasks, Calculating, Threads, TasksOf, AnswersOf, MessagesOf
      <3>2. CASE Head(pub[v]).identity # v
        BY <1>0, <2>3, <3>2, OwnUnchanged DEF ReadRequest
      <3> QED
        BY <3>1, <3>2
    <2>4. CASE NotifyOne(v)
      <3>1. Calculating(v)' = Calculating(v) /\
            \A k \in Calculating(v) : thread'[v][k] = thread[v][k]
        BY <2>4, NotifyThreads, RestingThread DEF Calculating, Threads
      <3> QED
        BY <1>0, <2>4, <3>1 DEF NotifyOne, socketVars, OwnTasks, TasksOf, AnswersOf, MessagesOf
    <2>5. CASE CheckOutputQueue(v)
      <3>1. CASE finished[v] = <<>>
        BY <1>0, <2>5, <3>1, OwnUnchanged DEF CheckOutputQueue
      <3>2. CASE finished[v] # <<>>
        <4> DEFINE message == [data |-> "task_id", task_id |-> Head(finished[v])]
        <4>1. Head(finished[v]) \in AnswersOf(v) /\ Tail(finished[v]) \in Seq(AnswersOf(v))
          BY <1>0, <3>2 DEF OwnTasks
        <4>2. message \in MessagesOf(v)
          BY <4>1 DEF MessagesOf
        <4>3. dealer'[v] = Append(dealer[v], message) /\ finished'[v] = Tail(finished[v])
          BY <2>5, <3>2 DEF CheckOutputQueue
        <4> HIDE DEF message
        <4>4. dealer'[v] \in Seq(MessagesOf(v))
          BY <1>0, <4>2, <4>3 DEF OwnTasks
        <4> QED
          BY <1>0, <2>5, <4>1, <4>3, <4>4
          DEF CheckOutputQueue, OwnTasks, Calculating, Threads, TasksOf, AnswersOf, MessagesOf
      <3> QED
        BY <3>1, <3>2
    <2>6. ASSUME NEW k \in Threads(v), TakeTask(v, k)
          PROVE  OwnTasks(v)'
      <3>1. CASE tasks[v] # <<>>
        <4>1. Head(tasks[v]) \in TasksOf(v) /\ Tail(tasks[v]) \in Seq(TasksOf(v))
          BY <1>0, <3>1 DEF OwnTasks
        <4>2. thread'[v][k].task = Head(tasks[v]) /\ OnlyThread(v, k)
          BY <2>6, <3>1, ThreadSteps
        <4>3. tasks'[v] = Tail(tasks[v])
          BY <2>6, <3>1 DEF TakeTask
        <4>4. \A j \in Calculating(v)' : thread'[v][j].task \in TasksOf(v)
          BY <1>0, <2>6, <4>1, <4>2 DEF OwnTasks, OnlyThread, Calculating, Threads
        <4> QED
          BY <1>0, <2>6, <4>1, <4>3, <4>4
          DEF TakeTask, socketVars, OwnTasks, TasksOf, AnswersOf, MessagesOf
      <3>2. CASE tasks[v] = <<>>
        <4>1. Calculating(v)' = Calculating(v) /\
              \A j \in Calculating(v) : thread'[v][j] = thread[v][j]
          BY <2>6, <3>2, ThreadSteps, RestingThread
        <4> QED
          BY <1>0, <2>6, <3>2, <4>1
          DEF TakeTask, socketVars, OwnTasks, TasksOf, AnswersOf, MessagesOf
      <3> QED
        BY <3>1, <3>2
    <2>7. ASSUME NEW k \in Threads(v), CalculateTask(v, k)
          PROVE  OwnTasks(v)'
      <3>1. CASE Terminate(v)
        BY <1>3, <3>1
      <3>2. CASE ~Terminate(v)
        <4>1. k \in Calculating(v) /\ thread'[v][k].task = thread[v][k].task /\ OnlyThread(v, k)
          BY <2>7, <3>2, ThreadSteps DEF Calculating
        <4>2. \A j \in Calculating(v)' : thread'[v][j].task \in TasksOf(v)
          BY <1>0, <2>7, <4>1 DEF OwnTasks, OnlyThread, Calculating, Threads
        <4> QED
          BY <1>0, <2>7, <3>2, <4>2
          DEF CalculateTask, socketVars, OwnTasks, TasksOf, AnswersOf, MessagesOf
      <3> QED
        BY <3>1, <3>2
    <2>8. ASSUME NEW k \in Threads(v), WriteResult(v, k)
          PROVE  OwnTasks(v)'
      <3>1. k \in Calculating(v) /\ thread'[v][k].task = thread[v][k].task /\ OnlyThread(v, k)
        BY <2>8, ThreadSteps DEF Calculating
      <3>2. \A j \in Calculating(v)' : thread'[v][j].task \in TasksOf(v)
        BY <1>0, <2>8, <3>1 DEF OwnTasks, OnlyThread, Calculating, Threads
      <3> QED
        BY <1>0, <2>8, <3>2
        DEF WriteResult, socketVars, OwnTasks, TasksOf, AnswersOf, MessagesOf
    <2>9. ASSUME NEW k \in Threads(v), PushFinished(v, k)
          PROVE  OwnTasks(v)'
      <3> DEFINE answer == [identity |-> thread[v][k].task.identity, id |-> thread[v][k].task.task.id]
      <3>1. thread[v][k].task \in TasksOf(v)
        BY <1>0, <2>9 DEF PushFinished, OwnTasks, Calculating
      <3>2. answer \in AnswersOf(v)
        BY <3>1 DEF TasksOf, AnswersOf, TaskId
      <3>3. finished'[v] = Append(finished[v], answer) /\ thread'[v][k].pc = "idle" /\ OnlyThread(v, k)
        BY <2>9 DEF PushFinished, OnlyThread, Idle
      <3> HIDE DEF answer
      <3>4. finished'[v] \in Seq(AnswersOf(v))
        BY <1>0, <3>2, <3>3 DEF OwnTasks
      <3>5. \A j \in Calculating(v)' : thread'[v][j].task \in TasksOf(v)
        BY <1>0, <2>9, <3>3 DEF OwnTasks, OnlyThread, Calculating, Threads
      <3> QED
        BY <1>0, <2>9, <3>4, <3>5
        DEF PushFinished, socketVars, OwnTasks, TasksOf, AnswersOf, MessagesOf
    <2>10. ASSUME NEW k \in Threads(v), SpuriousWakeup(v, k)
           PROVE  OwnTasks(v)'
      <3>1. Calculating(v)' = Calculating(v) /\
            \A j \in Calculating(v) : thread'[v][j] = thread[v][j]
        BY <2>10, ThreadSteps, RestingThread
      <3> QED
        BY <1>0, <2>10, <3>1
        DEF SpuriousWakeup, socketVars, OwnTasks, TasksOf, AnswersOf, MessagesOf
    <2> QED
      BY <1>5, <2>1, <2>2, <2>3, <2>4, <2>5, <2>6, <2>7, <2>8, <2>9, <2>10
      DEF WorkerNext, MainStep, ThreadStep
  <1>6. CASE BrokerStep
    BY <1>1, <1>2, <1>6
    DEF BrokerStep, BrokerNext, BrokerPoll, SendResultToManager, ReceiveManagerRequest, socketVars
  <1>7. CASE ReadReply \/ \E task \in Tasks : SendRequest(task)
    BY <1>1, <1>7 DEF SendRequest, ReadReply, socketVars
  <1>8. ASSUME NEW w \in Workers, RestartWorker(w)
        PROVE  OwnTasks(v)'
    BY <1>0, <1>8, OwnUnchanged DEF RestartWorker, socketVars
  <1> QED
    BY <1>3, <1>4, <1>5, <1>6, <1>7, <1>8 DEF Next, WorkerStep, StopWorker

-----------------------------------------------------------------------------
(* The terms of InFlight are natural numbers.                                *)
LEMMA InFlightType ==
    ASSUME TypeOK, NEW v \in Workers
    PROVE  /\ Published(v) \in Nat
           /\ Held(v) \in Nat
           /\ Answered(v) \in Nat
           /\ InFlight(v) \in Nat
           /\ IsFiniteSet(Calculating(v)) /\ Cardinality(Calculating(v)) \in Nat
           /\ CountIn(dealer[v], TaskIdMessage) \in Nat
  <1>1. Published(v) \in Nat
    BY CountInType DEF TypeOK, SocketsTypeOK, Published
  <1>2. CountIn(dealer[v], TaskIdMessage) \in Nat
    BY CountInType DEF TypeOK, SocketsTypeOK
  <1>3. Len(tasks[v]) \in Nat /\ Len(finished[v]) \in Nat
    BY DEF TypeOK, WorkersTypeOK
  <1>4. IsFiniteSet(Threads(v))
    BY WorkerSocketsAssumption, FS_Interval DEF Threads
  <1>5. Calculating(v) \in SUBSET Threads(v)
    BY DEF Calculating
  <1>6. IsFiniteSet(Calculating(v)) /\ Cardinality(Calculating(v)) \in Nat
    BY <1>4, <1>5, FS_Subset, FS_CardinalityType
  <1>7. Held(v) \in Nat
    BY <1>3, <1>6 DEF Held
  <1>8. Answered(v) \in Nat
    BY <1>2, <1>3 DEF Answered
  <1>9. InFlight(v) \in Nat
    BY <1>1, <1>7, <1>8 DEF InFlight
  <1> QED
    BY <1>1, <1>2, <1>6, <1>7, <1>8, <1>9

TermsTypeOK ==
    \A v \in Workers : /\ Published(v) \in Nat /\ Held(v) \in Nat
                       /\ Answered(v) \in Nat /\ InFlight(v) \in Nat

(* Every term of InFlight is a natural number in a typed state.              *)
LEMMA TermsTyped == TypeOK => TermsTypeOK
  BY InFlightType DEF TermsTypeOK

(* Each term depends on its own variables only.                              *)
LEMMA TermsUnchanged ==
    ASSUME NEW v \in Workers
    PROVE  /\ pub'[v] = pub[v] => Published(v)' = Published(v)
           /\ tasks'[v] = tasks[v] /\ Calculating(v)' = Calculating(v) => Held(v)' = Held(v)
           /\ finished'[v] = finished[v] /\ dealer'[v] = dealer[v] => Answered(v)' = Answered(v)
           /\ thread'[v] = thread[v] => Calculating(v)' = Calculating(v)
  <1>1. ASSUME pub'[v] = pub[v] PROVE Published(v)' = Published(v)
    BY <1>1 DEF Published, CountIn, TasksOf
  <1>2. ASSUME tasks'[v] = tasks[v], Calculating(v)' = Calculating(v)
        PROVE  Held(v)' = Held(v)
    BY <1>2 DEF Held
  <1>3. ASSUME finished'[v] = finished[v], dealer'[v] = dealer[v]
        PROVE  Answered(v)' = Answered(v)
    <2>1. CountIn(dealer[v], TaskIdMessage)' = CountIn(dealer[v], TaskIdMessage)
      BY <1>3 DEF CountIn, TaskIdMessage, WorkerTaskId, TaskId
    <2> QED
      BY <1>3, <2>1 DEF Answered
  <1>4. ASSUME thread'[v] = thread[v] PROVE Calculating(v)' = Calculating(v)
    BY <1>4 DEF Calculating, Threads
  <1> QED
    BY <1>1, <1>2, <1>3, <1>4

(* What a worker has in flight does not change with the rest of the system.  *)
LEMMA InFlightUnchanged ==
    ASSUME NEW v \in Workers, pub'[v] = pub[v], tasks'[v] = tasks[v],
           thread'[v] = thread[v], finished'[v] = finished[v], dealer'[v] = dealer[v]
    PROVE  InFlight(v)' = InFlight(v)
  BY TermsUnchanged DEF InFlight

(* A step that takes no core and adds nothing in flight keeps the balance.   *)
LEMMA WithinFrame ==
    ASSUME TypeOK, TypeOK', NEW v \in Workers, WithinCores(v),
           InFlight(v)' <= InFlight(v), UNCHANGED availableCoreCount
    PROVE  WithinCores(v)'
  <1>1. InFlight(v) \in Nat
    BY InFlightType
  <1>2. InFlight(v)' \in Nat
    <2>1. TermsTypeOK'
      BY TermsTyped, PTL
    <2> QED
      BY <2>1 DEF TermsTypeOK
  <1>3. v \in Registered => availableCoreCount[v] \in Nat
    BY DEF TypeOK, BrokerTypeOK
  <1>4. CoreCount[v] \in Nat
    BY WorkerSocketsAssumption
  <1> QED
    BY <1>1, <1>2, <1>3, <1>4 DEF WithinCores, Registered

(* A step of worker w never adds to what w has in flight: it moves a task on *)
(* to the next place; only the end of the process drops tasks.               *)
LEMMA WorkerInFlight ==
    ASSUME TypeOK, OwnTasksOnly, TypeOK', NEW w \in Workers,
           WorkerNext(w) \/ Terminate(w)
    PROVE  /\ InFlight(w)' <= InFlight(w)
           /\ ~Terminate(w) => InFlight(w)' = InFlight(w)
  <1>1. /\ Published(w) \in Nat /\ Held(w) \in Nat /\ Answered(w) \in Nat
        /\ IsFiniteSet(Calculating(w)) /\ Cardinality(Calculating(w)) \in Nat
        /\ CountIn(dealer[w], TaskIdMessage) \in Nat
    BY InFlightType
  <1>2. /\ pub[w] \in Seq(WorkerTask) /\ dealer[w] \in Seq(WorkerMessage)
        /\ tasks[w] \in Seq(WorkerTask) /\ finished[w] \in Seq(WorkerTaskId)
    BY DEF TypeOK, SocketsTypeOK, WorkersTypeOK
  <1>3. /\ Published(w)' \in Nat /\ Held(w)' \in Nat /\ Answered(w)' \in Nat
    <2>1. TermsTypeOK'
      BY TermsTyped, PTL
    <2> QED
      BY <2>1 DEF TermsTypeOK
  <1>4. SUFFICES \/ /\ Terminate(w)
                    /\ Published(w)' <= Published(w)
                    /\ Held(w)' <= Held(w)
                    /\ Answered(w)' <= Answered(w)
                 \/ /\ Published(w)' = Published(w)
                    /\ Held(w)' = Held(w)
                    /\ Answered(w)' = Answered(w)
                 \/ /\ Published(w)' = Published(w) - 1
                    /\ Held(w)' = Held(w) + 1
                    /\ Answered(w)' = Answered(w)
                 \/ /\ Published(w)' = Published(w)
                    /\ Held(w)' = Held(w) - 1
                    /\ Answered(w)' = Answered(w) + 1
    BY <1>1, <1>3 DEF InFlight
  <1>5. CASE Subscribe(w) \/ NothingToRead(w)
    <2>1. UNCHANGED <<pub, dealer, tasks, thread, finished>>
      BY <1>5 DEF Subscribe, NothingToRead, socketVars, workerVars
    <2> QED
      BY <1>1, <2>1, TermsUnchanged
  <1>6. CASE SendAckMessage(w)
    <2> DEFINE message == [data |-> "core_count", core_count |-> CoreCount[w] - 1]
    <2>1. message \in WorkerMessage /\ message \notin TaskIdMessage
      BY WorkerSocketsAssumption DEF WorkerMessage, CoreCountMessage, TaskIdMessage
    <2>2. dealer'[w] = Append(dealer[w], message)
      BY <1>6 DEF SendAckMessage, TypeOK, SocketsTypeOK
    <2>3. UNCHANGED <<pub, tasks, thread, finished>>
      BY <1>6 DEF SendAckMessage
    <2> HIDE DEF message
    <2>4. CountIn(dealer'[w], TaskIdMessage) = CountIn(dealer[w], TaskIdMessage)
      BY <1>1, <1>2, <2>1, <2>2, CountInAppend
    <2>5. Answered(w)' = Answered(w)
      BY <2>3, <2>4 DEF Answered
    <2> QED
      BY <1>1, <2>3, <2>5, TermsUnchanged
  <1>7. CASE ReadRequest(w)
    <2>1. pub[w] # <<>> /\ pub'[w] = Tail(pub[w]) /\ UNCHANGED <<dealer, thread, finished>>
      BY <1>7 DEF ReadRequest, TypeOK, SocketsTypeOK
    <2>2. Published(w) = Published(w)' + (IF Head(pub[w]) \in TasksOf(w) THEN 1 ELSE 0)
      BY <1>2, <2>1, CountInTail DEF Published
    <2>3. Answered(w)' = Answered(w) /\ Calculating(w)' = Calculating(w)
      BY <2>1, TermsUnchanged
    <2>4. CASE Head(pub[w]).identity = w
      <3>1. Head(pub[w]) \in TasksOf(w)
        <4>1. Head(pub[w]) \in WorkerTask
          BY <1>2, <2>1
        <4> QED
          BY <2>4, <4>1 DEF WorkerTask, TasksOf
      <3>2. tasks'[w] = Append(tasks[w], Head(pub[w]))
        BY <1>7, <2>4 DEF ReadRequest, TypeOK, WorkersTypeOK
      <3>3. Len(tasks'[w]) = Len(tasks[w]) + 1 /\ Len(tasks[w]) \in Nat
        BY <1>2, <3>2
      <3>4. Held(w)' = Held(w) + 1
        BY <1>1, <2>3, <3>3 DEF Held
      <3>5. Published(w)' = Published(w) - 1
        BY <1>1, <1>3, <2>2, <3>1
      <3> QED
        BY <2>3, <3>4, <3>5
    <2>5. CASE Head(pub[w]).identity # w
      <3>1. tasks' = tasks
        BY <1>7, <2>5 DEF ReadRequest
      <3>2. Held(w)' = Held(w)
        BY <2>3, <3>1, TermsUnchanged
      <3>3. Published(w)' = Published(w)
        <4>1. Head(pub[w]) \notin TasksOf(w)
          BY <2>5 DEF TasksOf
        <4> QED
          BY <1>1, <1>3, <2>2, <4>1
      <3> QED
        BY <1>1, <2>3, <3>2, <3>3
    <2> QED
      BY <2>4, <2>5
  <1>8. CASE NotifyOne(w)
    <2>1. Calculating(w)' = Calculating(w)
      BY <1>8, NotifyThreads, RestingThread, TermsUnchanged
    <2>2. UNCHANGED <<pub, dealer, tasks, finished>>
      BY <1>8 DEF NotifyOne, socketVars
    <2> QED
      BY <1>1, <2>1, <2>2, TermsUnchanged
  <1>9. CASE CheckOutputQueue(w)
    <2>1. UNCHANGED <<pub, tasks, thread>>
      BY <1>9 DEF CheckOutputQueue
    <2>2. CASE finished[w] = <<>>
      <3>1. UNCHANGED <<finished, dealer>>
        BY <1>9, <2>2 DEF CheckOutputQueue
      <3> QED
        BY <1>1, <2>1, <3>1, TermsUnchanged
    <2>3. CASE finished[w] # <<>>
      <3> DEFINE message == [data |-> "task_id", task_id |-> Head(finished[w])]
      <3>1. message \in TaskIdMessage /\ message \in WorkerMessage
        BY <1>2, <2>3 DEF TaskIdMessage, WorkerMessage
      <3>2. dealer'[w] = Append(dealer[w], message) /\ finished'[w] = Tail(finished[w])
        BY <1>9, <2>3 DEF CheckOutputQueue, TypeOK, SocketsTypeOK, WorkersTypeOK
      <3> HIDE DEF message
      <3>3. CountIn(dealer'[w], TaskIdMessage) = CountIn(dealer[w], TaskIdMessage) + 1
        BY <1>2, <3>1, <3>2, CountInAppend
      <3>4. Len(finished'[w]) = Len(finished[w]) - 1 /\ Len(finished[w]) \in Nat
        BY <1>2, <2>3, <3>2
      <3>5. Answered(w)' = Answered(w)
        BY <1>1, <3>3, <3>4 DEF Answered
      <3> QED
        BY <1>1, <2>1, <3>5, TermsUnchanged
    <2> QED
      BY <2>2, <2>3
  <1>10. ASSUME NEW k \in Threads(w), TakeTask(w, k)
         PROVE  /\ Published(w)' = Published(w)
                /\ Held(w)' = Held(w)
                /\ Answered(w)' = Answered(w)
    <2>1. UNCHANGED <<pub, dealer, finished>>
      BY <1>10 DEF TakeTask, socketVars
    <2>2. CASE tasks[w] = <<>>
      <3>1. Calculating(w)' = Calculating(w)
        BY <1>10, <2>2, ThreadSteps, RestingThread
      <3>2. tasks' = tasks
        BY <1>10, <2>2 DEF TakeTask
      <3> QED
        BY <1>1, <2>1, <3>1, <3>2, TermsUnchanged
    <2>3. CASE tasks[w] # <<>>
      <3>1. /\ OnlyThread(w, k) /\ thread[w][k].pc = "idle"
            /\ thread'[w][k].pc = "calculate"
        BY <1>10, <2>3, ThreadSteps
      <3>2. k \notin Calculating(w) /\ Calculating(w)' = Calculating(w) \cup {k}
        BY <1>10, <3>1 DEF OnlyThread, Calculating, Threads
      <3>3. Cardinality(Calculating(w)') = Cardinality(Calculating(w)) + 1
        BY <1>1, <3>2, FS_AddElement
      <3>4. tasks'[w] = Tail(tasks[w])
        BY <1>10, <2>3 DEF TakeTask, TypeOK, WorkersTypeOK
      <3>5. Len(tasks'[w]) = Len(tasks[w]) - 1 /\ Len(tasks[w]) \in Nat
        BY <1>2, <2>3, <3>4
      <3>6. Held(w)' = Held(w)
        BY <1>1, <3>3, <3>5 DEF Held
      <3> QED
        BY <1>1, <2>1, <3>6, TermsUnchanged
    <2> QED
      BY <2>2, <2>3
  <1>11. CASE Terminate(w)
    <2>1. tasks'[w] = <<>> /\ finished'[w] = <<>> /\ pub'[w] = <<>>
      BY <1>11 DEF Terminate, TypeOK, WorkersTypeOK, SocketsTypeOK
    <2>2. Published(w)' = 0
      BY <2>1, CountInEmpty DEF Published
    <2>3. Calculating(w)' = {}
      BY <1>11 DEF Terminate, TypeOK, ThreadsTypeOK, Calculating, Threads, Idle
    <2>4. Held(w)' = 0
      BY <2>1, <2>3, FS_EmptySet DEF Held
    <2>5. PICK n \in 0..Len(dealer[w]) : dealer'[w] = SubSeq(dealer[w], 1, n)
      BY <1>11 DEF Terminate, TypeOK, SocketsTypeOK
    <2>6. CountIn(dealer'[w], TaskIdMessage) <= CountIn(dealer[w], TaskIdMessage)
      BY <1>2, <2>5, CountInPrefix
    <2>7. CountIn(dealer'[w], TaskIdMessage) \in Nat
      BY CountInType DEF TypeOK, SocketsTypeOK
    <2>8. Len(finished[w]) \in Nat /\ Len(finished'[w]) = 0
      BY <1>2, <2>1
    <2>9. Answered(w)' <= Answered(w)
      BY <1>1, <2>6, <2>7, <2>8 DEF Answered
    <2> QED
      BY <1>1, <1>11, <2>2, <2>4, <2>9
  <1>12. ASSUME NEW k \in Threads(w), CalculateTask(w, k) \/ WriteResult(w, k), ~Terminate(w)
         PROVE  /\ Published(w)' = Published(w)
                /\ Held(w)' = Held(w)
                /\ Answered(w)' = Answered(w)
    <2>1. /\ OnlyThread(w, k) /\ thread[w][k].pc \in {"calculate", "write"}
          /\ thread'[w][k].pc \in {"write", "push"}
      BY <1>12, ThreadSteps
    <2>2. Calculating(w)' = Calculating(w)
      BY <1>12, <2>1 DEF OnlyThread, Calculating, Threads
    <2>3. UNCHANGED <<pub, dealer, tasks, finished>>
      BY <1>12 DEF CalculateTask, WriteResult, socketVars
    <2> QED
      BY <1>1, <2>2, <2>3, TermsUnchanged
  <1>13. ASSUME NEW k \in Threads(w), PushFinished(w, k)
         PROVE  /\ Published(w)' = Published(w)
                /\ Held(w)' = Held(w) - 1
                /\ Answered(w)' = Answered(w) + 1
    <2>1. OnlyThread(w, k) /\ thread[w][k].pc = "push" /\ thread'[w][k].pc = "idle"
      BY <1>13, ThreadSteps
    <2>2. k \in Calculating(w) /\ Calculating(w)' = Calculating(w) \ {k}
      BY <1>13, <2>1 DEF OnlyThread, Calculating, Threads
    <2>3. Cardinality(Calculating(w)') = Cardinality(Calculating(w)) - 1
      BY <1>1, <2>2, FS_RemoveElement
    <2>4. UNCHANGED <<pub, dealer, tasks>>
      BY <1>13 DEF PushFinished, socketVars
    <2>5. Len(tasks[w]) \in Nat /\ Len(finished[w]) \in Nat
      BY <1>2
    <2>6. Len(finished'[w]) = Len(finished[w]) + 1
      BY <1>2, <1>13 DEF PushFinished, TypeOK, WorkersTypeOK
    <2>7. Held(w)' = Held(w) - 1
      BY <1>1, <2>3, <2>4, <2>5 DEF Held
    <2>8. CountIn(dealer[w], TaskIdMessage)' = CountIn(dealer[w], TaskIdMessage)
      BY <2>4 DEF CountIn, TaskIdMessage, WorkerTaskId, TaskId
    <2>9. Answered(w)' = Answered(w) + 1
      BY <1>1, <2>5, <2>6, <2>8 DEF Answered
    <2> QED
      BY <2>4, <2>7, <2>9, TermsUnchanged
  <1>14. ASSUME NEW k \in Threads(w), SpuriousWakeup(w, k)
         PROVE  /\ Published(w)' = Published(w)
                /\ Held(w)' = Held(w)
                /\ Answered(w)' = Answered(w)
    <2>1. Calculating(w)' = Calculating(w)
      BY <1>14, ThreadSteps, RestingThread
    <2>2. UNCHANGED <<pub, dealer, tasks, finished>>
      BY <1>14 DEF SpuriousWakeup, socketVars
    <2> QED
      BY <1>1, <2>1, <2>2, TermsUnchanged
  <1> QED
    BY <1>5, <1>6, <1>7, <1>8, <1>9, <1>10, <1>11, <1>12, <1>13, <1>14
    DEF WorkerNext, MainStep, ThreadStep

(* Publishing m adds at most one to what the addressee has in flight, and    *)
(* nothing to what the others have.                                          *)
LEMMA PublishInFlight ==
    ASSUME TypeOK, NEW m \in WorkerTask, Publish(m), NEW v \in Workers
    PROVE  Published(v)' <= Published(v) + (IF v = m.identity THEN 1 ELSE 0)
  <1>1. pub[v] \in Seq(WorkerTask) /\ Published(v) \in Nat
    BY InFlightType DEF TypeOK, SocketsTypeOK
  <1>2. pub'[v] = pub[v] \/ pub'[v] = Append(pub[v], m)
    BY PublishType DEF TypeOK
  <1>3. v # m.identity => m \notin TasksOf(v)
    BY DEF WorkerTask, TasksOf
  <1>4. CASE pub'[v] = pub[v]
    BY <1>1, <1>4, TermsUnchanged
  <1>5. CASE pub'[v] = Append(pub[v], m)
    <2>1. Published(v)' = Published(v) + (IF m \in TasksOf(v) THEN 1 ELSE 0)
      BY <1>1, <1>5, CountInAppend DEF Published
    <2> QED
      BY <1>1, <1>3, <2>1
  <1> QED
    BY <1>2, <1>4, <1>5

(* Every step of the broker keeps the balance: a core is given back for a    *)
(* reply that leaves the worker's queue, and taken for a task published.     *)
LEMMA BrokerWithin ==
    ASSUME TypeOK, OwnTasksOnly, NoOvercommit, TypeOK', BrokerStep, NEW v \in Workers
    PROVE  WithinCores(v)'
  <1> DEFINE P == Published(v)
  <1> DEFINE D == CountIn(dealer[v], TaskIdMessage)
  <1> DEFINE R == Held(v) + Len(finished[v])
  <1>1. /\ P \in Nat /\ D \in Nat /\ R \in Nat /\ InFlight(v) \in Nat
        /\ InFlight(v) = P + R + D
    <2>1. Len(finished[v]) \in Nat
      BY DEF TypeOK, WorkersTypeOK
    <2>2. P \in Nat /\ D \in Nat /\ Held(v) \in Nat /\ InFlight(v) \in Nat
      BY InFlightType
    <2> QED
      BY <2>1, <2>2 DEF InFlight, Answered
  <1>2. P' \in Nat /\ D' \in Nat
    BY CountInType DEF TypeOK, SocketsTypeOK, Published
  <1>3. InFlight(v)' = P' + R + D'
    <2>1. UNCHANGED <<tasks, thread, finished>>
      BY DEF BrokerStep, workerVars
    <2>2. Held(v)' = Held(v)
      BY <2>1, TermsUnchanged
    <2>3. InFlight(v)' = P' + Held(v) + (Len(finished[v]) + D')
      BY <2>1, <2>2 DEF InFlight, Answered
    <2>4. Len(finished[v]) \in Nat /\ Held(v) \in Nat
      BY InFlightType DEF TypeOK, WorkersTypeOK
    <2> QED
      BY <1>2, <2>3, <2>4
  <1>4. pub'[v] = pub[v] => P' = P
    BY TermsUnchanged
  <1>5. dealer'[v] = dealer[v] => D' = D
    BY DEF CountIn, TaskIdMessage, WorkerTaskId, TaskId
  <1>6. /\ v \in Registered => availableCoreCount[v] \in Nat
        /\ CoreCount[v] \in Nat \ {0} /\ WithinCores(v)
    BY WorkerSocketsAssumption DEF TypeOK, BrokerTypeOK, NoOvercommit
  <1> HIDE DEF R, P
  <1>7. CASE BrokerPoll \/ SendResultToManager
    <2>1. InFlight(v)' = InFlight(v) /\ UNCHANGED availableCoreCount
      BY <1>1, <1>3, <1>4, <1>5, <1>7 DEF BrokerPoll, SendResultToManager, socketVars
    <2> QED
      BY <1>1, <1>6, <2>1, WithinFrame
  <1>8. ASSUME NEW w \in Workers, ReceiveWorkerMessage(w)
        PROVE  WithinCores(v)'
    <2> DEFINE message == Head(dealer[w])
    <2>1. /\ dealer[w] # <<>> /\ dealer' = [dealer EXCEPT ![w] = Tail(@)]
          /\ dealer[w] \in Seq(WorkerMessage) /\ dealer[w] \in Seq(MessagesOf(w))
      BY <1>8 DEF ReceiveWorkerMessage, OwnTasksOnly, OwnTasks, TypeOK, SocketsTypeOK
    <2>2. message \in MessagesOf(w)
      BY <2>1
    <2>3. v # w => D' = D
      BY <1>5, <2>1
    <2>4. CountIn(dealer[w], TaskIdMessage) = CountIn(Tail(dealer[w]), TaskIdMessage)
            + (IF message \in TaskIdMessage THEN 1 ELSE 0)
      BY <2>1, CountInTail
    <2>5. v = w => D' = CountIn(Tail(dealer[w]), TaskIdMessage)
      BY <2>1 DEF TypeOK, SocketsTypeOK
    <2>6. CASE message.data = "core_count"
      <3>1. message.core_count = CoreCount[w] - 1 /\ message \notin TaskIdMessage
        BY <2>2, <2>6 DEF MessagesOf, TaskIdMessage
      <3>2. D' = D
        BY <1>2, <2>3, <2>4, <2>5, <3>1
      <3>3. RegisterWorker(w, message.core_count)
        BY <1>8, <2>6 DEF ReceiveWorkerMessage
      <3>4. InFlight(v)' = InFlight(v)
        BY <1>1, <1>3, <1>4, <3>2, <3>3 DEF RegisterWorker
      <3>5. CASE w \in Registered
        <4>1. UNCHANGED availableCoreCount
          BY <3>3, <3>5 DEF RegisterWorker
        <4> QED
          BY <1>1, <1>6, <3>4, <4>1, WithinFrame
      <3>6. CASE w \notin Registered
        <4>1. /\ availableCoreCount' = [u \in Registered \cup {w} |->
                    IF u = w THEN message.core_count ELSE availableCoreCount[u]]
          BY <3>3, <3>6 DEF RegisterWorker
        <4>2. CASE v = w
          <5>1. availableCoreCount'[v] = CoreCount[v] - 1 /\ v \in DOMAIN availableCoreCount'
            BY <3>1, <4>1, <4>2
          <5>2. InFlight(v) = 0
            BY <1>6, <3>6, <4>2 DEF WithinCores
          <5> QED
            BY <1>6, <3>4, <5>1, <5>2 DEF WithinCores, Registered
        <4>3. CASE v # w
          <5>1. /\ v \in DOMAIN availableCoreCount' <=> v \in DOMAIN availableCoreCount
                /\ v \in DOMAIN availableCoreCount => availableCoreCount'[v] = availableCoreCount[v]
            BY <4>1, <4>3 DEF Registered
          <5> QED
            BY <1>1, <1>6, <3>4, <5>1 DEF WithinCores, Registered
        <4> QED
          BY <4>2, <4>3
      <3> QED
        BY <3>5, <3>6
    <2>7. CASE message.data # "core_count"
      <3>1. message.task_id \in AnswersOf(w) /\ message.data = "task_id"
        BY <2>2, <2>7 DEF MessagesOf
      <3>2. message.task_id.identity = w
        BY <3>1 DEF AnswersOf
      <3>3. message \in TaskIdMessage
        BY <2>2, <2>7 DEF MessagesOf, AnswersOf, TaskIdMessage, WorkerTaskId
      <3>4. ProcessWorkerTaskReply(message.task_id)
        BY <1>8, <2>7 DEF ReceiveWorkerMessage
      <3>5. v = w => D = D' + 1
        BY <2>4, <2>5, <3>3
      <3>6. v = w => v \in Registered
        BY <1>1, <1>2, <1>6, <3>5 DEF WithinCores
      <3>7. CASE taskQueue = <<>>
        <4>1. availableCoreCount' = [availableCoreCount EXCEPT ![w] = @ + 1] /\ pub' = pub
          BY <3>2, <3>4, <3>7 DEF ProcessWorkerTaskReply
        <4>2. P' = P
          BY <1>4, <4>1
        <4>3. CASE v = w
          <5>1. InFlight(v)' = InFlight(v) - 1
            BY <1>1, <1>2, <1>3, <3>5, <4>2, <4>3
          <5>2. v \in DOMAIN availableCoreCount' /\ availableCoreCount'[v] = availableCoreCount[v] + 1
            BY <3>6, <4>1, <4>3 DEF TypeOK, BrokerTypeOK, Registered
          <5> QED
            BY <1>1, <1>6, <3>6, <4>3, <5>1, <5>2 DEF WithinCores, Registered
        <4>4. CASE v # w
          <5>1. InFlight(v)' = InFlight(v)
            BY <1>1, <1>3, <2>3, <4>2, <4>4
          <5>2. /\ v \in DOMAIN availableCoreCount' <=> v \in DOMAIN availableCoreCount
                /\ v \in DOMAIN availableCoreCount => availableCoreCount'[v] = availableCoreCount[v]
            BY <4>1, <4>4 DEF TypeOK, BrokerTypeOK
          <5> QED
            BY <1>1, <1>6, <5>1, <5>2 DEF WithinCores, Registered
        <4> QED
          BY <4>3, <4>4
      <3>8. CASE taskQueue # <<>>
        <4> DEFINE m == [identity |-> w, task |-> taskQueue[Len(taskQueue)]]
        <4>1. m \in WorkerTask /\ m.identity = w
          BY <3>8 DEF TypeOK, BrokerTypeOK, WorkerTask
        <4>2. Publish(m)
          BY <3>2, <3>4, <3>8
          DEF ProcessWorkerTaskReply, SendTaskToWorkerFromQueue, SendTaskToWorkerImpl
        <4>3. UNCHANGED availableCoreCount
          BY <3>2, <3>4, <3>8, CountBackTaken
          DEF ProcessWorkerTaskReply, SendTaskToWorkerFromQueue, SendTaskToWorkerImpl,
              TypeOK, BrokerTypeOK
        <4> HIDE DEF m
        <4>4. P' <= P + (IF v = w THEN 1 ELSE 0)
          BY <4>1, <4>2, PublishInFlight DEF P
        <4>5. InFlight(v)' <= InFlight(v)
          BY <1>1, <1>2, <1>3, <2>3, <3>5, <4>4
        <4> QED
          BY <1>6, <4>3, <4>5, WithinFrame
      <3> QED
        BY <3>7, <3>8
    <2> QED
      BY <2>6, <2>7
  <1>9. CASE ReceiveManagerRequest
    <2> DEFINE task == Head(taskPipe)
    <2>1. D' = D
      BY <1>5, <1>9 DEF ReceiveManagerRequest
    <2>2. CASE UNCHANGED <<availableCoreCount, pub>>
      <3>1. InFlight(v)' = InFlight(v)
        BY <1>1, <1>3, <1>4, <2>1, <2>2
      <3> QED
        BY <1>1, <1>6, <2>2, <3>1, WithinFrame
    <2>3. ASSUME NEW w \in Registered, availableCoreCount[w] # 0,
                 SendTaskToWorkerImpl(w, task, availableCoreCount)
          PROVE  WithinCores(v)'
      <3> DEFINE m == [identity |-> w, task |-> task]
      <3>1. m \in WorkerTask /\ m.identity = w
        BY <1>9 DEF ReceiveManagerRequest, TypeOK, PipesTypeOK, BrokerTypeOK, WorkerTask
      <3>2. Publish(m) /\ availableCoreCount' = [availableCoreCount EXCEPT ![w] = @ - 1]
        BY <2>3 DEF SendTaskToWorkerImpl
      <3> HIDE DEF m
      <3>3. P' <= P + (IF v = w THEN 1 ELSE 0)
        BY <3>1, <3>2, PublishInFlight DEF P
      <3>4. InFlight(v)' <= InFlight(v) + (IF v = w THEN 1 ELSE 0) /\ InFlight(v)' \in Nat
        BY <1>1, <1>2, <1>3, <2>1, <3>3
      <3>5. /\ v \in DOMAIN availableCoreCount' <=> v \in DOMAIN availableCoreCount
            /\ v \in DOMAIN availableCoreCount =>
                 availableCoreCount'[v] = availableCoreCount[v] - (IF v = w THEN 1 ELSE 0)
        BY <1>6, <3>2 DEF TypeOK, BrokerTypeOK, Registered
      <3>6. CASE v = w
        BY <1>1, <1>6, <2>3, <3>4, <3>5, <3>6 DEF WithinCores, Registered
      <3>7. CASE v # w
        BY <1>1, <1>6, <3>4, <3>5, <3>7 DEF WithinCores, Registered
      <3> QED
        BY <3>6, <3>7
    <2> QED
      BY <1>9, <2>2, <2>3 DEF ReceiveManagerRequest, SendTaskToWorker
  <1> QED
    BY <1>7, <1>8, <1>9 DEF BrokerStep, BrokerNext

(* Every step keeps each worker within its announced cores.                  *)
LEMMA NoOvercommitStep ==
    ASSUME TypeOK, OwnTasksOnly, NoOvercommit, TypeOK', Next
    PROVE  NoOvercommit'
  <1> SUFFICES ASSUME NEW v \in Workers PROVE WithinCores(v)'
    BY DEF NoOvercommit
  <1>1. WithinCores(v) /\ InFlight(v) \in Nat
    BY InFlightType DEF NoOvercommit
  <1>2. CASE BrokerStep
    BY <1>2, BrokerWithin
  <1>3. ASSUME NEW w \in Workers, WorkerNext(w) \/ Terminate(w), UNCHANGED brokerVars
        PROVE  WithinCores(v)'
    <2>1. CASE v = w
      BY <1>1, <1>3, <2>1, WorkerInFlight, WithinFrame DEF brokerVars
    <2>2. CASE v # w
      <3> USE DEF TypeOK, SocketsTypeOK, WorkersTypeOK, ThreadsTypeOK
      <3>1. CASE Terminate(w)
        BY <2>2, <3>1, <1>1, <1>3, InFlightUnchanged, WithinFrame DEF Terminate, brokerVars
      <3>2. CASE WorkerNext(w) /\ ~Terminate(w)
        <4>1. /\ pub'[v] = pub[v] /\ tasks'[v] = tasks[v] /\ thread'[v] = thread[v]
              /\ finished'[v] = finished[v] /\ dealer'[v] = dealer[v]
          BY <2>2, <3>2
          DEF WorkerNext, Subscribe, MainStep, SendAckMessage, ReadRequest, NothingToRead,
              NotifyOne, CheckOutputQueue, ThreadStep, TakeTask, CalculateTask, WriteResult,
              PushFinished, SpuriousWakeup, Sleeping, socketVars, workerVars
        <4>2. InFlight(v)' = InFlight(v)
          BY <4>1, InFlightUnchanged
        <4> QED
          BY <1>1, <1>3, <4>2, WithinFrame DEF brokerVars
      <3> QED
        BY <1>3, <3>1, <3>2
    <2> QED
      BY <2>1, <2>2
  <1>4. CASE UNCHANGED <<socketVars, brokerVars, tasks, thread, finished>>
    <2>1. InFlight(v)' = InFlight(v)
      BY <1>4, InFlightUnchanged DEF socketVars
    <2> QED
      BY <1>1, <1>4, <2>1, WithinFrame DEF brokerVars
  <1>5. CASE ReadReply \/ \E task \in Tasks : SendRequest(task)
    BY <1>4, <1>5 DEF ReadReply, SendRequest, workerVars
  <1>6. ASSUME NEW w \in Workers, RestartWorker(w)
        PROVE  WithinCores(v)'
    BY <1>4, <1>6 DEF RestartWorker
  <1> QED
    BY <1>2, <1>3, <1>5, <1>6 DEF Next, WorkerStep, StopWorker

(* The inductive invariant.  NoOvercommit alone is not inductive: that a     *)
(* reply gives a core back to the worker that was busy rests on OwnTasksOnly,*)
(* and both rest on the types.                                               *)
Inv == TypeOK /\ OwnTasksOnly /\ NoOvercommit

(* The inductive invariant holds in every reachable state.                   *)
LEMMA Invariance == Spec => []Inv
  <1>1. Init => Inv
    <2> SUFFICES ASSUME Init PROVE OwnTasksOnly /\ NoOvercommit
      BY InitType DEF Inv
    <2> SUFFICES ASSUME NEW v \in Workers PROVE OwnTasks(v) /\ WithinCores(v)
      BY DEF OwnTasksOnly, NoOvercommit
    <2>1. /\ pub[v] = <<>> /\ dealer[v] = <<>> /\ tasks[v] = <<>> /\ finished[v] = <<>>
          /\ v \notin Registered
      BY DEF Init, SocketsInit, WorkerInit, BrokerInit, Registered
    <2>2. Calculating(v) = {}
      BY DEF Init, WorkerInit, Calculating, Threads, Idle
    <2>3. OwnTasks(v)
      BY <2>1, <2>2 DEF OwnTasks
    <2>4. Published(v) = 0 /\ Held(v) = 0 /\ Answered(v) = 0
      BY <2>1, <2>2, CountInEmpty, FS_EmptySet DEF Published, Held, Answered
    <2> QED
      BY <2>1, <2>3, <2>4 DEF WithinCores, InFlight
  <1>2. Inv /\ [Next]_vars => Inv'
    <2>1. ASSUME Inv, Next PROVE Inv'
      BY <2>1, TypeStep, OwnStep, NoOvercommitStep DEF Inv
    <2>2. ASSUME Inv, UNCHANGED vars PROVE Inv'
      <3>1. TypeOK'
        BY <2>2, TypeUnchanged DEF Inv, TypeOK, vars, workerVars
      <3> SUFFICES ASSUME NEW v \in Workers PROVE OwnTasks(v)' /\ WithinCores(v)'
        BY <3>1 DEF Inv, OwnTasksOnly, NoOvercommit
      <3>2. OwnTasks(v)'
        BY <2>2, OwnUnchanged DEF Inv, OwnTasksOnly, vars, socketVars, workerVars
      <3>3. InFlight(v)' = InFlight(v)
        BY <2>2, InFlightUnchanged DEF vars, socketVars, workerVars
      <3>4. WithinCores(v)'
        BY <2>2, <3>1, <3>3, InFlightType, WithinFrame DEF Inv, NoOvercommit, vars, brokerVars
      <3> QED
        BY <3>2, <3>4
    <2> QED
      BY <2>1, <2>2
  <1> QED
    BY <1>1, <1>2, PTL DEF Spec

(* A worker queues, calculates and answers nobody's tasks but its own, for   *)
(* any number of workers.                                                    *)
THEOREM OwnTasksOnlyHolds == Spec => []OwnTasksOnly
  BY Invariance, PTL DEF Inv

(* The broker never commits more cores of a worker than the worker announced,*)
(* whatever is lost or restarted.                                            *)
THEOREM NoOvercommitHolds == Spec => []NoOvercommit
  BY Invariance, PTL DEF Inv

(* Hence a worker's thread pool always has a thread to spare.                *)
THEOREM PoolNeverFullHolds == Spec => []PoolNeverFull
  <1>1. Inv => PoolNeverFull
    <2> SUFFICES ASSUME Inv, NEW v \in Workers
                 PROVE  Held(v) < CoreCount[v]
      BY DEF PoolNeverFull
    <2>1. WithinCores(v) /\ CoreCount[v] \in Nat \ {0}
      BY WorkerSocketsAssumption DEF Inv, NoOvercommit
    <2>2. v \in Registered => availableCoreCount[v] \in Nat
      BY DEF Inv, TypeOK, BrokerTypeOK
    <2>3. InFlight(v) \in Nat /\ Held(v) \in Nat /\ Held(v) <= InFlight(v)
      BY InFlightType DEF Inv, InFlight
    <2> QED
      BY <2>1, <2>2, <2>3 DEF WithinCores
  <1> QED
    BY <1>1, Invariance, PTL

-----------------------------------------------------------------------------
(* The threads and the cores of the workers.                                 *)

(* The threads of w that will test the predicate of condition.wait.          *)
Awake(w) == {k \in Threads(w) : thread[w][k] = Idle}

Notified(w) == IF workerPc[w] = "notify" THEN 1 ELSE 0

NoLostWakeup(w) ==
    Sleeping(w) # {} => Len(tasks[w]) <= Cardinality(Awake(w)) + Notified(w)

(* Both sets of threads are finite.                                          *)
LEMMA AwakeType ==
    ASSUME NEW w \in Workers
    PROVE  IsFiniteSet(Awake(w)) /\ Cardinality(Awake(w)) \in Nat
  <1>1. IsFiniteSet(Threads(w))
    BY WorkerSocketsAssumption, FS_Interval DEF Threads
  <1>2. Awake(w) \in SUBSET Threads(w)
    BY DEF Awake
  <1> QED
    BY <1>1, <1>2, FS_Subset, FS_CardinalityType

(* A step that leaves the queue, the threads and the program counter of v.   *)
LEMMA WakeupUnchanged ==
    ASSUME NEW v \in Workers, NoLostWakeup(v),
           tasks'[v] = tasks[v], thread'[v] = thread[v], workerPc'[v] = workerPc[v]
    PROVE  NoLostWakeup(v)'
  BY DEF NoLostWakeup, Awake, Sleeping, Notified, Threads

(* Thread k of w starts or stops to be about to test the predicate, ...      *)
LEMMA ThreadAwakes ==
    ASSUME TypeOK, NEW w \in Workers, NEW k \in Threads(w),
           thread' = [thread EXCEPT ![w][k] = Idle], thread[w][k] # Idle
    PROVE  /\ Cardinality(Awake(w)') = Cardinality(Awake(w)) + 1
           /\ Sleeping(w)' \subseteq Sleeping(w)
  <1>1. Awake(w)' = Awake(w) \cup {k} /\ k \notin Awake(w) /\ Sleeping(w)' \subseteq Sleeping(w)
    BY DEF TypeOK, ThreadsTypeOK, ThreadTypeOK, Awake, Sleeping, Threads, Idle, Asleep
  <1> QED
    BY <1>1, AwakeType, FS_AddElement

(* ... or does neither.                                                      *)
LEMMA ThreadBusy ==
    ASSUME TypeOK, NEW w \in Workers, NEW k \in Threads(w), NEW t,
           thread' = [thread EXCEPT ![w][k] = t], t # Idle, t # Asleep
    PROVE  /\ thread[w][k] # Idle => Awake(w)' = Awake(w)
           /\ thread[w][k] = Idle => Cardinality(Awake(w)') = Cardinality(Awake(w)) - 1
           /\ Sleeping(w)' \subseteq Sleeping(w)
  <1>1. /\ thread[w][k] # Idle => Awake(w)' = Awake(w)
        /\ thread[w][k] = Idle => k \in Awake(w) /\ Awake(w)' = Awake(w) \ {k}
        /\ Sleeping(w)' \subseteq Sleeping(w)
    BY DEF TypeOK, ThreadsTypeOK, ThreadTypeOK, Awake, Sleeping, Threads
  <1> QED
    BY <1>1, AwakeType, FS_RemoveElement

(* The steps of a worker keep its queued tasks and its awake threads in      *)
(* step: a task is taken by a thread that stops to be awake, and a thread    *)
(* falls asleep only when the queue is empty.                                *)
LEMMA WorkerWakeup ==
    ASSUME TypeOK, NEW w \in Workers, NoLostWakeup(w), WorkerNext(w) \/ Terminate(w)
    PROVE  NoLostWakeup(w)'
  <1>0. /\ Len(tasks[w]) \in Nat /\ tasks[w] \in Seq(WorkerTask)
        /\ Cardinality(Awake(w)) \in Nat /\ Notified(w) \in 0..1
    BY AwakeType DEF TypeOK, WorkersTypeOK, Notified
  <1> USE DEF TypeOK, WorkersTypeOK, SocketsTypeOK
  <1>1. CASE Subscribe(w)
    BY <1>1, WakeupUnchanged DEF Subscribe, workerVars
  <1>2. CASE SendAckMessage(w) \/ NothingToRead(w) \/ CheckOutputQueue(w)
    <2>1. /\ UNCHANGED <<tasks, thread>>
          /\ workerPc[w] # "notify" /\ workerPc'[w] # "notify"
      BY <1>2 DEF SendAckMessage, NothingToRead, CheckOutputQueue
    <2> QED
      BY <2>1 DEF NoLostWakeup, Awake, Sleeping, Notified, Threads
  <1>3. CASE ReadRequest(w)
    <2>1. UNCHANGED thread /\ workerPc[w] = "poll"
      BY <1>3 DEF ReadRequest
    <2>2. \/ /\ Len(tasks'[w]) = Len(tasks[w]) + 1 /\ workerPc'[w] = "notify"
          \/ tasks'[w] = tasks[w]
      BY <1>3 DEF ReadRequest
    <2>3. Awake(w)' = Awake(w) /\ Sleeping(w)' = Sleeping(w)
      BY <2>1 DEF Awake, Sleeping, Threads
    <2> QED
      BY <1>0, <2>1, <2>2, <2>3 DEF NoLostWakeup, Notified
  <1>4. CASE NotifyOne(w)
    <2>1. /\ UNCHANGED tasks /\ workerPc[w] = "notify" /\ workerPc'[w] = "output"
          /\ \/ Sleeping(w) = {} /\ UNCHANGED thread
             \/ \E k \in Sleeping(w) : thread' = [thread EXCEPT ![w][k] = Idle]
      BY <1>4 DEF NotifyOne
    <2>2. CASE Sleeping(w) = {}
      BY <2>1, <2>2 DEF NoLostWakeup, Sleeping, Threads
    <2>3. ASSUME NEW k \in Sleeping(w), thread' = [thread EXCEPT ![w][k] = Idle]
          PROVE  NoLostWakeup(w)'
      <3>1. k \in Threads(w) /\ thread[w][k] # Idle
        BY <2>3 DEF Sleeping, Idle, Asleep
      <3>2. Cardinality(Awake(w)') = Cardinality(Awake(w)) + 1
        BY <2>3, <3>1, ThreadAwakes
      <3> QED
        BY <1>0, <2>1, <2>3, <3>2 DEF NoLostWakeup, Notified
    <2> QED
      BY <2>1, <2>2, <2>3
  <1>5. ASSUME NEW k \in Threads(w), TakeTask(w, k)
        PROVE  NoLostWakeup(w)'
    <2>1. UNCHANGED workerPc /\ thread[w][k] = Idle
      BY <1>5 DEF TakeTask
    <2>2. CASE tasks[w] = <<>>
      <3>1. tasks'[w] = <<>>
        BY <1>5, <2>2 DEF TakeTask
      <3>2. Cardinality(Awake(w)') \in Nat /\ Notified(w)' \in 0..1
        <4>1. Awake(w)' \in SUBSET Threads(w) /\ IsFiniteSet(Threads(w))
          BY WorkerSocketsAssumption, FS_Interval DEF Awake, Threads
        <4> QED
          BY <4>1, FS_Subset, FS_CardinalityType DEF Notified
      <3> QED
        BY <3>1, <3>2 DEF NoLostWakeup
    <2>3. CASE tasks[w] # <<>>
      <3> DEFINE t == [pc |-> "calculate", task |-> Head(tasks[w])]
      <3>1. thread' = [thread EXCEPT ![w][k] = t] /\ tasks'[w] = Tail(tasks[w])
        BY <1>5, <2>3 DEF TakeTask
      <3>2. t # Idle /\ t # Asleep
        BY DEF Idle, Asleep
      <3>3. Len(tasks'[w]) = Len(tasks[w]) - 1
        BY <1>0, <2>3, <3>1
      <3> HIDE DEF t
      <3>4. /\ Cardinality(Awake(w)') = Cardinality(Awake(w)) - 1
            /\ Sleeping(w)' \subseteq Sleeping(w)
        BY <1>5, <2>1, <3>1, <3>2, ThreadBusy
      <3>5. Notified(w)' = Notified(w) /\ Notified(w) \in 0..1
        BY <2>1 DEF Notified
      <3>6. Sleeping(w)' # {} => Sleeping(w) # {}
        BY <3>4
      <3>7. ASSUME NEW l \in Nat, NEW a \in Nat, NEW n \in 0..1, l <= a + n
            PROVE  l - 1 <= a - 1 + n
        BY <3>7
      <3>8. ASSUME Sleeping(w)' # {}
            PROVE  Len(tasks'[w]) <= Cardinality(Awake(w)') + Notified(w)'
        <4>1. Len(tasks[w]) <= Cardinality(Awake(w)) + Notified(w)
          BY <3>6, <3>8 DEF NoLostWakeup
        <4>2. Len(tasks[w]) - 1 <= Cardinality(Awake(w)) - 1 + Notified(w)
          BY <1>0, <3>7, <4>1
        <4> QED
          BY <3>3, <3>4, <3>5, <4>2
      <3> QED
        BY <3>8 DEF NoLostWakeup
    <2> QED
      BY <2>2, <2>3
  <1>6. ASSUME NEW k \in Threads(w), SpuriousWakeup(w, k) \/ PushFinished(w, k)
        PROVE  NoLostWakeup(w)'
    <2>1. /\ UNCHANGED <<tasks, workerPc>> /\ thread' = [thread EXCEPT ![w][k] = Idle]
          /\ thread[w][k] # Idle
      BY <1>6 DEF SpuriousWakeup, PushFinished, Idle, Asleep
    <2>2. /\ Cardinality(Awake(w)') = Cardinality(Awake(w)) + 1
          /\ Sleeping(w)' \subseteq Sleeping(w)
      BY <1>6, <2>1, ThreadAwakes
    <2> QED
      BY <1>0, <2>1, <2>2 DEF NoLostWakeup, Notified
  <1>7. ASSUME NEW k \in Threads(w), CalculateTask(w, k) \/ WriteResult(w, k), ~Terminate(w)
        PROVE  NoLostWakeup(w)'
    <2>1. UNCHANGED <<tasks, workerPc>> /\ thread[w][k] # Idle
      BY <1>7 DEF CalculateTask, WriteResult, Idle
    <2>2. PICK t : thread' = [thread EXCEPT ![w][k] = t] /\ t # Idle /\ t # Asleep
      BY <1>7 DEF CalculateTask, WriteResult, Idle, Asleep
    <2>3. Awake(w)' = Awake(w) /\ Sleeping(w)' \subseteq Sleeping(w)
      BY <1>7, <2>1, <2>2, ThreadBusy
    <2> QED
      BY <1>0, <2>1, <2>3 DEF NoLostWakeup, Notified
  <1>8. CASE Terminate(w)
    <2>1. Sleeping(w)' = {}
      BY <1>8 DEF Terminate, ThreadsTypeOK, Sleeping, Threads, Idle, Asleep
    <2> QED
      BY <2>1 DEF NoLostWakeup
  <1> QED
    BY <1>1, <1>2, <1>3, <1>4, <1>5, <1>6, <1>7, <1>8 DEF WorkerNext, MainStep, ThreadStep

(* Every step keeps the awake threads of every worker in step.               *)
LEMMA WakeupStep ==
    ASSUME TypeOK, Next, NEW v \in Workers, NoLostWakeup(v)
    PROVE  NoLostWakeup(v)'
  <1>1. CASE UNCHANGED <<tasks, thread, workerPc>>
    BY <1>1, WakeupUnchanged
  <1>2. ASSUME NEW w \in Workers, WorkerNext(w) \/ Terminate(w)
        PROVE  NoLostWakeup(v)'
    <2>1. CASE v = w
      BY <1>2, <2>1, WorkerWakeup
    <2>2. CASE v # w
      <3>1. tasks'[v] = tasks[v] /\ thread'[v] = thread[v] /\ workerPc'[v] = workerPc[v]
        <4> USE DEF TypeOK, WorkersTypeOK, ThreadsTypeOK
        <4>1. CASE Terminate(w)
          BY <2>2, <4>1 DEF Terminate
        <4>2. CASE WorkerNext(w) /\ ~Terminate(w)
          <5>1. CASE Subscribe(w) \/ MainStep(w)
            BY <2>2, <5>1
               DEF Subscribe, MainStep, SendAckMessage, ReadRequest, NothingToRead,
                   NotifyOne, CheckOutputQueue, Sleeping, workerVars
          <5>2. ASSUME NEW k \in Threads(w), ThreadStep(w, k) \/ SpuriousWakeup(w, k)
                PROVE  tasks'[v] = tasks[v] /\ thread'[v] = thread[v] /\ workerPc'[v] = workerPc[v]
            BY <2>2, <4>2, <5>2
               DEF ThreadStep, TakeTask, CalculateTask, WriteResult, PushFinished, SpuriousWakeup
          <5> QED
            BY <4>2, <5>1, <5>2 DEF WorkerNext
        <4> QED
          BY <1>2, <4>1, <4>2
      <3> QED
        BY <3>1, WakeupUnchanged
    <2> QED
      BY <2>1, <2>2
  <1> QED
    BY <1>1, <1>2
       DEF Next, BrokerStep, WorkerStep, StopWorker, RestartWorker, SendRequest, ReadReply, workerVars

(* No notify_one of ThreadPool::PushTask is lost, although it is called      *)
(* after tasks_m_ was released: for any number of workers, threads and       *)
(* tasks, with spurious wakeups, failing tasks and restarted workers.        *)
THEOREM QueuedTaskHasAwakeThreadHolds == Spec => []QueuedTaskHasAwakeThread
  <1> DEFINE I == TypeOK /\ \A w \in Workers : NoLostWakeup(w)
  <1>1. Init => I
    <2>1. Init => \A w \in Workers : NoLostWakeup(w)
      BY DEF Init, WorkerInit, NoLostWakeup, Sleeping, Threads, Idle, Asleep
    <2> QED
      BY <2>1, InitType
  <1>2. I /\ [Next]_vars => I'
    <2>1. ASSUME I, Next PROVE I'
      BY <2>1, TypeStep, WakeupStep
    <2>2. ASSUME I, UNCHANGED vars PROVE I'
      BY <2>2, TypeUnchanged, WakeupUnchanged DEF TypeOK, vars, workerVars
    <2> QED
      BY <2>1, <2>2
  <1>3. I => QueuedTaskHasAwakeThread
    BY DEF QueuedTaskHasAwakeThread, NoLostWakeup, Awake, Notified
  <1> QED
    BY <1>1, <1>2, <1>3, PTL DEF Spec

-----------------------------------------------------------------------------
(* What a reply gives back, ProcessWorkerTaskReply takes again as long as a  *)
(* task waits, and a first announcement concerns a worker that was not       *)
(* registered.                                                               *)
LEMMA CountsWhileQueued ==
    ASSUME TypeOK, Next, taskQueue # <<>>, NEW v \in Registered
    PROVE  availableCoreCount'[v] <= availableCoreCount[v]
  <1>1. availableCoreCount \in [Registered -> Nat] /\ availableCoreCount[v] \in Nat
    BY DEF TypeOK, BrokerTypeOK
  <1>2. CASE UNCHANGED availableCoreCount
    BY <1>1, <1>2
  <1>3. ASSUME NEW w \in Workers, ReceiveWorkerMessage(w)
        PROVE  availableCoreCount'[v] <= availableCoreCount[v]
    <2> DEFINE message == Head(dealer[w])
    <2>1. CASE message.data = "core_count"
      <3>1. RegisterWorker(w, message.core_count)
        BY <1>3, <2>1 DEF ReceiveWorkerMessage
      <3> QED
        BY <1>1, <3>1 DEF RegisterWorker
    <2>2. CASE message.data # "core_count"
      <3> DEFINE u == message.task_id.identity
      <3>1. availableCoreCount' =
              [[availableCoreCount EXCEPT ![u] = @ + 1] EXCEPT ![u] = @ - 1]
        BY <1>3, <2>2
           DEF ReceiveWorkerMessage, ProcessWorkerTaskReply, SendTaskToWorkerFromQueue,
               SendTaskToWorkerImpl
      <3> HIDE DEF u
      <3>2. availableCoreCount' = availableCoreCount
        BY <1>1, <3>1, CountBackTaken
      <3> QED
        BY <1>2, <3>2
    <2> QED
      BY <2>1, <2>2
  <1>4. CASE ReceiveManagerRequest
    <2>1. ASSUME NEW w \in Registered, NEW task,
                 SendTaskToWorkerImpl(w, task, availableCoreCount)
          PROVE  availableCoreCount'[v] <= availableCoreCount[v]
      BY <1>1, <2>1 DEF SendTaskToWorkerImpl
    <2> QED
      BY <1>2, <1>4, <2>1 DEF ReceiveManagerRequest, SendTaskToWorker
  <1> QED
    BY <1>2, <1>3, <1>4
       DEF Next, BrokerStep, BrokerNext, BrokerPoll, SendResultToManager, WorkerStep, StopWorker,
           RestartWorker, SendRequest, ReadReply, brokerVars

(* While tasks wait in task_queue_, no core that was busy becomes free: the  *)
(* broker gives the next task to the worker whose reply it handles, before   *)
(* it passes the reply on.                                                   *)
THEOREM NoIdleCoreWhileQueuedHolds == Spec => NoIdleCoreWhileQueued
  <1>1. TypeOK /\ [Next]_vars =>
          [taskQueue # <<>> =>
             \A w \in Registered : availableCoreCount'[w] <= availableCoreCount[w]]_vars
    BY CountsWhileQueued
  <1> QED
    BY <1>1, TypeCorrect, PTL DEF Spec, NoIdleCoreWhileQueued

-----------------------------------------------------------------------------
(* Publishing m adds one to what the addressee has in flight, if it hears.   *)
LEMMA PublishDelivers ==
    ASSUME TypeOK, NEW m \in WorkerTask, Publish(m), NEW v \in Workers
    PROVE  Published(v)' = Published(v) + (IF v = m.identity /\ ~Deaf(v) THEN 1 ELSE 0)
  <1>1. pub[v] \in Seq(WorkerTask) /\ Published(v) \in Nat /\ Len(pub[v]) \in Nat /\ PubHwm \in Nat
    BY InFlightType, WorkerSocketsAssumption DEF TypeOK, SocketsTypeOK
  <1>2. m \in TasksOf(v) <=> v = m.identity
    BY DEF WorkerTask, TasksOf
  <1>3. CASE Deaf(v)
    <2>1. pub'[v] = pub[v]
      BY <1>1, <1>3 DEF Publish, Deaf
    <2> QED
      BY <1>1, <1>3, <2>1, TermsUnchanged
  <1>4. CASE ~Deaf(v)
    <2>1. pub'[v] = Append(pub[v], m)
      BY <1>1, <1>4 DEF Publish, Deaf
    <2>2. Published(v)' = Published(v) + (IF m \in TasksOf(v) THEN 1 ELSE 0)
      BY <1>1, <2>1, CountInAppend DEF Published
    <2> QED
      BY <1>2, <1>4, <2>2
  <1> QED
    BY <1>3, <1>4

(* The cores of v are as many as before, or one of them went with a task     *)
(* that v does not hear of.                                                  *)
CoresKept(v) ==
    /\ v \in DOMAIN availableCoreCount'
    /\ \/ Cores(v)' = Cores(v)
       \/ Deaf(v) /\ (\E t \in Tasks : HandedOut(t)) /\ Cores(v)' = Cores(v) - 1

(* Every step of the broker: a core is given back for a reply that leaves    *)
(* the worker's queue, and taken for a task that is published.               *)
LEMMA BrokerCores ==
    ASSUME Inv, Inv', BrokerStep, NEW v \in Registered
    PROVE  CoresKept(v)
  <1> DEFINE P == Published(v)
  <1> DEFINE D == CountIn(dealer[v], TaskIdMessage)
  <1> DEFINE R == Held(v) + Len(finished[v])
  <1>0. TypeOK /\ TypeOK' /\ v \in Workers
    BY DEF Inv, TypeOK, BrokerTypeOK
  <1>1. /\ P \in Nat /\ D \in Nat /\ R \in Nat /\ InFlight(v) \in Nat
        /\ InFlight(v) = P + R + D
    <2>1. Len(finished[v]) \in Nat
      BY <1>0 DEF TypeOK, WorkersTypeOK
    <2>2. P \in Nat /\ D \in Nat /\ Held(v) \in Nat /\ InFlight(v) \in Nat
      BY <1>0, InFlightType
    <2>3. InFlight(v) = P + Held(v) + (Len(finished[v]) + D)
      BY DEF InFlight, Answered
    <2>4. \A p, h, f, d \in Nat : h + f \in Nat /\ p + h + (f + d) = p + (h + f) + d
      OBVIOUS
    <2>5. R \in Nat
      BY <2>1, <2>2, <2>4
    <2>6. InFlight(v) = P + R + D
      BY <2>1, <2>2, <2>3, <2>4
    <2> QED
      BY <2>2, <2>5, <2>6
  <1>2. P' \in Nat /\ D' \in Nat
    BY <1>0, CountInType DEF TypeOK, SocketsTypeOK, Published
  <1>3. InFlight(v)' = P' + R + D'
    <2>1. UNCHANGED <<tasks, thread, finished>>
      BY DEF BrokerStep, workerVars
    <2>2. Held(v)' = Held(v)
      BY <1>0, <2>1, TermsUnchanged
    <2>3. InFlight(v)' = P' + Held(v) + (Len(finished[v]) + D')
      BY <2>1, <2>2 DEF InFlight, Answered
    <2>4. Len(finished[v]) \in Nat /\ Held(v) \in Nat
      BY <1>0, InFlightType DEF TypeOK, WorkersTypeOK
    <2> QED
      BY <1>2, <2>3, <2>4
  <1>4. pub'[v] = pub[v] => P' = P
    BY <1>0, TermsUnchanged
  <1>5. dealer'[v] = dealer[v] => D' = D
    BY DEF CountIn, TaskIdMessage, WorkerTaskId, TaskId
  <1>6. availableCoreCount[v] \in Nat /\ availableCoreCount \in [Registered -> Nat]
    BY <1>0 DEF TypeOK, BrokerTypeOK
  <1> HIDE DEF R, P
  <1>7. CASE BrokerPoll \/ SendResultToManager
    <2>1. InFlight(v)' = InFlight(v) /\ UNCHANGED availableCoreCount
      BY <1>1, <1>3, <1>4, <1>5, <1>7 DEF BrokerPoll, SendResultToManager, socketVars
    <2> QED
      BY <2>1 DEF CoresKept, Cores, Registered
  <1>8. ASSUME NEW w \in Workers, ReceiveWorkerMessage(w)
        PROVE  CoresKept(v)
    <2> DEFINE message == Head(dealer[w])
    <2>1. /\ dealer[w] # <<>> /\ dealer' = [dealer EXCEPT ![w] = Tail(@)]
          /\ dealer[w] \in Seq(WorkerMessage) /\ dealer[w] \in Seq(MessagesOf(w))
      BY <1>0, <1>8
         DEF ReceiveWorkerMessage, Inv, OwnTasksOnly, OwnTasks, TypeOK, SocketsTypeOK
    <2>2. message \in MessagesOf(w)
      BY <2>1
    <2>3. v # w => D' = D
      BY <1>5, <2>1
    <2>4. CountIn(dealer[w], TaskIdMessage) = CountIn(Tail(dealer[w]), TaskIdMessage)
            + (IF message \in TaskIdMessage THEN 1 ELSE 0)
      BY <2>1, CountInTail
    <2>5. v = w => D' = CountIn(Tail(dealer[w]), TaskIdMessage)
      BY <1>0, <2>1 DEF TypeOK, SocketsTypeOK
    <2>6. CASE message.data = "core_count"
      <3>1. message.core_count = CoreCount[w] - 1 /\ message \notin TaskIdMessage
        BY <2>2, <2>6 DEF MessagesOf, TaskIdMessage
      <3>2. D' = D
        BY <1>2, <2>3, <2>4, <2>5, <3>1
      <3>3. RegisterWorker(w, message.core_count)
        BY <1>8, <2>6 DEF ReceiveWorkerMessage
      <3>4. InFlight(v)' = InFlight(v)
        BY <1>1, <1>3, <1>4, <3>2, <3>3 DEF RegisterWorker
      <3>5. v \in DOMAIN availableCoreCount' /\ availableCoreCount'[v] = availableCoreCount[v]
        BY <1>6, <3>3 DEF RegisterWorker, Registered
      <3> QED
        BY <3>4, <3>5 DEF CoresKept, Cores
    <2>7. CASE message.data # "core_count"
      <3>1. message.task_id \in AnswersOf(w) /\ message.data = "task_id"
        BY <2>2, <2>7 DEF MessagesOf
      <3>2. message.task_id.identity = w
        BY <3>1 DEF AnswersOf
      <3>3. message \in TaskIdMessage
        BY <2>2, <2>7 DEF MessagesOf, AnswersOf, TaskIdMessage, WorkerTaskId
      <3>4. ProcessWorkerTaskReply(message.task_id)
        BY <1>8, <2>7 DEF ReceiveWorkerMessage
      <3>5. v = w => D = D' + 1
        BY <2>4, <2>5, <3>3
      <3>6. CASE taskQueue = <<>>
        <4>1. availableCoreCount' = [availableCoreCount EXCEPT ![w] = @ + 1] /\ pub' = pub
          BY <3>2, <3>4, <3>6 DEF ProcessWorkerTaskReply
        <4>2. InFlight(v)' = InFlight(v) - (IF v = w THEN 1 ELSE 0)
          BY <1>1, <1>2, <1>3, <1>4, <2>3, <3>5, <4>1
        <4>3. /\ v \in DOMAIN availableCoreCount'
              /\ availableCoreCount'[v] = availableCoreCount[v] + (IF v = w THEN 1 ELSE 0)
          BY <1>6, <4>1 DEF Registered
        <4>4. Cores(v)' = Cores(v)
          BY <1>1, <1>6, <4>2, <4>3 DEF Cores
        <4> QED
          BY <4>3, <4>4 DEF CoresKept
      <3>7. CASE taskQueue # <<>>
        <4> DEFINE m == [identity |-> w, task |-> taskQueue[Len(taskQueue)]]
        <4>1. m \in WorkerTask /\ m.identity = w
          BY <1>0, <3>7 DEF TypeOK, BrokerTypeOK, WorkerTask
        <4>2. Publish(m)
          BY <3>2, <3>4, <3>7
          DEF ProcessWorkerTaskReply, SendTaskToWorkerFromQueue, SendTaskToWorkerImpl
        <4>3. UNCHANGED availableCoreCount
          BY <1>0, <3>2, <3>4, <3>7, CountBackTaken
          DEF ProcessWorkerTaskReply, SendTaskToWorkerFromQueue, SendTaskToWorkerImpl,
              TypeOK, BrokerTypeOK
        <4> HIDE DEF m
        <4>4. P' = P + (IF v = w /\ ~Deaf(v) THEN 1 ELSE 0)
          BY <1>0, <4>1, <4>2, PublishDelivers DEF P
        <4>5. InFlight(v)' = InFlight(v) \/ (Deaf(v) /\ InFlight(v)' = InFlight(v) - 1)
          BY <1>1, <1>2, <1>3, <2>3, <3>5, <4>4
        <4>6. HandedOut(taskQueue[Len(taskQueue)]) /\ taskQueue[Len(taskQueue)] \in Tasks
          BY <1>0, <3>2, <3>4, <3>7
          DEF HandedOut, ProcessWorkerTaskReply, SendTaskToWorkerFromQueue, TypeOK, BrokerTypeOK
        <4>7. Cores(v)' = Cores(v) \/ (Deaf(v) /\ Cores(v)' = Cores(v) - 1)
          BY <1>1, <1>6, <4>3, <4>5 DEF Cores
        <4> QED
          BY <4>3, <4>6, <4>7 DEF CoresKept, Registered
      <3> QED
        BY <3>6, <3>7
    <2> QED
      BY <2>6, <2>7
  <1>9. CASE ReceiveManagerRequest
    <2> DEFINE task == Head(taskPipe)
    <2>1. D' = D
      BY <1>5, <1>9 DEF ReceiveManagerRequest
    <2>2. CASE UNCHANGED <<availableCoreCount, pub>>
      <3>1. InFlight(v)' = InFlight(v)
        BY <1>1, <1>3, <1>4, <2>1, <2>2
      <3> QED
        BY <2>2, <3>1 DEF CoresKept, Cores, Registered
    <2>3. ASSUME NEW w \in Registered, SendTaskToWorkerImpl(w, task, availableCoreCount)
          PROVE  CoresKept(v)
      <3> DEFINE m == [identity |-> w, task |-> task]
      <3>1. m \in WorkerTask /\ m.identity = w
        BY <1>0, <1>9 DEF ReceiveManagerRequest, TypeOK, PipesTypeOK, BrokerTypeOK, WorkerTask
      <3>2. Publish(m) /\ availableCoreCount' = [availableCoreCount EXCEPT ![w] = @ - 1]
        BY <2>3 DEF SendTaskToWorkerImpl
      <3> HIDE DEF m
      <3>3. P' = P + (IF v = w /\ ~Deaf(v) THEN 1 ELSE 0)
        BY <1>0, <3>1, <3>2, PublishDelivers DEF P
      <3>4. InFlight(v)' = InFlight(v) + (IF v = w /\ ~Deaf(v) THEN 1 ELSE 0)
        BY <1>1, <1>2, <1>3, <2>1, <3>3
      <3>5. /\ v \in DOMAIN availableCoreCount'
            /\ availableCoreCount'[v] = availableCoreCount[v] - (IF v = w THEN 1 ELSE 0)
        BY <1>6, <3>2 DEF Registered
      <3>6. HandedOut(task) /\ task \in Tasks
        BY <1>0, <1>9 DEF HandedOut, ReceiveManagerRequest, TypeOK, PipesTypeOK
      <3>7. Cores(v)' = Cores(v) \/ (Deaf(v) /\ Cores(v)' = Cores(v) - 1)
        BY <1>1, <1>6, <3>4, <3>5 DEF Cores
      <3> QED
        BY <3>5, <3>6, <3>7 DEF CoresKept
    <2> QED
      BY <1>9, <2>2, <2>3 DEF ReceiveManagerRequest, SendTaskToWorker
  <1> QED
    BY <1>7, <1>8, <1>9 DEF BrokerStep, BrokerNext

(* A step of the program keeps the cores of a registered worker, or the      *)
(* worker ends in it.                                                        *)
LEMMA CoresStep ==
    ASSUME Inv, Inv', Next, NEW v \in Registered
    PROVE  CoresKept(v) \/ (Terminate(v) /\ WorkerEnds(v))
  <1>0. TypeOK /\ TypeOK' /\ OwnTasksOnly /\ v \in Workers
    BY DEF Inv, TypeOK, BrokerTypeOK
  <1>1. ASSUME InFlight(v)' = InFlight(v), UNCHANGED brokerVars
        PROVE  CoresKept(v)
    BY <1>1 DEF CoresKept, Cores, Registered, brokerVars
  <1>2. CASE BrokerStep
    BY <1>2, BrokerCores
  <1>3. ASSUME NEW w \in Workers, v # w, UNCHANGED brokerVars,
               WorkerNext(w) \/ Terminate(w)
        PROVE  CoresKept(v)
    <2> USE DEF TypeOK, SocketsTypeOK, WorkersTypeOK, ThreadsTypeOK
    <2>1. CASE Terminate(w)
      <3>1. /\ pub'[v] = pub[v] /\ tasks'[v] = tasks[v] /\ thread'[v] = thread[v]
            /\ finished'[v] = finished[v] /\ dealer'[v] = dealer[v]
        BY <1>0, <1>3, <2>1 DEF Terminate
      <3> QED
        BY <1>0, <1>1, <1>3, <3>1, InFlightUnchanged
    <2>2. CASE WorkerNext(w) /\ ~Terminate(w)
      <3>1. /\ pub'[v] = pub[v] /\ tasks'[v] = tasks[v] /\ thread'[v] = thread[v]
            /\ finished'[v] = finished[v] /\ dealer'[v] = dealer[v]
        BY <1>0, <1>3, <2>2
        DEF WorkerNext, Subscribe, MainStep, SendAckMessage, ReadRequest, NothingToRead,
            NotifyOne, CheckOutputQueue, ThreadStep, TakeTask, CalculateTask, WriteResult,
            PushFinished, SpuriousWakeup, Sleeping, socketVars, workerVars
      <3> QED
        BY <1>0, <1>1, <1>3, <3>1, InFlightUnchanged
    <2> QED
      BY <1>3, <2>1, <2>2
  <1>4. ASSUME WorkerNext(v), UNCHANGED brokerVars, ~Terminate(v)
        PROVE  CoresKept(v)
    BY <1>0, <1>1, <1>4, WorkerInFlight
  <1>5. ASSUME WorkerNext(v) \/ StopWorker(v), Terminate(v)
        PROVE  WorkerEnds(v)
    <2>1. ~workerUp'[v]
      BY <1>0, <1>5 DEF Terminate, TypeOK, WorkersTypeOK
    <2>2. workerUp'[v] = workerUp[v] => FALSE \/ workerUp[v] = FALSE
      BY <2>1
    <2>3. workerUp[v]
      BY <1>5
      DEF StopWorker, WorkerNext, Subscribe, MainStep, SendAckMessage, ReadRequest, NothingToRead,
          NotifyOne, CheckOutputQueue, ThreadStep, TakeTask, CalculateTask, WriteResult,
          PushFinished, SpuriousWakeup
    <2> QED
      BY <2>1, <2>3 DEF WorkerEnds
  <1>6. CASE UNCHANGED <<socketVars, brokerVars, tasks, thread, finished>>
    BY <1>0, <1>1, <1>6, InFlightUnchanged DEF socketVars
  <1> QED
    BY <1>0, <1>2, <1>3, <1>4, <1>5, <1>6
       DEF Next, WorkerStep, StopWorker, RestartWorker, SendRequest, ReadReply, workerVars

(* A worker registers with all the cores it announces.                       *)
LEMMA RegisteredNew ==
    ASSUME Inv, Next, NEW v \in Workers, v \notin Registered, v \in DOMAIN availableCoreCount'
    PROVE  availableCoreCount'[v] = CoreCount[v] - 1
  <1>1. PICK w \in Workers : ReceiveWorkerMessage(w) /\ DOMAIN availableCoreCount' # Registered
    BY DEF Next, BrokerStep, BrokerNext, BrokerPoll, SendResultToManager, ReceiveManagerRequest,
           SendTaskToWorker, SendTaskToWorkerImpl, WorkerStep, StopWorker, RestartWorker,
           SendRequest, ReadReply, brokerVars, Registered
  <1>2. Head(dealer[w]).data = "core_count"
    BY <1>1 DEF ReceiveWorkerMessage, ProcessWorkerTaskReply, SendTaskToWorkerFromQueue,
                SendTaskToWorkerImpl, Registered
  <1>3. Head(dealer[w]) \in MessagesOf(w)
    <2>1. dealer[w] \in Seq(MessagesOf(w)) /\ dealer[w] # <<>>
      BY <1>1 DEF ReceiveWorkerMessage, Inv, OwnTasksOnly, OwnTasks
    <2> QED
      BY <2>1
  <1>4. Head(dealer[w]).core_count = CoreCount[w] - 1
    BY <1>2, <1>3 DEF MessagesOf
  <1>5. RegisterWorker(w, Head(dealer[w]).core_count)
    BY <1>1, <1>2 DEF ReceiveWorkerMessage
  <1> QED
    BY <1>4, <1>5 DEF RegisterWorker, Registered

-----------------------------------------------------------------------------
(* No process has ended and no subscriber's queue is at its mark: the two    *)
(* ways in which a task in flight can be lost.                               *)
NothingLost == \A w \in Workers : workerUp[w] /\ Len(pub[w]) < PubHwm

(* Whoever has announced itself is subscribed.                               *)
SubscribedFirst ==
    \A w \in Workers :
        (workerPc[w] # "start" \/ dealer[w] # <<>> \/ w \in Registered) => w \in subscribed

Balanced(w) ==
    w \in Registered => availableCoreCount[w] + InFlight(w) = CoreCount[w] - 1

LosslessInv == SubscribedFirst /\ \A w \in Workers : Balanced(w)

(* A process that stays up has not terminated.                               *)
LEMMA StaysUp ==
    ASSUME TypeOK, NothingLost', NEW w \in Workers
    PROVE  ~Terminate(w)
  BY DEF TypeOK, WorkersTypeOK, NothingLost, Terminate

(* Every step keeps the announced workers subscribed.                        *)
LEMMA SubscribedStep ==
    ASSUME Inv, SubscribeFirst, SubscribedFirst, NothingLost', Next
    PROVE  SubscribedFirst'
  <1> SUFFICES ASSUME NEW v \in Workers,
                      workerPc'[v] # "start" \/ dealer'[v] # <<>> \/ v \in DOMAIN availableCoreCount'
               PROVE  v \in subscribed'
    BY DEF SubscribedFirst, Registered
  <1>0. \A w \in Workers : ~Terminate(w)
    BY StaysUp DEF Inv
  <1>1. CASE UNCHANGED <<workerPc, socketVars, availableCoreCount>>
    BY <1>1 DEF SubscribedFirst, Registered, socketVars
  <1> USE DEF Inv, TypeOK, SocketsTypeOK, WorkersTypeOK
  <1>2. ASSUME NEW w \in Workers, WorkerNext(w), UNCHANGED availableCoreCount
        PROVE  v \in subscribed'
    <2>1. CASE Subscribe(w)
      BY <1>2, <2>1 DEF Subscribe, workerVars, SubscribedFirst, Registered
    <2>2. CASE SendAckMessage(w)
      BY <1>2, <2>2 DEF SendAckMessage, SubscribedFirst, Registered
    <2>3. CASE ReadRequest(w) \/ NothingToRead(w) \/ NotifyOne(w) \/ CheckOutputQueue(w)
      <3>1. /\ workerPc[w] # "start" /\ UNCHANGED subscribed
            /\ v # w => workerPc'[v] = workerPc[v] /\ dealer'[v] = dealer[v]
        BY <2>3 DEF ReadRequest, NothingToRead, NotifyOne, CheckOutputQueue, socketVars
      <3> QED
        BY <1>2, <3>1 DEF SubscribedFirst, Registered
    <2>4. ASSUME NEW k \in Threads(w), ThreadStep(w, k) \/ SpuriousWakeup(w, k)
          PROVE  v \in subscribed'
      <3>1. UNCHANGED <<workerPc, socketVars>>
        BY <1>0, <2>4
           DEF ThreadStep, TakeTask, CalculateTask, WriteResult, PushFinished, SpuriousWakeup
      <3> QED
        BY <1>1, <1>2, <3>1
    <2> QED
      BY <1>2, <2>1, <2>2, <2>3, <2>4 DEF WorkerNext, MainStep
  <1>3. ASSUME NEW w \in Workers, ReceiveWorkerMessage(w), UNCHANGED workerPc
        PROVE  v \in subscribed'
    <2>1. /\ dealer[w] # <<>> /\ UNCHANGED subscribed
          /\ dealer'[v] = dealer[v] \/ v = w
      BY <1>3 DEF ReceiveWorkerMessage
    <2>2. DOMAIN availableCoreCount' \subseteq DOMAIN availableCoreCount \cup {w}
      <3>1. CASE Head(dealer[w]).data = "core_count"
        BY <1>3, <3>1 DEF ReceiveWorkerMessage, RegisterWorker, Registered
      <3>2. CASE Head(dealer[w]).data # "core_count"
        BY <1>3, <3>2
           DEF ReceiveWorkerMessage, ProcessWorkerTaskReply, SendTaskToWorkerFromQueue,
               SendTaskToWorkerImpl
      <3> QED
        BY <3>1, <3>2
    <2> QED
      BY <1>3, <2>1, <2>2 DEF SubscribedFirst, Registered
  <1>4. CASE ReceiveManagerRequest /\ UNCHANGED workerPc
    <2>1. /\ UNCHANGED <<dealer, subscribed>>
          /\ DOMAIN availableCoreCount' = DOMAIN availableCoreCount
      BY <1>4 DEF ReceiveManagerRequest, SendTaskToWorker, SendTaskToWorkerImpl
    <2> QED
      BY <1>4, <2>1 DEF SubscribedFirst, Registered
  <1> QED
    BY <1>0, <1>1, <1>2, <1>3, <1>4
       DEF Next, BrokerStep, BrokerNext, BrokerPoll, SendResultToManager, WorkerStep, StopWorker,
           RestartWorker, SendRequest, ReadReply, brokerVars, workerVars

(* Every step keeps the balance of every worker.                             *)
LEMMA BalancedStep ==
    ASSUME Inv, Inv', NothingLost, NothingLost', LosslessInv, Next, NEW v \in Workers
    PROVE  Balanced(v)'
  <1>1. CASE v \in Registered
    <2>1. ~Terminate(v) /\ ~Deaf(v)
      BY <1>1, StaysUp, WorkerSocketsAssumption
      DEF Inv, TypeOK, SocketsTypeOK, NothingLost, LosslessInv, SubscribedFirst, Deaf
    <2>2. Cores(v)' = Cores(v)
      BY <1>1, <2>1, CoresStep DEF CoresKept
    <2> QED
      BY <1>1, <2>2 DEF LosslessInv, Balanced, Cores
  <1>2. CASE v \notin Registered /\ v \in DOMAIN availableCoreCount'
    <2>1. availableCoreCount'[v] = CoreCount[v] - 1
      BY <1>2, RegisteredNew
    <2>2. WithinCores(v)' /\ TypeOK'
      BY DEF Inv, NoOvercommit
    <2>3. InFlight(v)' \in Nat
      <3>1. TermsTypeOK'
        BY <2>2, TermsTyped, PTL
      <3> QED
        BY <3>1 DEF TermsTypeOK
    <2>4. availableCoreCount'[v] + InFlight(v)' <= CoreCount[v] - 1
      BY <1>2, <2>2 DEF WithinCores, Registered
    <2>5. CoreCount[v] \in Nat
      BY WorkerSocketsAssumption
    <2>6. InFlight(v)' = 0
      BY <2>1, <2>3, <2>4, <2>5
    <2> QED
      BY <2>1, <2>5, <2>6 DEF Balanced
  <1> QED
    BY <1>1, <1>2 DEF Balanced, Registered

(* Where a subscription arrives before the worker's announcement, a core can *)
(* be lost in two ways only: its worker's process ended, or a subscriber's   *)
(* queue reached its mark.  As long as neither has happened, every core of a *)
(* registered worker is free or busy.                                        *)
THEOREM NoCoreLeakHolds ==
    SubscribeFirst => (Spec /\ []NothingLost => []NoCoreLeak)
  <1> SUFFICES ASSUME SubscribeFirst PROVE Spec /\ []NothingLost => []NoCoreLeak
    OBVIOUS
  <1>1. Init => LosslessInv
    BY DEF Init, LosslessInv, SubscribedFirst, Balanced, WorkerInit, SocketsInit, BrokerInit,
           Registered
  <1>2. Inv /\ Inv' /\ NothingLost /\ NothingLost' /\ LosslessInv /\ [Next]_vars => LosslessInv'
    <2>1. ASSUME Inv, Inv', NothingLost, NothingLost', LosslessInv, Next PROVE LosslessInv'
      BY <2>1, SubscribedStep, BalancedStep DEF LosslessInv
    <2>2. ASSUME LosslessInv, UNCHANGED vars PROVE LosslessInv'
      <3>1. \A v \in Workers : InFlight(v)' = InFlight(v)
        BY <2>2, InFlightUnchanged DEF vars, socketVars, workerVars
      <3> QED
        BY <2>2, <3>1
           DEF LosslessInv, SubscribedFirst, Balanced, Registered, vars, socketVars, brokerVars,
               workerVars
    <2> QED
      BY <2>1, <2>2
  <1>3. Inv /\ LosslessInv => NoCoreLeak
    BY DEF Inv, TypeOK, BrokerTypeOK, LosslessInv, Balanced, NoCoreLeak
  <1> QED
    BY <1>1, <1>2, <1>3, Invariance, PTL DEF Spec

-----------------------------------------------------------------------------
IsAnnouncement(message) == message.data = "core_count"

Announcing(w) == workerUp[w] /\ workerPc[w] = "start"

(* The announcement of w is still to be made, on its way, or registered.     *)
AnnouncedOnce(w) ==
    /\ \A i, j \in DOMAIN dealer[w] :
          IsAnnouncement(dealer[w][i]) /\ IsAnnouncement(dealer[w][j]) => i = j
    /\ w \in Registered \/ Announcing(w) =>
          \A i \in DOMAIN dealer[w] : ~IsAnnouncement(dealer[w][i])
    /\ ~(w \in Registered /\ Announcing(w))

EndInv == restarts = 0 => brokerUp /\ \A w \in Workers : AnnouncedOnce(w)

(* A step that adds no announcement of v and does not register v.            *)
LEMMA AnnouncedFrame ==
    ASSUME NEW v \in Workers, AnnouncedOnce(v),
           dealer'[v] = dealer[v],
           v \in DOMAIN availableCoreCount' => v \in Registered,
           Announcing(v)' => Announcing(v)
    PROVE  AnnouncedOnce(v)'
  BY DEF AnnouncedOnce, IsAnnouncement, Registered

(* The queue of v loses its head; a head that is the announcement of v may   *)
(* register it.                                                              *)
LEMMA AnnouncedTail ==
    ASSUME TypeOK, NEW v \in Workers, AnnouncedOnce(v), dealer[v] # <<>>,
           dealer'[v] = Tail(dealer[v]), Announcing(v)' => Announcing(v),
           \/ v \in DOMAIN availableCoreCount' => v \in Registered
           \/ IsAnnouncement(Head(dealer[v]))
    PROVE  AnnouncedOnce(v)'
  <1>1. dealer[v] \in Seq(WorkerMessage)
    BY DEF TypeOK, SocketsTypeOK
  <1>2. /\ Len(dealer[v]) \in Nat \ {0} /\ DOMAIN dealer[v] = 1..Len(dealer[v])
        /\ DOMAIN dealer'[v] = 1..(Len(dealer[v]) - 1)
        /\ Head(dealer[v]) = dealer[v][1]
        /\ \A i \in DOMAIN dealer'[v] : i + 1 \in DOMAIN dealer[v] /\ dealer'[v][i] = dealer[v][i + 1]
    BY <1>1
  <1>3. \A i, j \in DOMAIN dealer'[v] :
          IsAnnouncement(dealer'[v][i]) /\ IsAnnouncement(dealer'[v][j]) => i = j
    <2> SUFFICES ASSUME NEW i \in DOMAIN dealer'[v], NEW j \in DOMAIN dealer'[v],
                        IsAnnouncement(dealer'[v][i]), IsAnnouncement(dealer'[v][j])
                 PROVE  i = j
      OBVIOUS
    <2>1. i + 1 = j + 1
      BY <1>2 DEF AnnouncedOnce
    <2> QED
      BY <1>2, <2>1
  <1>4. IsAnnouncement(Head(dealer[v])) =>
          /\ \A i \in DOMAIN dealer'[v] : ~IsAnnouncement(dealer'[v][i])
          /\ ~Announcing(v) /\ v \notin Registered
    <2> SUFFICES ASSUME IsAnnouncement(Head(dealer[v]))
                 PROVE  /\ \A i \in DOMAIN dealer'[v] : ~IsAnnouncement(dealer'[v][i])
                        /\ ~Announcing(v) /\ v \notin Registered
      OBVIOUS
    <2>1. 1 \in DOMAIN dealer[v] /\ IsAnnouncement(dealer[v][1])
      BY <1>2
    <2>2. ASSUME NEW i \in DOMAIN dealer'[v], IsAnnouncement(dealer'[v][i])
          PROVE  FALSE
      <3>1. i + 1 \in DOMAIN dealer[v] /\ IsAnnouncement(dealer[v][i + 1])
        BY <1>2, <2>2
      <3>2. i + 1 = 1
        BY <2>1, <3>1 DEF AnnouncedOnce
      <3> QED
        BY <1>2, <3>2
    <2> QED
      BY <2>1, <2>2 DEF AnnouncedOnce
  <1>5. (\A i \in DOMAIN dealer[v] : ~IsAnnouncement(dealer[v][i])) =>
           \A i \in DOMAIN dealer'[v] : ~IsAnnouncement(dealer'[v][i])
    BY <1>2
  <1>6. /\ \A x : IsAnnouncement(x)' = IsAnnouncement(x)
        /\ Registered' = DOMAIN availableCoreCount'
    BY DEF IsAnnouncement, Registered
  <1>7. (\A i, j \in DOMAIN dealer[v] :
          IsAnnouncement(dealer[v][i]) /\ IsAnnouncement(dealer[v][j]) => i = j)'
    BY <1>3 DEF IsAnnouncement
  <1>8. (v \in Registered \/ Announcing(v) =>
          \A i \in DOMAIN dealer[v] : ~IsAnnouncement(dealer[v][i]))'
    BY <1>4, <1>5 DEF AnnouncedOnce, IsAnnouncement, Registered
  <1>9. (~(v \in Registered /\ Announcing(v)))'
    BY <1>4 DEF AnnouncedOnce, Registered
  <1> QED
    BY <1>7, <1>8, <1>9 DEF AnnouncedOnce

(* Every step without a restart keeps EndInv.                                *)
LEMMA EndStep ==
    ASSUME Inv, EndInv, Next
    PROVE  EndInv'
  <1> SUFFICES ASSUME restarts' = 0
               PROVE  brokerUp' /\ \A v \in Workers : AnnouncedOnce(v)'
    BY DEF EndInv
  <1>0. TypeOK /\ restarts \in Nat
    BY PoolAssumption DEF Inv, TypeOK, EnvironmentTypeOK
  <1>1. restarts = 0 /\ \A w \in Workers : ~RestartWorker(w)
    BY <1>0
       DEF Next, BrokerStep, WorkerStep, StopWorker, RestartWorker, SendRequest, ReadReply, envVars
  <1>2. brokerUp /\ \A v \in Workers : AnnouncedOnce(v)
    BY <1>1 DEF EndInv
  <1>3. CASE UNCHANGED <<dealer, workerUp, workerPc, brokerUp>>
             /\ DOMAIN availableCoreCount' = Registered
    BY <1>2, <1>3, AnnouncedFrame DEF Announcing
  <1>4. ASSUME NEW w \in Workers, ReceiveWorkerMessage(w), UNCHANGED workerVars
        PROVE  brokerUp' /\ \A v \in Workers : AnnouncedOnce(v)'
    <2>1. /\ dealer[w] # <<>> /\ dealer'[w] = Tail(dealer[w])
          /\ \A v \in Workers \ {w} : dealer'[v] = dealer[v]
      BY <1>0, <1>4 DEF ReceiveWorkerMessage, TypeOK, SocketsTypeOK
    <2>2. \A v \in Workers : Announcing(v)' => Announcing(v)
      BY <1>4 DEF Announcing, workerVars
    <2>3. CASE IsAnnouncement(Head(dealer[w]))
      <3>1. w \notin Registered
        <4>1. 1 \in DOMAIN dealer[w] /\ Head(dealer[w]) = dealer[w][1]
          <5>1. dealer[w] \in Seq(WorkerMessage)
            BY <1>0 DEF TypeOK, SocketsTypeOK
          <5> QED
            BY <2>1, <5>1
        <4> QED
          BY <1>2, <2>3, <4>1 DEF AnnouncedOnce
      <3>2. RegisterWorker(w, Head(dealer[w]).core_count)
        BY <1>4, <2>3 DEF ReceiveWorkerMessage, IsAnnouncement
      <3>3. UNCHANGED brokerUp /\ DOMAIN availableCoreCount' = Registered \cup {w}
        BY <3>1, <3>2 DEF RegisterWorker
      <3>4. AnnouncedOnce(w)'
        BY <1>0, <1>2, <2>1, <2>2, <2>3, AnnouncedTail
      <3>5. \A v \in Workers \ {w} : AnnouncedOnce(v)'
        BY <1>2, <2>1, <2>2, <3>3, AnnouncedFrame
      <3> QED
        BY <1>2, <3>3, <3>4, <3>5
    <2>4. CASE ~IsAnnouncement(Head(dealer[w]))
      <3>1. UNCHANGED brokerUp /\ DOMAIN availableCoreCount' = Registered
        BY <1>4, <2>4
           DEF ReceiveWorkerMessage, IsAnnouncement, ProcessWorkerTaskReply,
               SendTaskToWorkerFromQueue, SendTaskToWorkerImpl, Registered
      <3>2. AnnouncedOnce(w)'
        BY <1>0, <1>2, <2>1, <2>2, <3>1, AnnouncedTail
      <3>3. \A v \in Workers \ {w} : AnnouncedOnce(v)'
        BY <1>2, <2>1, <2>2, <3>1, AnnouncedFrame
      <3> QED
        BY <1>2, <3>1, <3>2, <3>3
    <2> QED
      BY <2>3, <2>4
  <1>5. CASE BrokerStep
    <2>1. UNCHANGED workerVars
      BY <1>5 DEF BrokerStep
    <2>2. CASE BrokerPoll \/ SendResultToManager \/ ReceiveManagerRequest
      <3>1. /\ UNCHANGED <<dealer, brokerUp>> /\ DOMAIN availableCoreCount' = Registered
        BY <2>2 DEF BrokerPoll, SendResultToManager, ReceiveManagerRequest, SendTaskToWorker,
                    SendTaskToWorkerImpl, socketVars, Registered
      <3> QED
        BY <1>3, <2>1, <3>1 DEF workerVars
    <2> QED
      BY <1>4, <1>5, <2>1, <2>2 DEF BrokerStep, BrokerNext
  <1>6. ASSUME NEW w \in Workers, WorkerStep(w) \/ StopWorker(w)
        PROVE  brokerUp' /\ \A v \in Workers : AnnouncedOnce(v)'
    <2> USE DEF TypeOK, SocketsTypeOK, WorkersTypeOK
    <2>1. UNCHANGED <<availableCoreCount, brokerUp>>
      BY <1>6 DEF WorkerStep, StopWorker, brokerVars
    <2>2. CASE Terminate(w)
      <3>1. \A v \in Workers \ {w} : AnnouncedOnce(v)'
        BY <1>0, <1>2, <2>1, <2>2, AnnouncedFrame DEF Terminate, Announcing, Registered
      <3>2. PICK n \in 0..Len(dealer[w]) : dealer'[w] = SubSeq(dealer[w], 1, n)
        BY <1>0, <2>2 DEF Terminate
      <3>3. /\ DOMAIN dealer'[w] \subseteq DOMAIN dealer[w]
            /\ \A i \in DOMAIN dealer'[w] : dealer'[w][i] = dealer[w][i]
        <4>1. dealer[w] \in Seq(WorkerMessage)
          BY <1>0
        <4> QED
          BY <3>2, <4>1
      <3>4. ~Announcing(w)'
        BY <1>0, <2>2 DEF Terminate, Announcing
      <3>5. AnnouncedOnce(w)'
        BY <1>2, <2>1, <3>3, <3>4 DEF AnnouncedOnce, IsAnnouncement, Registered
      <3> QED
        BY <1>2, <2>1, <3>1, <3>5
    <2>3. CASE SendAckMessage(w)
      <3>1. \A v \in Workers \ {w} : AnnouncedOnce(v)'
        BY <1>0, <1>2, <2>1, <2>3, AnnouncedFrame DEF SendAckMessage, Announcing, Registered
      <3>2. Announcing(w) /\ ~Announcing(w)'
        BY <1>0, <2>3 DEF SendAckMessage, Announcing
      <3>3. PICK y : dealer'[w] = Append(dealer[w], y)
        BY <1>0, <2>3 DEF SendAckMessage
      <3>4. /\ DOMAIN dealer'[w] = DOMAIN dealer[w] \cup {Len(dealer[w]) + 1}
            /\ \A i \in DOMAIN dealer[w] : dealer'[w][i] = dealer[w][i]
        <4>1. dealer[w] \in Seq(WorkerMessage)
          BY <1>0
        <4> QED
          BY <3>3, <4>1
      <3>5. /\ \A i \in DOMAIN dealer[w] : ~IsAnnouncement(dealer[w][i])
            /\ w \notin Registered
        BY <1>2, <3>2 DEF AnnouncedOnce
      <3>6. AnnouncedOnce(w)'
        BY <2>1, <3>2, <3>4, <3>5 DEF AnnouncedOnce, IsAnnouncement, Registered
      <3> QED
        BY <1>2, <2>1, <3>1, <3>6
    <2>4. CASE CheckOutputQueue(w)
      <3>1. \A v \in Workers \ {w} : AnnouncedOnce(v)'
        BY <1>0, <1>2, <2>1, <2>4, AnnouncedFrame DEF CheckOutputQueue, Announcing, Registered
      <3>2. ~Announcing(w) /\ ~Announcing(w)'
        BY <1>0, <2>4 DEF CheckOutputQueue, Announcing
      <3>3. CASE finished[w] = <<>>
        <4>1. dealer'[w] = dealer[w]
          BY <2>4, <3>3 DEF CheckOutputQueue
        <4>2. AnnouncedOnce(w)'
          BY <1>2, <2>1, <3>2, <4>1, AnnouncedFrame DEF Registered
        <4> QED
          BY <1>2, <2>1, <3>1, <4>2
      <3>4. CASE finished[w] # <<>>
        <4>1. PICK y : ~IsAnnouncement(y) /\ dealer'[w] = Append(dealer[w], y)
          BY <1>0, <2>4, <3>4 DEF CheckOutputQueue, IsAnnouncement
        <4>2. /\ DOMAIN dealer'[w] = DOMAIN dealer[w] \cup {Len(dealer[w]) + 1}
              /\ \A i \in DOMAIN dealer[w] : dealer'[w][i] = dealer[w][i]
              /\ dealer'[w][Len(dealer[w]) + 1] = y
          <5>1. dealer[w] \in Seq(WorkerMessage)
            BY <1>0
          <5> QED
            BY <4>1, <5>1
        <4>3. \A i \in DOMAIN dealer'[w] :
                IsAnnouncement(dealer'[w][i]) => i \in DOMAIN dealer[w] /\ IsAnnouncement(dealer[w][i])
          BY <4>1, <4>2
        <4>4. AnnouncedOnce(w)
          BY <1>2
        <4>5. AnnouncedOnce(w)'
          BY <2>1, <3>2, <4>2, <4>3, <4>4 DEF AnnouncedOnce, IsAnnouncement, Registered
        <4> QED
          BY <1>2, <2>1, <3>1, <4>5
      <3> QED
        BY <1>2, <2>1, <3>1, <3>3, <3>4
    <2>5. CASE WorkerNext(w) /\ ~Terminate(w) /\ ~SendAckMessage(w) /\ ~CheckOutputQueue(w)
      <3>1. UNCHANGED <<dealer, workerUp>>
        BY <2>5
        DEF WorkerNext, Subscribe, MainStep, ReadRequest, NothingToRead, NotifyOne, ThreadStep,
            TakeTask, CalculateTask, WriteResult, PushFinished, SpuriousWakeup, socketVars, workerVars
      <3>2. \A v \in Workers : workerPc'[v] = "start" => workerPc[v] = "start"
        BY <1>0, <2>5
        DEF WorkerNext, Subscribe, MainStep, ReadRequest, NothingToRead, NotifyOne, ThreadStep,
            TakeTask, CalculateTask, WriteResult, PushFinished, SpuriousWakeup, workerVars
      <3> QED
        BY <1>2, <2>1, <3>1, <3>2, AnnouncedFrame DEF Announcing, Registered
    <2> QED
      BY <1>6, <2>2, <2>3, <2>4, <2>5 DEF WorkerStep, StopWorker
  <1>7. CASE ReadReply \/ \E task \in Tasks : SendRequest(task)
    BY <1>3, <1>7 DEF ReadReply, SendRequest, socketVars, brokerVars, workerVars, Registered
  <1> QED
    BY <1>1, <1>5, <1>6, <1>7 DEF Next

(* A second registration under one identity, the only thing that ends the    *)
(* broker, needs a worker that was started again.                            *)
THEOREM BrokerEndHasCauseHolds == Spec => []BrokerEndHasCause
  <1>1. Init => EndInv
    BY DEF Init, EndInv, AnnouncedOnce, Announcing, BrokerInit, SocketsInit, Registered
  <1>2. Inv /\ EndInv /\ [Next]_vars => EndInv'
    <2>1. ASSUME EndInv, UNCHANGED vars PROVE EndInv'
      BY <2>1 DEF EndInv, AnnouncedOnce, Announcing, IsAnnouncement, Registered, vars, socketVars,
                  brokerVars, workerVars, envVars
    <2> QED
      BY <2>1, EndStep
  <1>3. Inv /\ EndInv => BrokerEndHasCause
    BY PoolAssumption DEF Inv, TypeOK, EnvironmentTypeOK, EndInv, BrokerEndHasCause
  <1> QED
    BY <1>1, <1>2, <1>3, Invariance, PTL DEF Spec
=============================================================================
