---------------------------- MODULE SystemProofs ----------------------------
(***************************************************************************)
(* Proofs about the whole (module System), for any requests, graphs,       *)
(* workers, cores and marks: the manager and the broker never wait for     *)
(* each other's pipe while few enough tasks are under way, and a request   *)
(* is answered once, with the value of its expression.  Nothing is assumed *)
(* of subscriptions, of the queue or of the operations.  The first proof   *)
(* counts tasks and does not tell them apart, the second follows each      *)
(* message back to where it comes from: both also hold where the broker    *)
(* hands one task out twice and forgets another.                           *)
(***************************************************************************)
EXTENDS System, AnswersProofs, FiniteSetTheorems, SequenceTheorems

(* What the dispatcher's books say of the problems it knows: the tasks that  *)
(* are sent and not yet answered, and those that are still to be sent.       *)
InProcess ==
    UNION {{<<id, v>> : v \in WithStatus(calcData[id].status, "processing")} :
             id \in DOMAIN calcData}

ToSend ==
    UNION {{<<id, v>> : v \in DOMAIN calcData[id].computable} : id \in DOMAIN calcData}

UnderWay == InProcess \cup ToSend

(* What a worker has been given and not yet answered: tasks published to it, *)
(* queued, being calculated, finished, and answers on their way.             *)
MineIn(s, w) == {i \in DOMAIN s : s[i].identity = w}

ReportsIn(s) == {i \in DOMAIN s : s[i].data # "core_count"}

Busy(w) == {k \in Threads(w) : thread[w][k].pc \in {"calculate", "write", "push"}}

Share(w) ==
    Cardinality(MineIn(pub[w], w)) + Len(tasks[w]) + Cardinality(Busy(w))
      + Len(finished[w]) + Cardinality(ReportsIn(dealer[w]))

(* A sum over the workers, as the number of pairs of a worker and one of its *)
(* units.                                                                    *)
Tokens(n) == {x \in Workers \X Nat : x[2] \in 1..n[x[1]]}

Spread == Tokens([w \in Workers |-> Share(w)])

(* All tasks between SendRequest and UpdateComputableTasks. *)
OnTheWay ==
    Len(taskPipe) + Len(taskQueue) + Cardinality(Spread) + Len(sending) + Len(replyPipe)
      + (IF dispatcher = "update" THEN 1 ELSE 0)

(* None of them comes from nowhere: the books know at least as many tasks in *)
(* process.                                                                  *)
Conserved ==
    /\ IsFiniteSet(Spread) /\ IsFiniteSet(InProcess)
    /\ managerUp => OnTheWay <= Cardinality(InProcess)

-----------------------------------------------------------------------------
(* The last task of a problem is calculated. *)
RootDone(id) ==
    LET root == RootTask(Graph[calcData[id].request])
    IN  /\ root \in DOMAIN calcData[id].status
        /\ calcData[id].status[root] = "completed"

(* The books of one problem: no task is both noted and to be sent, the       *)
(* leaves count as calculated, and the operands of a task that is noted or   *)
(* to be sent are.                                                           *)
BookSound(c) ==
    LET g == Graph[c.request]
    IN  /\ c = [request |-> c.request, status |-> c.status, computable |-> c.computable]
        /\ c.request \in Requests \ Rejected
        /\ DOMAIN c.status \subseteq Vertices(g)
        /\ DOMAIN c.computable \subseteq Vertices(g) \ DOMAIN c.status
        /\ \A v \in DOMAIN c.status : c.status[v] \in {"processing", "completed"}
        /\ {v \in Vertices(g) : g.type[v] \in LeafTypes} \subseteq DOMAIN c.status
        /\ \A v \in DOMAIN c.computable : c.computable[v] = g.adj[v]
        /\ \A v \in DOMAIN c.status \cup DOMAIN c.computable : \A k \in DOMAIN g.adj[v] :
             /\ g.adj[v][k] \in DOMAIN c.status
             /\ c.status[g.adj[v][k]] = "completed"

BooksSound ==
    /\ nextId \in Nat /\ DOMAIN calcData \subseteq 0..(nextId - 1)
    /\ \A id \in DOMAIN calcData : BookSound(calcData[id])

(* Who is in a critical section of m_ holds it. *)
LockHeld ==
    /\ \A r \in Requests : handler[r] \in {"pushing", "clearing"} => m = r
    /\ dispatcher \in {"sending", "computed", "notify"} => m = "dispatcher"

Unposed(r) == handler[r] \in {"start", "push", "pushing"}

(* Both maps know the same problems, each the one of its handler, and a      *)
(* handler is told only when the root of its problem is calculated.          *)
ToldWhenDone ==
    /\ DOMAIN handler = Requests /\ DOMAIN problemId = Requests /\ DOMAIN isComputed = Requests
    /\ DOMAIN syncData = DOMAIN calcData
    /\ \A id \in DOMAIN syncData :
        syncData[id] \in Requests /\ ~Unposed(syncData[id]) /\ problemId[syncData[id]] = id
    /\ \A r \in Requests :
        /\ handler[r] \in {"push", "pushing"} => r \notin Rejected
        /\ handler[r] \in {"clear", "clearing"} => isComputed[r] = TRUE
        /\ isComputed[r] = TRUE =>
             /\ ~Unposed(r) /\ problemId[r] \in 0..(nextId - 1)
             /\ problemId[r] \in DOMAIN calcData => RootDone(problemId[r])
    /\ \A r \in Requests : isComputed[r] \in BOOLEAN
    /\ dispatcher \in {"computed", "notify"} =>
         reply[1] \in DOMAIN calcData /\ RootDone(reply[1])

BookInv == BooksSound /\ LockHeld /\ ToldWhenDone

IsSeq(s) == \E S : s \in Seq(S)

(* The shape of the queues. *)
QueuesSound ==
    /\ IsSeq(taskPipe) /\ IsSeq(replyPipe) /\ IsSeq(taskQueue) /\ IsSeq(sending)
    /\ DOMAIN pub = Workers /\ DOMAIN tasks = Workers /\ DOMAIN thread = Workers
    /\ DOMAIN finished = Workers /\ DOMAIN dealer = Workers
    /\ \A w \in Workers :
        /\ IsSeq(pub[w]) /\ IsSeq(tasks[w]) /\ IsSeq(finished[w]) /\ IsSeq(dealer[w])
        /\ DOMAIN thread[w] = Threads(w)

WaitInv == BookInv /\ QueuesSound /\ Conserved

(* As many tasks as both pipes and the hands of one process hold. *)
FewUnderWay == Cardinality(UnderWay) <= 2 * PipeHwm + 1

-----------------------------------------------------------------------------
(* Sequences of anything. *)
LEMMA SeqFacts ==
    ASSUME NEW s, IsSeq(s)
    PROVE  Len(s) \in Nat /\ DOMAIN s = 1..Len(s) /\ IsFiniteSet(DOMAIN s)
  <1>1. PICK S : s \in Seq(S)
    BY DEF IsSeq
  <1>2. Len(s) \in Nat /\ DOMAIN s = 1..Len(s)
    BY <1>1
  <1> QED
    BY <1>2, FS_Interval

LEMMA SeqEmpty == IsSeq(<<>>) /\ Len(<<>>) = 0
  <1>1. <<>> \in Seq({})
    OBVIOUS
  <1> QED
    BY <1>1 DEF IsSeq

LEMMA SeqOne ==
    ASSUME NEW e
    PROVE  IsSeq(<<e>>) /\ Len(<<e>>) = 1
  <1>1. <<e>> \in Seq({e})
    OBVIOUS
  <1> QED
    BY <1>1 DEF IsSeq

LEMMA SeqAppend ==
    ASSUME NEW s, IsSeq(s), NEW e
    PROVE  /\ IsSeq(Append(s, e)) /\ Len(Append(s, e)) = Len(s) + 1
           /\ DOMAIN Append(s, e) = DOMAIN s \cup {Len(s) + 1}
           /\ \A i \in DOMAIN s : Append(s, e)[i] = s[i]
           /\ Append(s, e)[Len(s) + 1] = e
  <1>1. PICK S : s \in Seq(S)
    BY DEF IsSeq
  <1>2. PICK T : T = S \cup {e}
    OBVIOUS
  <1>3. s \in Seq(T) /\ e \in T
    BY <1>1, <1>2
  <1>4. Append(s, e) \in Seq(T)
    BY <1>3
  <1> QED
    BY <1>3, <1>4 DEF IsSeq

LEMMA SeqTail ==
    ASSUME NEW s, IsSeq(s), s # <<>>
    PROVE  /\ IsSeq(Tail(s)) /\ Len(Tail(s)) = Len(s) - 1 /\ Len(s) \in Nat \ {0}
           /\ DOMAIN Tail(s) = 1..(Len(s) - 1) /\ Head(s) = s[1]
           /\ \A i \in DOMAIN Tail(s) : Tail(s)[i] = s[i + 1]
  <1>1. PICK S : s \in Seq(S)
    BY DEF IsSeq
  <1>2. Tail(s) \in Seq(S)
    BY <1>1
  <1> QED
    BY <1>1, <1>2 DEF IsSeq

LEMMA SeqPrefix ==
    ASSUME NEW s, IsSeq(s), NEW n \in 0..Len(s)
    PROVE  /\ IsSeq(SubSeq(s, 1, n)) /\ DOMAIN SubSeq(s, 1, n) = 1..n
           /\ \A i \in 1..n : SubSeq(s, 1, n)[i] = s[i]
  <1>1. PICK S : s \in Seq(S)
    BY DEF IsSeq
  <1>2. /\ SubSeq(s, 1, n) \in Seq(S) /\ Len(SubSeq(s, 1, n)) = n
        /\ \A i \in 1..n : SubSeq(s, 1, n)[i] = s[i]
    <2>1. 1 \in 1..(Len(s) + 1) /\ n \in 0..Len(s) /\ Len(s) \in Nat
      BY <1>1
    <2> QED
      BY <1>1, <2>1
  <1>3. PICK t : t = SubSeq(s, 1, n)
    OBVIOUS
  <1>4. t \in Seq(S) /\ Len(t) = n
    BY <1>2, <1>3
  <1>5. DOMAIN t = 1..n
    BY <1>4
  <1>6. IsSeq(t)
    BY <1>4 DEF IsSeq
  <1> QED
    BY <1>2, <1>3, <1>5, <1>6

-----------------------------------------------------------------------------
One(p) == IF p THEN 1 ELSE 0

(* Marked positions of a sequence: one may be added at the end, ...          *)
LEMMA MarkedAppend ==
    ASSUME NEW n \in Nat, NEW I \in SUBSET (1..n), NEW J \in SUBSET (1..(n + 1)),
           \A i \in 1..n : i \in I <=> i \in J
    PROVE  Cardinality(J) = Cardinality(I) + One(n + 1 \in J) /\ Cardinality(I) \in Nat
  <1>0. /\ \A i \in J : i \in 1..n \/ i = n + 1
        /\ \A i \in I : i \in 1..n /\ i # n + 1
    OBVIOUS
  <1>1. IsFiniteSet(I)
    <2>1. IsFiniteSet(1..n)
      BY FS_Interval
    <2> QED
      BY <2>1, FS_Subset
  <1>2. Cardinality(I) \in Nat
    BY <1>1, FS_CardinalityType
  <1>3. CASE n + 1 \in J
    <2>1. J = I \cup {n + 1} /\ n + 1 \notin I
      BY <1>0, <1>3
    <2> QED
      BY <1>1, <1>2, <1>3, <2>1, FS_AddElement DEF One
  <1>4. CASE n + 1 \notin J
    <2>1. J = I
      BY <1>0, <1>4
    <2> QED
      BY <1>2, <1>4, <2>1 DEF One
  <1> QED
    BY <1>3, <1>4

(* ... or taken away at the front.                                           *)
LEMMA MarkedTail ==
    ASSUME NEW n \in Nat \ {0}, NEW I \in SUBSET (1..n), NEW J \in SUBSET (1..(n - 1)),
           \A i \in 1..(n - 1) : i + 1 \in I <=> i \in J
    PROVE  Cardinality(J) = Cardinality(I) - One(1 \in I) /\ Cardinality(I) \in Nat
  <1> DEFINE R == I \ {1}
             move == [i \in R |-> i - 1]
  <1>1. IsFiniteSet(I)
    <2>1. IsFiniteSet(1..n)
      BY FS_Interval
    <2> QED
      BY <2>1, FS_Subset
  <1>2. Cardinality(I) \in Nat
    BY <1>1, FS_CardinalityType
  <1>3. move \in [R -> J]
    <2> SUFFICES ASSUME NEW i \in R PROVE i - 1 \in J
      OBVIOUS
    <2>1. i \in 2..n
      OBVIOUS
    <2>2. i - 1 \in 1..(n - 1) /\ (i - 1) + 1 = i
      BY <2>1
    <2> QED
      BY <2>2
  <1>4. \A i, j \in R : move[i] = move[j] => i = j
    OBVIOUS
  <1>5. \A j \in J : \E i \in R : move[i] = j
    <2> SUFFICES ASSUME NEW j \in J PROVE j + 1 \in R /\ move[j + 1] = j
      OBVIOUS
    <2> QED
      OBVIOUS
  <1>6. IsFiniteSet(R) /\ Cardinality(R) = IF 1 \in I THEN Cardinality(I) - 1 ELSE Cardinality(I)
    BY <1>1, FS_RemoveElement
  <1> HIDE DEF R, move
  <1>7. ExistsBijection(R, J)
    BY <1>3, <1>4, <1>5 DEF ExistsBijection, Bijection, Injection, Surjection, IsInjective
  <1>8. Cardinality(J) = Cardinality(R)
    BY <1>6, <1>7, FS_Bijection
  <1> QED
    BY <1>2, <1>6, <1>8 DEF One

-----------------------------------------------------------------------------
(* The sum over the workers: it does not grow with any of its terms, ...     *)
LEMMA TokensLess ==
    ASSUME NEW a, NEW b, IsFiniteSet(Tokens(a)),
           \A w \in Workers : a[w] \in Nat /\ b[w] \in Nat /\ b[w] <= a[w]
    PROVE  IsFiniteSet(Tokens(b)) /\ Cardinality(Tokens(b)) <= Cardinality(Tokens(a))
  <1>1. Tokens(b) \subseteq Tokens(a)
    BY DEF Tokens
  <1> QED
    BY <1>1, FS_Subset

(* ... grows by at most one with one of them, ...                            *)
LEMMA TokensMore ==
    ASSUME NEW a, NEW b, IsFiniteSet(Tokens(a)), NEW v,
           \A w \in Workers : a[w] \in Nat /\ b[w] \in Nat /\ b[w] <= a[w] + One(w = v)
    PROVE  IsFiniteSet(Tokens(b)) /\ Cardinality(Tokens(b)) <= Cardinality(Tokens(a)) + 1
  <1> DEFINE e == <<v, a[v] + 1>>
             C == Tokens(a) \cup {e}
  <1>1. Tokens(b) \subseteq C
    <2> SUFFICES ASSUME NEW w \in Workers, NEW k \in 1..b[w], <<w, k>> \notin Tokens(a)
                 PROVE  <<w, k>> = e
      BY DEF Tokens
    <2>1. k \notin 1..a[w]
      BY DEF Tokens
    <2>2. w = v /\ k = a[w] + 1
      BY <2>1 DEF One
    <2> QED
      BY <2>2
  <1>2. IsFiniteSet(C) /\ Cardinality(C) <= Cardinality(Tokens(a)) + 1 /\ Cardinality(C) \in Nat
        /\ Cardinality(Tokens(a)) \in Nat
    <2> HIDE DEF e
    <2> QED
      BY FS_AddElement, FS_CardinalityType
  <1> HIDE DEF C
  <1>3. IsFiniteSet(Tokens(b)) /\ Cardinality(Tokens(b)) <= Cardinality(C)
    BY <1>1, <1>2, FS_Subset
  <1> QED
    BY <1>2, <1>3, FS_CardinalityType

(* ... and falls by one with one of them.                                    *)
LEMMA TokensFall ==
    ASSUME NEW a, IsFiniteSet(Tokens(a)), NEW w \in Workers, DOMAIN a = Workers,
           \A u \in Workers : a[u] \in Nat, a[w] >= 1
    PROVE  LET b == [a EXCEPT ![w] = a[w] - 1]
           IN  /\ IsFiniteSet(Tokens(b)) /\ Cardinality(Tokens(b)) = Cardinality(Tokens(a)) - 1
               /\ \A u \in Workers : b[u] = a[u] - One(u = w) /\ b[u] \in Nat
  <1> DEFINE b == [a EXCEPT ![w] = a[w] - 1]
             e == <<w, a[w]>>
  <1>1. \A u \in Workers : b[u] = a[u] - One(u = w) /\ b[u] \in Nat
    BY DEF One
  <1> HIDE DEF b
  <1>2. Tokens(b) = Tokens(a) \ {e} /\ e \in Tokens(a)
    <2>1. ASSUME NEW u \in Workers, NEW k \in Nat
          PROVE  <<u, k>> \in Tokens(b) <=> <<u, k>> \in Tokens(a) \ {e}
      <3>1. <<u, k>> \in Tokens(b) <=> k \in 1..b[u]
        BY DEF Tokens
      <3>2. <<u, k>> \in Tokens(a) <=> k \in 1..a[u]
        BY DEF Tokens
      <3> QED
        BY <1>1, <3>1, <3>2 DEF One
    <2>2. Tokens(a) \subseteq Workers \X Nat /\ Tokens(b) \subseteq Workers \X Nat
      BY DEF Tokens
    <2>3. e \in Tokens(a)
      BY DEF Tokens
    <2> QED
      BY <2>1, <2>2, <2>3
  <1>3. IsFiniteSet(Tokens(b)) /\ Cardinality(Tokens(b)) = Cardinality(Tokens(a)) - 1
    <2> HIDE DEF e
    <2> QED
      BY <1>2, FS_RemoveElement
  <1> QED
    BY <1>1, <1>3 DEF b

-----------------------------------------------------------------------------
(* The messages of a queue that count, when one is appended, taken or when   *)
(* the end is lost.                                                          *)
LEMMA MineType ==
    ASSUME NEW s, IsSeq(s), NEW w
    PROVE  /\ Cardinality(MineIn(s, w)) \in Nat
           /\ Cardinality(ReportsIn(s)) \in Nat
           /\ IsFiniteSet(ReportsIn(s))
  <1>1. MineIn(s, w) \in SUBSET DOMAIN s /\ ReportsIn(s) \in SUBSET DOMAIN s
    BY DEF MineIn, ReportsIn
  <1>2. IsFiniteSet(DOMAIN s)
    BY SeqFacts
  <1> QED
    BY <1>1, <1>2, FS_Subset, FS_CardinalityType

LEMMA MineAppend ==
    ASSUME NEW s, IsSeq(s), NEW e, NEW w
    PROVE  /\ Cardinality(MineIn(Append(s, e), w)) = Cardinality(MineIn(s, w)) + One(e.identity = w)
           /\ Cardinality(ReportsIn(Append(s, e)))
                = Cardinality(ReportsIn(s)) + One(e.data # "core_count")
  <1> DEFINE t == Append(s, e)
             n == Len(s)
  <1>1. /\ n \in Nat /\ DOMAIN s = 1..n /\ DOMAIN t = 1..n \cup {n + 1}
        /\ \A i \in 1..n : t[i] = s[i]
        /\ t[n + 1] = e
    BY SeqFacts, SeqAppend
  <1>2. 1..n \cup {n + 1} = 1..(n + 1)
    BY <1>1
  <1> HIDE DEF t, n
  <1>3. /\ MineIn(s, w) \in SUBSET (1..n) /\ MineIn(t, w) \in SUBSET (1..(n + 1))
        /\ \A i \in 1..n : i \in MineIn(s, w) <=> i \in MineIn(t, w)
        /\ n + 1 \in MineIn(t, w) <=> e.identity = w
    BY <1>1, <1>2 DEF MineIn
  <1>4. /\ ReportsIn(s) \in SUBSET (1..n) /\ ReportsIn(t) \in SUBSET (1..(n + 1))
        /\ \A i \in 1..n : i \in ReportsIn(s) <=> i \in ReportsIn(t)
        /\ n + 1 \in ReportsIn(t) <=> e.data # "core_count"
    BY <1>1, <1>2 DEF ReportsIn
  <1>5. Cardinality(MineIn(t, w)) = Cardinality(MineIn(s, w)) + One(e.identity = w)
    BY <1>1, <1>3, MarkedAppend DEF One
  <1>6. Cardinality(ReportsIn(t)) = Cardinality(ReportsIn(s)) + One(e.data # "core_count")
    BY <1>1, <1>4, MarkedAppend DEF One
  <1> QED
    BY <1>5, <1>6 DEF t

LEMMA MineTail ==
    ASSUME NEW s, IsSeq(s), s # <<>>, NEW w
    PROVE  /\ Cardinality(MineIn(Tail(s), w))
                = Cardinality(MineIn(s, w)) - One(Head(s).identity = w)
           /\ Cardinality(ReportsIn(Tail(s)))
                = Cardinality(ReportsIn(s)) - One(Head(s).data # "core_count")
  <1> DEFINE t == Tail(s)
             n == Len(s)
             e == Head(s)
  <1>1. /\ n \in Nat \ {0} /\ DOMAIN s = 1..n /\ DOMAIN t = 1..(n - 1)
        /\ \A i \in 1..(n - 1) : t[i] = s[i + 1]
        /\ s[1] = e
    BY SeqFacts, SeqTail
  <1> HIDE DEF t, n, e
  <1>2. \A i \in 1..(n - 1) : i + 1 \in 1..n
    BY <1>1
  <1>3. /\ MineIn(s, w) \in SUBSET (1..n) /\ MineIn(t, w) \in SUBSET (1..(n - 1))
        /\ \A i \in 1..(n - 1) : i + 1 \in MineIn(s, w) <=> i \in MineIn(t, w)
        /\ 1 \in MineIn(s, w) <=> e.identity = w
    BY <1>1, <1>2 DEF MineIn
  <1>4. /\ ReportsIn(s) \in SUBSET (1..n) /\ ReportsIn(t) \in SUBSET (1..(n - 1))
        /\ \A i \in 1..(n - 1) : i + 1 \in ReportsIn(s) <=> i \in ReportsIn(t)
        /\ 1 \in ReportsIn(s) <=> e.data # "core_count"
    BY <1>1, <1>2 DEF ReportsIn
  <1>5. Cardinality(MineIn(t, w)) = Cardinality(MineIn(s, w)) - One(e.identity = w)
    <2> DEFINE I == MineIn(s, w)
               J == MineIn(t, w)
    <2>0. /\ n \in Nat \ {0} /\ I \in SUBSET (1..n) /\ J \in SUBSET (1..(n - 1))
          /\ \A i \in 1..(n - 1) : i + 1 \in I <=> i \in J
      BY <1>1, <1>3
    <2> HIDE DEF I, J
    <2>1. Cardinality(J) = Cardinality(I) - One(1 \in I)
      BY <2>0, MarkedTail
    <2> QED
      BY <1>3, <2>1 DEF One, I, J
  <1>6. Cardinality(ReportsIn(t)) = Cardinality(ReportsIn(s)) - One(e.data # "core_count")
    <2> DEFINE I == ReportsIn(s)
               J == ReportsIn(t)
    <2>0. /\ n \in Nat \ {0} /\ I \in SUBSET (1..n) /\ J \in SUBSET (1..(n - 1))
          /\ \A i \in 1..(n - 1) : i + 1 \in I <=> i \in J
      BY <1>1, <1>4
    <2> HIDE DEF I, J
    <2>1. Cardinality(J) = Cardinality(I) - One(1 \in I)
      BY <2>0, MarkedTail
    <2> QED
      BY <1>4, <2>1 DEF One, I, J
  <1> QED
    BY <1>5, <1>6 DEF t, e

LEMMA ReportsPrefix ==
    ASSUME NEW s, IsSeq(s), NEW n \in 0..Len(s)
    PROVE  Cardinality(ReportsIn(SubSeq(s, 1, n))) <= Cardinality(ReportsIn(s))
  <1> DEFINE t == SubSeq(s, 1, n)
  <1>1. DOMAIN t = 1..n /\ \A i \in 1..n : t[i] = s[i]
    BY SeqPrefix
  <1>2. Len(s) \in Nat /\ DOMAIN s = 1..Len(s)
    BY SeqFacts
  <1> HIDE DEF t
  <1>3. ReportsIn(t) \in SUBSET ReportsIn(s)
    BY <1>1, <1>2 DEF ReportsIn
  <1>4. Cardinality(ReportsIn(t)) <= Cardinality(ReportsIn(s))
    BY <1>3, MineType, FS_Subset
  <1> QED
    BY <1>4 DEF t

-----------------------------------------------------------------------------
(* The terms of Share are numbers. *)
LEMMA ShareType ==
    ASSUME QueuesSound, NEW w \in Workers
    PROVE  /\ Cardinality(MineIn(pub[w], w)) \in Nat /\ Len(tasks[w]) \in Nat
           /\ IsFiniteSet(Busy(w)) /\ Cardinality(Busy(w)) \in Nat
           /\ Len(finished[w]) \in Nat /\ Cardinality(ReportsIn(dealer[w])) \in Nat
           /\ Share(w) \in Nat
  <1>1. CoreCount[w] \in Nat
    BY WorkerSocketsAssumption
  <1>2. IsFiniteSet(Threads(w))
    BY <1>1, FS_Interval DEF Threads
  <1>3. Busy(w) \in SUBSET Threads(w)
    BY DEF Busy
  <1>4. IsFiniteSet(Busy(w)) /\ Cardinality(Busy(w)) \in Nat
    BY <1>2, <1>3, FS_Subset, FS_CardinalityType
  <1>5. /\ Cardinality(MineIn(pub[w], w)) \in Nat /\ Cardinality(ReportsIn(dealer[w])) \in Nat
        /\ Len(tasks[w]) \in Nat /\ Len(finished[w]) \in Nat
    BY MineType, SeqFacts DEF QueuesSound
  <1>6. \A a, b, c, d, f \in Nat : a + b + c + d + f \in Nat
    OBVIOUS
  <1>7. Share(w) \in Nat
    BY <1>4, <1>5, <1>6 DEF Share
  <1> QED
    BY <1>4, <1>5, <1>7

(* A thread begins to work on a task, goes on or is through with it. *)
LEMMA BusyStep ==
    ASSUME NEW w \in Workers, NEW k \in Threads(w), NEW e,
           DOMAIN thread = Workers, DOMAIN thread[w] = Threads(w), IsFiniteSet(Busy(w)),
           thread' = [thread EXCEPT ![w][k] = e]
    PROVE  /\ DOMAIN thread' = Workers /\ DOMAIN thread'[w] = Threads(w)
           /\ \A v \in Workers : v # w => thread'[v] = thread[v]
           /\ Cardinality(Busy(w)') = Cardinality(Busy(w)) - One(k \in Busy(w))
                                        + One(e.pc \in {"calculate", "write", "push"})
  <1> DEFINE B == Busy(w)
             C == B \ {k}
             N == {j \in Threads(w) : thread'[w][j].pc \in {"calculate", "write", "push"}}
  <1>1. /\ DOMAIN thread' = Workers /\ DOMAIN thread'[w] = Threads(w)
        /\ \A v \in Workers : v # w => thread'[v] = thread[v]
        /\ thread'[w][k] = e
        /\ \A j \in Threads(w) : j # k => thread'[w][j] = thread[w][j]
    OBVIOUS
  <1>2. Busy(w)' = N
    BY DEF Busy, Threads
  <1>3. IsFiniteSet(C) /\ Cardinality(C) = Cardinality(B) - One(k \in B) /\ Cardinality(B) \in Nat
    BY FS_RemoveElement, FS_CardinalityType DEF One
  <1>4. CASE e.pc \in {"calculate", "write", "push"}
    <2>1. N = C \cup {k} /\ k \notin C
      BY <1>1, <1>4 DEF Busy
    <2> HIDE DEF N, C, B
    <2>2. Cardinality(N) = Cardinality(C) + 1
      BY <1>3, <2>1, FS_AddElement
    <2> QED
      BY <1>1, <1>2, <1>3, <1>4, <2>2 DEF One, B
  <1>5. CASE e.pc \notin {"calculate", "write", "push"}
    <2>1. N = C
      BY <1>1, <1>5 DEF Busy
    <2> HIDE DEF N, C, B
    <2> QED
      BY <1>1, <1>2, <1>3, <1>5, <2>1 DEF One, B
  <1> QED
    BY <1>4, <1>5

-----------------------------------------------------------------------------
(* The rest of the pool when worker w moves. *)
OnlyOf(w, f, g) == DOMAIN g = DOMAIN f /\ \A v \in DOMAIN f : v # w => g[v] = f[v]

Elsewhere == UNCHANGED <<taskPipe, replyPipe, taskQueue, sending>>

LEMMA OneWorker ==
    ASSUME QueuesSound, Elsewhere, NEW w \in Workers,
           OnlyOf(w, pub, pub'), OnlyOf(w, tasks, tasks'), OnlyOf(w, thread, thread'),
           OnlyOf(w, finished, finished'), OnlyOf(w, dealer, dealer'),
           IsSeq(pub'[w]), IsSeq(tasks'[w]), IsSeq(finished'[w]), IsSeq(dealer'[w]),
           DOMAIN thread'[w] = Threads(w), Share(w)' <= Share(w)
    PROVE  QueuesSound' /\ \A v \in Workers : Share(v)' <= Share(v)
  <1>1. QueuesSound'
    BY DEF QueuesSound, Elsewhere, OnlyOf, Threads
  <1>2. ASSUME NEW v \in Workers, v # w
        PROVE  Share(v)' <= Share(v)
    <2>1. /\ pub'[v] = pub[v] /\ tasks'[v] = tasks[v] /\ thread'[v] = thread[v]
          /\ finished'[v] = finished[v] /\ dealer'[v] = dealer[v]
      BY <1>2 DEF QueuesSound, OnlyOf
    <2>2. Share(v)' = Share(v)
      BY <2>1 DEF Share, Busy, Threads
    <2> QED
      BY <2>2, ShareType
  <1> QED
    BY <1>1, <1>2

(* A worker passes a task on from one of its places to the next, or loses    *)
(* what it has; it never makes one.                                          *)
LEMMA WorkerShares ==
    ASSUME QueuesSound, Elsewhere, NEW w \in Workers, WorkerNext(w)
    PROVE  QueuesSound' /\ \A v \in Workers : Share(v)' <= Share(v)
  <1> DEFINE Goal == QueuesSound' /\ \A v \in Workers : Share(v)' <= Share(v)
             a == Cardinality(MineIn(pub[w], w))
             b == Len(tasks[w])
             c == Cardinality(Busy(w))
             d == Len(finished[w])
             e == Cardinality(ReportsIn(dealer[w]))
             a2 == Cardinality(MineIn(pub'[w], w))
             b2 == Len(tasks'[w])
             c2 == Cardinality(Busy(w)')
             d2 == Len(finished'[w])
             e2 == Cardinality(ReportsIn(dealer'[w]))
  <1>s. Share(w) = a + b + c + d + e /\ Share(w)' = a2 + b2 + c2 + d2 + e2
    BY DEF Share
  <1>0. /\ a \in Nat /\ b \in Nat /\ c \in Nat /\ d \in Nat /\ e \in Nat /\ IsFiniteSet(Busy(w))
        /\ Share(w) \in Nat
    BY ShareType
  <1>d. /\ DOMAIN pub = Workers /\ DOMAIN tasks = Workers /\ DOMAIN thread = Workers
        /\ DOMAIN finished = Workers /\ DOMAIN dealer = Workers
        /\ IsSeq(pub[w]) /\ IsSeq(tasks[w]) /\ IsSeq(finished[w]) /\ IsSeq(dealer[w])
        /\ DOMAIN thread[w] = Threads(w)
    BY DEF QueuesSound
  <1>1. ASSUME UNCHANGED <<pub, dealer, tasks, thread, finished>>
        PROVE  Goal
    <2>1. \A v \in Workers : Share(v)' = Share(v)
      BY <1>1 DEF Share, Busy, Threads
    <2>2. QueuesSound'
      BY <1>1 DEF QueuesSound, Elsewhere, Threads
    <2> QED
      BY <2>1, <2>2, ShareType
  <1>2. CASE SendAckMessage(w)
    <2> DEFINE message == [data |-> "core_count", core_count |-> CoreCount[w] - 1]
    <2>1. UNCHANGED <<pub, tasks, thread, finished>> /\ dealer' = [dealer EXCEPT ![w] = Append(@, message)]
      BY <1>2 DEF SendAckMessage
    <2>2. dealer'[w] = Append(dealer[w], message) /\ OnlyOf(w, dealer, dealer')
      BY <2>1, <1>d DEF OnlyOf
    <2>3. message.data = "core_count"
      OBVIOUS
    <2> HIDE DEF message
    <2>4. e2 = e + One(message.data # "core_count") /\ IsSeq(dealer'[w])
      BY <1>d, <2>2, MineAppend, SeqAppend
    <2>5. a2 = a /\ b2 = b /\ c2 = c /\ d2 = d
      BY <2>1 DEF Busy, Threads
    <2>6. Share(w)' <= Share(w)
      <3> HIDE DEF a, b, c, d, e, a2, b2, c2, d2, e2
      <3> QED
        BY <1>0, <1>s, <2>3, <2>4, <2>5 DEF One
    <2>7. /\ OnlyOf(w, pub, pub') /\ OnlyOf(w, tasks, tasks') /\ OnlyOf(w, thread, thread')
          /\ OnlyOf(w, finished, finished')
      BY <2>1 DEF OnlyOf
    <2> QED
      BY <1>d, <2>1, <2>2, <2>4, <2>6, <2>7, OneWorker
  <1>3. CASE ReadRequest(w)
    <2> DEFINE task == Head(pub[w])
    <2>1. /\ UNCHANGED <<dealer, thread, finished>> /\ pub[w] # <<>>
          /\ pub' = [pub EXCEPT ![w] = Tail(@)]
          /\ \/ task.identity = w /\ tasks' = [tasks EXCEPT ![w] = Append(@, task)]
             \/ task.identity # w /\ UNCHANGED tasks
      BY <1>3 DEF ReadRequest
    <2>2. pub'[w] = Tail(pub[w]) /\ OnlyOf(w, pub, pub')
      BY <2>1, <1>d DEF OnlyOf
    <2>3. a2 = a - One(task.identity = w) /\ IsSeq(pub'[w])
      BY <1>d, <2>1, <2>2, MineTail, SeqTail
    <2>4. /\ IsSeq(tasks'[w]) /\ OnlyOf(w, tasks, tasks')
          /\ b2 = b + One(task.identity = w)
      <3>1. CASE task.identity = w /\ tasks' = [tasks EXCEPT ![w] = Append(@, task)]
        <4>1. tasks'[w] = Append(tasks[w], task) /\ OnlyOf(w, tasks, tasks')
          BY <3>1, <1>d DEF OnlyOf
        <4> QED
          BY <1>d, <3>1, <4>1, SeqAppend DEF One
      <3>2. CASE task.identity # w /\ UNCHANGED tasks
        BY <1>0, <1>d, <3>2 DEF One, OnlyOf
      <3> QED
        BY <2>1, <3>1, <3>2
    <2>5. c2 = c /\ d2 = d /\ e2 = e
      BY <2>1 DEF Busy, Threads
    <2>6. Share(w)' <= Share(w)
      <3> HIDE DEF task, a, b, c, d, e, a2, b2, c2, d2, e2
      <3> QED
        BY <1>0, <1>s, <2>3, <2>4, <2>5 DEF One
    <2>7. OnlyOf(w, dealer, dealer') /\ OnlyOf(w, thread, thread') /\ OnlyOf(w, finished, finished')
      BY <2>1 DEF OnlyOf
    <2> QED
      BY <1>d, <2>1, <2>2, <2>3, <2>4, <2>6, <2>7, OneWorker
  <1>6. ASSUME NEW k \in Threads(w), NEW f, UNCHANGED <<pub, dealer, tasks, finished>>,
               thread' = [thread EXCEPT ![w][k] = f],
               f.pc \in {"calculate", "write", "push"} => k \in Busy(w)
        PROVE  Goal
    <2> HIDE DEF Goal
    <2>1. /\ OnlyOf(w, thread, thread') /\ DOMAIN thread'[w] = Threads(w)
          /\ c2 = c - One(k \in Busy(w)) + One(f.pc \in {"calculate", "write", "push"})
      BY <1>0, <1>d, <1>6, BusyStep DEF OnlyOf
    <2>2. a2 = a /\ b2 = b /\ d2 = d /\ e2 = e
      BY <1>6
    <2>3. Share(w)' <= Share(w)
      <3> HIDE DEF a, b, c, d, e, a2, b2, c2, d2, e2
      <3> QED
        BY <1>0, <1>s, <1>6, <2>1, <2>2 DEF One
    <2>4. /\ OnlyOf(w, pub, pub') /\ OnlyOf(w, tasks, tasks') /\ OnlyOf(w, dealer, dealer')
          /\ OnlyOf(w, finished, finished')
      BY <1>6 DEF OnlyOf
    <2> QED
      BY <1>d, <1>6, <2>1, <2>3, <2>4, OneWorker DEF Goal
  <1>4. CASE NotifyOne(w)
    <2>1. UNCHANGED <<pub, dealer, tasks, finished>>
      BY <1>4 DEF NotifyOne, socketVars
    <2>2. CASE UNCHANGED thread
      BY <1>1, <2>1, <2>2
    <2>3. ASSUME NEW k \in Sleeping(w), thread' = [thread EXCEPT ![w][k] = Idle]
          PROVE  Goal
      <3>1. k \in Threads(w) /\ k \notin Busy(w)
        BY DEF Sleeping, Asleep, Busy
      <3>2. Idle.pc = "idle"
        BY DEF Idle
      <3> QED
        BY <1>6, <2>1, <2>3, <3>1, <3>2
    <2> QED
      BY <1>4, <2>2, <2>3 DEF NotifyOne
  <1>5. CASE CheckOutputQueue(w)
    <2>1. UNCHANGED <<pub, tasks, thread>>
      BY <1>5 DEF CheckOutputQueue
    <2>2. CASE UNCHANGED <<finished, dealer>>
      BY <1>1, <2>1, <2>2
    <2>3. CASE /\ finished[w] # <<>>
               /\ dealer' = [dealer EXCEPT ![w] = Append(@,
                               [data |-> "task_id", task_id |-> Head(finished[w])])]
               /\ finished' = [finished EXCEPT ![w] = Tail(@)]
      <3> DEFINE message == [data |-> "task_id", task_id |-> Head(finished[w])]
      <3>1. message.data # "core_count"
        OBVIOUS
      <3>2. /\ dealer'[w] = Append(dealer[w], message) /\ OnlyOf(w, dealer, dealer')
            /\ finished'[w] = Tail(finished[w]) /\ OnlyOf(w, finished, finished')
        BY <1>d, <2>3 DEF OnlyOf
      <3> HIDE DEF message
      <3>3. IsSeq(dealer'[w]) /\ e2 = e + One(message.data # "core_count")
        <4>0. \A x : Cardinality(ReportsIn(Append(dealer[w], x))) = e + One(x.data # "core_count")
          BY <1>d, MineAppend
        <4>1. e2 = e + One(message.data # "core_count")
          BY <3>2, <4>0
        <4>2. IsSeq(dealer'[w])
          BY <1>d, <3>2, SeqAppend
        <4> QED
          BY <4>1, <4>2
      <3>4. IsSeq(finished'[w]) /\ d2 = d - 1
        BY <1>d, <2>3, <3>2, SeqTail
      <3>5. a2 = a /\ b2 = b /\ c2 = c
        BY <2>1 DEF Busy, Threads
      <3>6. Share(w)' <= Share(w)
        <4> HIDE DEF a, b, c, d, e, a2, b2, c2, d2, e2
        <4> QED
          BY <1>0, <1>s, <3>1, <3>3, <3>4, <3>5 DEF One
      <3>7. OnlyOf(w, pub, pub') /\ OnlyOf(w, tasks, tasks') /\ OnlyOf(w, thread, thread')
        BY <2>1 DEF OnlyOf
      <3> QED
        BY <1>d, <2>1, <3>2, <3>3, <3>4, <3>6, <3>7, OneWorker
    <2> QED
      BY <1>5, <2>2, <2>3 DEF CheckOutputQueue
  <1>7. ASSUME NEW k \in Threads(w), TakeTask(w, k)
        PROVE  Goal
    <2>1. UNCHANGED <<pub, dealer, finished>> /\ thread[w][k] = Idle
      BY <1>7 DEF TakeTask, socketVars
    <2>2. k \notin Busy(w)
      BY <2>1 DEF Idle, Busy
    <2>3. CASE thread' = [thread EXCEPT ![w][k] = Asleep] /\ UNCHANGED tasks
      <3>1. Asleep.pc = "asleep"
        BY DEF Asleep
      <3> QED
        BY <1>6, <2>1, <2>3, <3>1
    <2>4. ASSUME tasks[w] # <<>>, NEW f, f.pc = "calculate",
                 thread' = [thread EXCEPT ![w][k] = f],
                 tasks' = [tasks EXCEPT ![w] = Tail(@)]
          PROVE  Goal
      <3> HIDE DEF Goal
      <3>1. /\ OnlyOf(w, thread, thread') /\ DOMAIN thread'[w] = Threads(w)
            /\ c2 = c - One(k \in Busy(w)) + One(f.pc \in {"calculate", "write", "push"})
        BY <1>0, <1>d, <2>4, BusyStep DEF OnlyOf
      <3>2. tasks'[w] = Tail(tasks[w]) /\ OnlyOf(w, tasks, tasks')
        BY <1>d, <2>4 DEF OnlyOf
      <3>3. IsSeq(tasks'[w]) /\ b2 = b - 1
        BY <1>d, <2>4, <3>2, SeqTail
      <3>4. a2 = a /\ d2 = d /\ e2 = e
        BY <2>1
      <3>5. Share(w)' <= Share(w)
        <4> HIDE DEF a, b, c, d, e, a2, b2, c2, d2, e2
        <4> QED
          BY <1>0, <1>s, <2>2, <2>4, <3>1, <3>3, <3>4 DEF One
      <3>6. OnlyOf(w, pub, pub') /\ OnlyOf(w, dealer, dealer') /\ OnlyOf(w, finished, finished')
        BY <2>1 DEF OnlyOf
      <3> QED
        BY <1>d, <2>1, <3>1, <3>2, <3>3, <3>5, <3>6, OneWorker DEF Goal
    <2>5. [pc |-> "calculate", task |-> Head(tasks[w])].pc = "calculate"
      OBVIOUS
    <2> QED
      BY <1>7, <2>3, <2>4, <2>5 DEF TakeTask
  <1>8. ASSUME NEW k \in Threads(w), SpuriousWakeup(w, k)
        PROVE  Goal
    <2>1. Idle.pc = "idle"
      BY DEF Idle
    <2> QED
      BY <1>6, <1>8, <2>1 DEF SpuriousWakeup, socketVars
  <1>9. ASSUME Terminate(w)
        PROVE  Goal
    <2>1. PICK n \in 0..Len(dealer[w]) : dealer' = [dealer EXCEPT ![w] = SubSeq(@, 1, n)]
      BY <1>9 DEF Terminate
    <2>2. /\ tasks' = [tasks EXCEPT ![w] = <<>>] /\ finished' = [finished EXCEPT ![w] = <<>>]
          /\ pub' = [pub EXCEPT ![w] = <<>>]
          /\ thread' = [thread EXCEPT ![w] = [k \in Threads(w) |-> Idle]]
      BY <1>9 DEF Terminate
    <2>3. /\ tasks'[w] = <<>> /\ finished'[w] = <<>> /\ pub'[w] = <<>>
          /\ thread'[w] = [k \in Threads(w) |-> Idle]
          /\ dealer'[w] = SubSeq(dealer[w], 1, n)
          /\ OnlyOf(w, tasks, tasks') /\ OnlyOf(w, finished, finished')
          /\ OnlyOf(w, pub, pub') /\ OnlyOf(w, thread, thread') /\ OnlyOf(w, dealer, dealer')
      BY <1>d, <2>1, <2>2 DEF OnlyOf
    <2>4. Busy(w)' = {} /\ DOMAIN thread'[w] = Threads(w)
      BY <2>3 DEF Busy, Idle, Threads
    <2>5. MineIn(<<>>, w) = {}
      BY DEF MineIn
    <2>6. a2 = 0 /\ b2 = 0 /\ c2 = 0 /\ d2 = 0
      BY <2>3, <2>4, <2>5, FS_EmptySet, SeqEmpty
    <2>7. e2 <= e /\ IsSeq(dealer'[w])
      BY <1>d, <2>3, ReportsPrefix, SeqPrefix
    <2>8. e2 \in Nat
      BY <2>7, MineType
    <2>9. Share(w)' <= Share(w)
      <3> HIDE DEF a, b, c, d, e, a2, b2, c2, d2, e2
      <3> QED
        BY <1>0, <1>s, <2>6, <2>7, <2>8
    <2> HIDE DEF Goal
    <2> QED
      BY <2>3, <2>4, <2>7, <2>9, OneWorker, SeqEmpty DEF Goal
  <1>10. ASSUME NEW k \in Threads(w), CalculateTask(w, k)
         PROVE  Goal
    <2>1. k \in Busy(w)
      BY <1>10 DEF CalculateTask, Busy
    <2>2. CASE Terminate(w)
      BY <1>9, <2>2
    <2>3. ASSUME ~Terminate(w) PROVE Goal
      <3>1. PICK value : thread' = [thread EXCEPT ![w][k] =
                                       [pc |-> "write", task |-> @.task, result |-> value]]
        BY <1>10, <2>3 DEF CalculateTask
      <3>2. UNCHANGED <<pub, dealer, tasks, finished>>
        BY <1>10, <2>3 DEF CalculateTask, socketVars
      <3>3. PICK f : thread' = [thread EXCEPT ![w][k] = f]
        BY <3>1
      <3> QED
        BY <1>6, <2>1, <3>2, <3>3
    <2> QED
      BY <2>2, <2>3
  <1>11. ASSUME NEW k \in Threads(w), WriteResult(w, k)
         PROVE  Goal
    <2>1. k \in Busy(w)
      BY <1>11 DEF WriteResult, Busy
    <2>2. PICK f : thread' = [thread EXCEPT ![w][k] = f]
      BY <1>11 DEF WriteResult
    <2>3. UNCHANGED <<pub, dealer, tasks, finished>>
      BY <1>11 DEF WriteResult, socketVars
    <2> QED
      BY <1>6, <2>1, <2>2, <2>3
  <1>12. ASSUME NEW k \in Threads(w), PushFinished(w, k)
         PROVE  Goal
    <2>1. k \in Busy(w)
      BY <1>12 DEF PushFinished, Busy
    <2>2. /\ UNCHANGED <<pub, dealer, tasks>>
          /\ thread' = [thread EXCEPT ![w][k] = Idle]
      BY <1>12 DEF PushFinished, socketVars
    <2>3. PICK answer : finished' = [finished EXCEPT ![w] = Append(@, answer)]
      BY <1>12 DEF PushFinished
    <2>4. Idle.pc = "idle"
      BY DEF Idle
    <2>5. /\ OnlyOf(w, thread, thread') /\ DOMAIN thread'[w] = Threads(w)
          /\ c2 = c - One(k \in Busy(w)) + One(Idle.pc \in {"calculate", "write", "push"})
      BY <1>0, <1>d, <2>2, BusyStep DEF OnlyOf
    <2>6. finished'[w] = Append(finished[w], answer) /\ OnlyOf(w, finished, finished')
      BY <1>d, <2>3 DEF OnlyOf
    <2>7. IsSeq(finished'[w]) /\ d2 = d + 1
      BY <1>d, <2>6, SeqAppend
    <2>8. a2 = a /\ b2 = b /\ e2 = e
      BY <2>2
    <2>9. Share(w)' <= Share(w)
      <3> HIDE DEF a, b, c, d, e, a2, b2, c2, d2, e2
      <3> QED
        BY <1>0, <1>s, <2>1, <2>4, <2>5, <2>7, <2>8 DEF One
    <2>10. OnlyOf(w, pub, pub') /\ OnlyOf(w, dealer, dealer') /\ OnlyOf(w, tasks, tasks')
      BY <2>2 DEF OnlyOf
    <2> HIDE DEF Goal
    <2> QED
      BY <1>d, <2>2, <2>5, <2>6, <2>7, <2>9, <2>10, OneWorker DEF Goal
  <1>13. CASE Subscribe(w) \/ NothingToRead(w)
    BY <1>1, <1>13 DEF Subscribe, NothingToRead, socketVars, workerVars
  <1> QED
    BY <1>2, <1>3, <1>4, <1>5, <1>7, <1>8, <1>10, <1>11, <1>12, <1>13
       DEF WorkerNext, MainStep, ThreadStep

-----------------------------------------------------------------------------
(* A published task is given to at most one worker, the one it names. *)
LEMMA PublishMine ==
    ASSUME QueuesSound, NEW v, NEW task, Publish([identity |-> v, task |-> task])
    PROVE  /\ DOMAIN pub' = Workers
           /\ \A w \in Workers :
                /\ IsSeq(pub'[w])
                /\ Cardinality(MineIn(pub'[w], w)) <= Cardinality(MineIn(pub[w], w)) + One(w = v)
  <1>1. PICK e : e = [identity |-> v, task |-> task]
    OBVIOUS
  <1>2. e.identity = v
    BY <1>1
  <1>3. /\ DOMAIN pub' = Workers
        /\ \A w \in Workers : pub'[w] = pub[w] \/ pub'[w] = Append(pub[w], e)
    BY <1>1 DEF Publish
  <1>4. ASSUME NEW w \in Workers
        PROVE  /\ IsSeq(pub'[w])
               /\ Cardinality(MineIn(pub'[w], w)) <= Cardinality(MineIn(pub[w], w)) + One(w = v)
    <2>1. IsSeq(pub[w]) /\ Cardinality(MineIn(pub[w], w)) \in Nat
      BY MineType DEF QueuesSound
    <2>2. CASE pub'[w] = pub[w]
      BY <2>1, <2>2 DEF One
    <2>3. CASE pub'[w] = Append(pub[w], e)
      <3>1. Cardinality(MineIn(pub'[w], w)) = Cardinality(MineIn(pub[w], w)) + One(e.identity = w)
        BY <2>1, <2>3, MineAppend
      <3>2. IsSeq(pub'[w])
        BY <2>1, <2>3, SeqAppend
      <3> QED
        BY <1>2, <2>1, <3>1, <3>2 DEF One
    <2> QED
      BY <1>3, <2>2, <2>3
  <1> QED
    BY <1>3, <1>4

Shares == [w \in Workers |-> Share(w)]

LEMMA SharesType ==
    ASSUME QueuesSound
    PROVE  /\ Spread = Tokens(Shares) /\ DOMAIN Shares = Workers
           /\ \A w \in Workers : Shares[w] = Share(w) /\ Shares[w] \in Nat
  BY ShareType DEF Spread, Shares

LEMMA SharesAreNumbers == QueuesSound => \A u \in Workers : Share(u) \in Nat
  BY ShareType

LEMMA NextSharesAreNumbers == QueuesSound' => (\A u \in Workers : Share(u) \in Nat)'
  BY SharesAreNumbers, PTL

(* The tasks outside the manager. *)
Pooled == Len(taskPipe) + Len(taskQueue) + Cardinality(Spread) + Len(sending) + Len(replyPipe)

Conserves == QueuesSound' /\ IsFiniteSet(Spread') /\ Pooled' <= Pooled

(* The lengths in Pooled are numbers. *)
LEMMA PooledType ==
    ASSUME QueuesSound, IsFiniteSet(Spread)
    PROVE  /\ Len(taskPipe) \in Nat /\ Len(taskQueue) \in Nat /\ Cardinality(Spread) \in Nat
           /\ Len(sending) \in Nat /\ Len(replyPipe) \in Nat
  BY SeqFacts, FS_CardinalityType DEF QueuesSound

LEMMA PooledNumber == QueuesSound /\ IsFiniteSet(Spread) => Pooled \in Nat
  BY PooledType DEF Pooled

LEMMA NextPooledNumber == (QueuesSound /\ IsFiniteSet(Spread) => Pooled \in Nat)'
  BY PooledNumber, PTL

(* A step of a worker. *)
LEMMA WorkerConserves ==
    ASSUME QueuesSound, IsFiniteSet(Spread), Elsewhere, NEW w \in Workers, WorkerNext(w)
    PROVE  Conserves
  <1>1. QueuesSound' /\ \A v \in Workers : Share(v)' <= Share(v)
    BY WorkerShares
  <1>2. /\ Spread' = Tokens(Shares')
        /\ \A v \in Workers : Shares'[v] = Share(v)' /\ Shares'[v] \in Nat
    <2>1. (\A u \in Workers : Share(u) \in Nat)'
      BY <1>1, NextSharesAreNumbers
    <2> QED
      BY <2>1 DEF Spread, Shares
  <1>3. /\ Spread = Tokens(Shares)
        /\ \A v \in Workers : Shares[v] = Share(v) /\ Shares[v] \in Nat
    BY SharesType
  <1>4. IsFiniteSet(Spread') /\ Cardinality(Spread') <= Cardinality(Spread)
    BY <1>1, <1>2, <1>3, TokensLess
  <1>5. Cardinality(Spread') \in Nat
    BY <1>4, FS_CardinalityType
  <1> QED
    BY <1>1, <1>4, <1>5, PooledType DEF Conserves, Pooled, Elsewhere

(* The broker gives a task to a worker, from a state in which the shares     *)
(* were those of before.                                                     *)
LEMMA PublishSpread ==
    ASSUME QueuesSound, NEW v, NEW task, Publish([identity |-> v, task |-> task]),
           UNCHANGED <<tasks, thread, finished>>,
           NEW before, IsFiniteSet(Tokens(before)),
           DOMAIN dealer' = Workers, \A u \in Workers : IsSeq(dealer'[u]),
           \A u \in Workers :
             /\ before[u] \in Nat
             /\ before[u] = Share(u) - Cardinality(ReportsIn(dealer[u]))
                              + Cardinality(ReportsIn(dealer'[u])),
           IsSeq(taskPipe'), IsSeq(replyPipe'), IsSeq(taskQueue'), IsSeq(sending')
    PROVE  /\ QueuesSound' /\ IsFiniteSet(Spread')
           /\ Cardinality(Spread') <= Cardinality(Tokens(before)) + 1
  <1>1. /\ DOMAIN pub' = Workers
        /\ \A w \in Workers :
             /\ IsSeq(pub'[w])
             /\ Cardinality(MineIn(pub'[w], w)) <= Cardinality(MineIn(pub[w], w)) + One(w = v)
    BY PublishMine
  <1>2. QueuesSound'
    BY <1>1 DEF QueuesSound, Threads
  <1>3. (\A u \in Workers : Share(u) \in Nat)'
    BY <1>2, NextSharesAreNumbers
  <1>4. ASSUME NEW u \in Workers
        PROVE  Shares'[u] = Share(u)' /\ Share(u)' <= before[u] + One(u = v)
    <2> DEFINE a == Cardinality(MineIn(pub[u], u))
               b == Len(tasks[u])
               c == Cardinality(Busy(u))
               d == Len(finished[u])
               e == Cardinality(ReportsIn(dealer[u]))
               a2 == Cardinality(MineIn(pub'[u], u))
               e2 == Cardinality(ReportsIn(dealer'[u]))
    <2>1. Busy(u)' = Busy(u)
      BY DEF Busy, Threads
    <2>2. Share(u) = a + b + c + d + e /\ Share(u)' = a2 + b + c + d + e2
      BY <2>1 DEF Share
    <2>3. a \in Nat /\ b \in Nat /\ c \in Nat /\ d \in Nat /\ e \in Nat
      BY ShareType
    <2>4. a2 \in Nat /\ e2 \in Nat /\ a2 <= a + One(u = v)
      BY <1>1, MineType
    <2>5. before[u] = Share(u) - e + e2
      OBVIOUS
    <2>6. Shares'[u] = Share(u)'
      BY DEF Shares
    <2> HIDE DEF a, b, c, d, e, a2, e2
    <2> QED
      BY <2>2, <2>3, <2>4, <2>5, <2>6 DEF One
  <1>5. Spread' = Tokens(Shares')
    BY DEF Spread, Shares
  <1>6. \A u \in Workers : /\ before[u] \in Nat /\ Shares'[u] \in Nat
                            /\ Shares'[u] <= before[u] + One(u = v)
    BY <1>3, <1>4
  <1> QED
    BY <1>2, <1>5, <1>6, TokensMore

(* The same shares before and after. *)
LEMMA SameSpread ==
    ASSUME QueuesSound, IsFiniteSet(Spread), UNCHANGED <<pub, tasks, thread, finished>>,
           DOMAIN dealer' = Workers,
           \A u \in Workers :
             IsSeq(dealer'[u])
               /\ Cardinality(ReportsIn(dealer'[u])) = Cardinality(ReportsIn(dealer[u])),
           IsSeq(taskPipe'), IsSeq(replyPipe'), IsSeq(taskQueue'), IsSeq(sending')
    PROVE  QueuesSound' /\ IsFiniteSet(Spread') /\ Cardinality(Spread') = Cardinality(Spread)
  <1>1. QueuesSound'
    BY DEF QueuesSound, Threads
  <1>2. \A u \in Workers : Share(u)' = Share(u)
    BY DEF Share, Busy, Threads
  <1>3. Spread' = Spread
    BY <1>2 DEF Spread
  <1> QED
    BY <1>1, <1>3

(* A task of the manager is queued or published. *)
LEMMA ReceiveManagerConserves ==
    ASSUME QueuesSound, IsFiniteSet(Spread), ReceiveManagerRequest, UNCHANGED workerVars
    PROVE  Conserves
  <1>1. /\ taskPipe # <<>> /\ taskPipe' = Tail(taskPipe)
        /\ UNCHANGED <<sending, replyPipe, dealer, tasks, thread, finished>>
    BY DEF ReceiveManagerRequest, workerVars
  <1>2. /\ IsSeq(taskPipe') /\ Len(taskPipe') = Len(taskPipe) - 1
        /\ IsSeq(sending') /\ IsSeq(replyPipe')
    BY <1>1, SeqTail DEF QueuesSound
  <1>3. DOMAIN dealer' = Workers /\ \A u \in Workers : IsSeq(dealer'[u])
    BY <1>1 DEF QueuesSound
  <1>4. /\ Len(taskPipe) \in Nat /\ Len(taskQueue) \in Nat /\ Cardinality(Spread) \in Nat
        /\ Len(sending) \in Nat /\ Len(replyPipe) \in Nat
    BY PooledType
  <1>5. CASE taskQueue' = Append(taskQueue, Head(taskPipe)) /\ UNCHANGED pub
    <2>1. IsSeq(taskQueue') /\ Len(taskQueue') = Len(taskQueue) + 1
      BY <1>5, SeqAppend DEF QueuesSound
    <2>2. QueuesSound' /\ IsFiniteSet(Spread') /\ Cardinality(Spread') = Cardinality(Spread)
      BY <1>1, <1>2, <1>3, <1>5, <2>1, SameSpread
    <2> QED
      BY <1>1, <1>2, <1>4, <2>1, <2>2 DEF Conserves, Pooled
  <1>6. ASSUME NEW w, Publish([identity |-> w, task |-> Head(taskPipe)]), UNCHANGED taskQueue
        PROVE  Conserves
    <2>1. IsSeq(taskQueue')
      BY <1>6 DEF QueuesSound
    <2>2. Spread = Tokens(Shares) /\ \A u \in Workers : Shares[u] = Share(u) /\ Shares[u] \in Nat
      BY SharesType
    <2>3. \A u \in Workers :
             Shares[u] = Share(u) - Cardinality(ReportsIn(dealer[u]))
                           + Cardinality(ReportsIn(dealer'[u]))
      BY <1>1, <2>2, ShareType
    <2>4. /\ QueuesSound' /\ IsFiniteSet(Spread')
          /\ Cardinality(Spread') <= Cardinality(Spread) + 1
      BY <1>1, <1>2, <1>3, <1>6, <2>1, <2>2, <2>3, PublishSpread
    <2>5. Cardinality(Spread') \in Nat
      BY <2>4, FS_CardinalityType
    <2>6. Pooled' = (Len(taskPipe) - 1) + Len(taskQueue) + Cardinality(Spread') + Len(sending)
                      + Len(replyPipe)
      BY <1>1, <1>2, <1>6 DEF Pooled
    <2>7. Pooled = Len(taskPipe) + Len(taskQueue) + Cardinality(Spread) + Len(sending)
                     + Len(replyPipe)
      BY DEF Pooled
    <2>8. \A p, q, s, t, x, y \in Nat : t <= s + 1 => (p - 1) + q + t + x + y <= p + q + s + x + y
      OBVIOUS
    <2>9. Pooled' <= Pooled
      BY <1>4, <2>4, <2>5, <2>6, <2>7, <2>8
    <2> QED
      BY <2>4, <2>9 DEF Conserves
  <1> QED
    BY <1>5, <1>6 DEF ReceiveManagerRequest, SendTaskToWorker, SendTaskToWorkerImpl

(* A result is handed to the manager. *)
LEMMA SendResultConserves ==
    ASSUME QueuesSound, IsFiniteSet(Spread), SendResultToManager, UNCHANGED workerVars
    PROVE  Conserves
  <1>1. /\ sending # <<>> /\ sending' = <<>> /\ replyPipe' = Append(replyPipe, sending[1])
        /\ UNCHANGED <<taskPipe, taskQueue, pub, dealer, tasks, thread, finished>>
    BY DEF SendResultToManager, SendOnReplyPipe, socketVars, workerVars
  <1>2. /\ IsSeq(replyPipe') /\ Len(replyPipe') = Len(replyPipe) + 1
        /\ IsSeq(sending') /\ Len(sending') = 0 /\ IsSeq(taskPipe') /\ IsSeq(taskQueue')
    BY <1>1, SeqAppend, SeqEmpty DEF QueuesSound
  <1>3. Len(sending) \in Nat \ {0}
    BY <1>1, SeqTail DEF QueuesSound
  <1>4. DOMAIN dealer' = Workers /\ \A u \in Workers : IsSeq(dealer'[u])
    BY <1>1 DEF QueuesSound
  <1>5. QueuesSound' /\ IsFiniteSet(Spread') /\ Cardinality(Spread') = Cardinality(Spread)
    BY <1>1, <1>2, <1>4, SameSpread
  <1>6. /\ Len(taskPipe) \in Nat /\ Len(taskQueue) \in Nat /\ Cardinality(Spread) \in Nat
        /\ Len(sending) \in Nat /\ Len(replyPipe) \in Nat
    BY PooledType
  <1>7. Pooled' = Len(taskPipe) + Len(taskQueue) + Cardinality(Spread) + 0 + (Len(replyPipe) + 1)
    BY <1>1, <1>2, <1>5 DEF Pooled
  <1>8. Pooled = Len(taskPipe) + Len(taskQueue) + Cardinality(Spread) + Len(sending)
                   + Len(replyPipe)
    BY DEF Pooled
  <1>9. \A p, q, s, x, y \in Nat : x # 0 => p + q + s + 0 + (y + 1) <= p + q + s + x + y
    OBVIOUS
  <1>10. Pooled' <= Pooled
    BY <1>3, <1>6, <1>7, <1>8, <1>9
  <1> QED
    BY <1>5, <1>10 DEF Conserves

(* The answer of worker w is taken from its queue: one of its share is gone. *)
LEMMA TakenShares ==
    ASSUME QueuesSound, IsFiniteSet(Spread), NEW w \in Workers, dealer[w] # <<>>,
           Head(dealer[w]).data # "core_count",
           dealer' = [dealer EXCEPT ![w] = Tail(@)]
    PROVE  /\ DOMAIN dealer' = Workers /\ \A u \in Workers : IsSeq(dealer'[u])
           /\ \E before :
                /\ IsFiniteSet(Tokens(before))
                /\ Cardinality(Tokens(before)) = Cardinality(Spread) - 1
                /\ \A u \in Workers :
                     /\ before[u] \in Nat
                     /\ before[u] = Share(u) - Cardinality(ReportsIn(dealer[u]))
                                      + Cardinality(ReportsIn(dealer'[u]))
  <1>1. /\ DOMAIN dealer' = Workers /\ dealer'[w] = Tail(dealer[w])
        /\ \A u \in Workers : u # w => dealer'[u] = dealer[u]
        /\ \A u \in Workers : IsSeq(dealer[u])
    BY DEF QueuesSound
  <1>2. IsSeq(dealer'[w])
    BY <1>1, SeqTail
  <1>3. /\ Cardinality(ReportsIn(dealer'[w])) = Cardinality(ReportsIn(dealer[w])) - 1
    <2>1. Cardinality(ReportsIn(Tail(dealer[w])))
            = Cardinality(ReportsIn(dealer[w])) - One(Head(dealer[w]).data # "core_count")
      BY <1>1, MineTail
    <2> QED
      BY <1>1, <2>1 DEF One
  <1>4. /\ Cardinality(ReportsIn(dealer'[w])) \in Nat
        /\ \A u \in Workers : Cardinality(ReportsIn(dealer[u])) \in Nat
    BY <1>1, <1>2, MineType
  <1>5. /\ Spread = Tokens(Shares) /\ DOMAIN Shares = Workers
        /\ \A u \in Workers : Shares[u] = Share(u) /\ Shares[u] \in Nat
    BY SharesType
  <1>6. Shares[w] >= 1
    <2> DEFINE a == Cardinality(MineIn(pub[w], w))
               b == Len(tasks[w])
               c == Cardinality(Busy(w))
               d == Len(finished[w])
               e == Cardinality(ReportsIn(dealer[w]))
    <2>1. Share(w) = a + b + c + d + e
      BY DEF Share
    <2>2. a \in Nat /\ b \in Nat /\ c \in Nat /\ d \in Nat
      BY ShareType
    <2>3. e \in Nat /\ e >= 1
      BY <1>3, <1>4
    <2> HIDE DEF a, b, c, d, e
    <2> QED
      BY <1>5, <2>1, <2>2, <2>3
  <1> DEFINE before == [Shares EXCEPT ![w] = Shares[w] - 1]
  <1>7. /\ IsFiniteSet(Tokens(before)) /\ Cardinality(Tokens(before)) = Cardinality(Spread) - 1
        /\ \A u \in Workers : before[u] = Shares[u] - One(u = w) /\ before[u] \in Nat
    BY <1>5, <1>6, TokensFall
  <1> HIDE DEF before
  <1>8. ASSUME NEW u \in Workers
        PROVE  before[u] = Share(u) - Cardinality(ReportsIn(dealer[u]))
                             + Cardinality(ReportsIn(dealer'[u]))
    <2>1. CASE u = w
      BY <1>3, <1>4, <1>5, <1>7, <2>1 DEF One
    <2>2. CASE u # w
      BY <1>1, <1>4, <1>5, <1>7, <2>2 DEF One
    <2> QED
      BY <2>1, <2>2
  <1> QED
    BY <1>1, <1>2, <1>7, <1>8

(* The answer of a worker, after which a queued task may be published. *)
LEMMA ReplyConserves ==
    ASSUME QueuesSound, IsFiniteSet(Spread), NEW w \in Workers, dealer[w] # <<>>, sending = <<>>,
           NEW message, message = Head(dealer[w]), message.data # "core_count",
           ProcessWorkerTaskReply(message.task_id),
           dealer' = [dealer EXCEPT ![w] = Tail(@)],
           UNCHANGED <<pipeVars, workerVars>>
    PROVE  Conserves
  <1>1. DOMAIN dealer' = Workers /\ \A u \in Workers : IsSeq(dealer'[u])
    BY TakenShares
  <1>2. PICK before :
          /\ IsFiniteSet(Tokens(before))
          /\ Cardinality(Tokens(before)) = Cardinality(Spread) - 1
          /\ \A u \in Workers :
               /\ before[u] \in Nat
               /\ before[u] = Share(u) - Cardinality(ReportsIn(dealer[u]))
                                + Cardinality(ReportsIn(dealer'[u]))
    BY TakenShares
  <1>3. /\ UNCHANGED <<taskPipe, replyPipe, tasks, thread, finished>>
        /\ sending' = <<message.task_id.id>>
    BY DEF pipeVars, workerVars, ProcessWorkerTaskReply
  <1>4. /\ IsSeq(taskPipe') /\ IsSeq(replyPipe') /\ IsSeq(sending') /\ Len(sending') = 1
        /\ Len(sending) = 0
    BY <1>3, SeqOne, SeqEmpty DEF QueuesSound
  <1>5. /\ Len(taskPipe) \in Nat /\ Len(taskQueue) \in Nat /\ Cardinality(Spread) \in Nat
        /\ Len(sending) \in Nat /\ Len(replyPipe) \in Nat
    BY PooledType
  <1>6. Pooled = Len(taskPipe) + Len(taskQueue) + Cardinality(Spread) + 0 + Len(replyPipe)
    BY <1>4 DEF Pooled
  <1>7. Pooled' = Len(taskPipe) + Len(taskQueue') + Cardinality(Spread') + 1 + Len(replyPipe)
    BY <1>3, <1>4 DEF Pooled
  <1>8. ASSUME NEW v, NEW task, taskQueue # <<>>, taskQueue' = Tail(taskQueue),
               Publish([identity |-> v, task |-> task])
        PROVE  Conserves
    <2>1. IsSeq(taskQueue') /\ Len(taskQueue') = Len(taskQueue) - 1
      BY <1>8, SeqTail DEF QueuesSound
    <2>2. /\ QueuesSound' /\ IsFiniteSet(Spread')
          /\ Cardinality(Spread') <= Cardinality(Tokens(before)) + 1
      BY <1>1, <1>2, <1>3, <1>4, <1>8, <2>1, PublishSpread
    <2>3. Cardinality(Spread') \in Nat
      BY <2>2, FS_CardinalityType
    <2>4. Pooled' <= Pooled
      BY <1>2, <1>5, <1>6, <1>7, <2>1, <2>2, <2>3
    <2> QED
      BY <2>2, <2>4 DEF Conserves
  <1>9. CASE UNCHANGED <<taskQueue, pub>>
    <2>1. QueuesSound'
      BY <1>1, <1>3, <1>4, <1>9 DEF QueuesSound, Threads
    <2>2. (\A u \in Workers : Share(u) \in Nat)'
      BY <2>1, NextSharesAreNumbers
    <2>3. ASSUME NEW u \in Workers
          PROVE  Shares'[u] = before[u]
      <3> DEFINE a == Cardinality(MineIn(pub[u], u))
                 b == Len(tasks[u])
                 c == Cardinality(Busy(u))
                 d == Len(finished[u])
                 e == Cardinality(ReportsIn(dealer[u]))
                 e2 == Cardinality(ReportsIn(dealer'[u]))
      <3>1. Busy(u)' = Busy(u)
        BY <1>3 DEF Busy, Threads
      <3>2. Share(u) = a + b + c + d + e /\ Share(u)' = a + b + c + d + e2
        BY <1>3, <1>9, <3>1 DEF Share
      <3>3. a \in Nat /\ b \in Nat /\ c \in Nat /\ d \in Nat /\ e \in Nat
        BY ShareType
      <3>4. e2 \in Nat
        BY <1>1, MineType
      <3>5. before[u] = Share(u) - e + e2
        BY <1>2
      <3>6. Shares'[u] = Share(u)'
        BY DEF Shares
      <3> HIDE DEF a, b, c, d, e, e2
      <3> QED
        BY <3>2, <3>3, <3>4, <3>5, <3>6
    <2>4. Spread' = Tokens(before)
      <3>1. Spread' = Tokens(Shares')
        BY DEF Spread, Shares
      <3> QED
        BY <2>3, <3>1 DEF Tokens
    <2>5. Pooled' <= Pooled
      BY <1>2, <1>5, <1>6, <1>7, <1>9, <2>4
    <2> QED
      BY <1>2, <2>1, <2>4, <2>5 DEF Conserves
  <1> QED
    BY <1>8, <1>9 DEF ProcessWorkerTaskReply, SendTaskToWorkerFromQueue, SendTaskToWorkerImpl

(* Every step of the broker. *)
LEMMA BrokerConserves ==
    ASSUME QueuesSound, IsFiniteSet(Spread), BrokerNext, UNCHANGED workerVars
    PROVE  Conserves
  <1>1. CASE BrokerPoll
    <2>1. UNCHANGED <<taskPipe, replyPipe, taskQueue, sending, pub, dealer, tasks, thread, finished>>
      BY <1>1 DEF BrokerPoll, pipeVars, socketVars, workerVars
    <2>2. QueuesSound'
      BY <2>1 DEF QueuesSound, Threads
    <2>3. Spread' = Spread
      BY <2>1 DEF Spread, Share, Busy, Threads
    <2> QED
      BY <2>1, <2>2, <2>3, PooledType DEF Conserves, Pooled
  <1>2. ASSUME NEW w \in Workers, ReceiveWorkerMessage(w)
        PROVE  Conserves
    <2> DEFINE message == Head(dealer[w])
    <2>1. /\ sending = <<>> /\ dealer[w] # <<>> /\ dealer' = [dealer EXCEPT ![w] = Tail(@)]
          /\ UNCHANGED <<pipeVars, workerVars>>
      BY <1>2 DEF ReceiveWorkerMessage
    <2>2. CASE message.data # "core_count"
      <3>1. ProcessWorkerTaskReply(message.task_id)
        BY <1>2, <2>2 DEF ReceiveWorkerMessage
      <3> HIDE DEF message
      <3>2. message = Head(dealer[w])
        BY DEF message
      <3> QED
        BY <2>1, <2>2, <3>1, <3>2, ReplyConserves
    <2>3. CASE message.data = "core_count"
      <3>1. UNCHANGED <<taskQueue, sending, pub>>
        BY <1>2, <2>3 DEF ReceiveWorkerMessage, RegisterWorker
      <3>2. /\ DOMAIN dealer' = Workers /\ dealer'[w] = Tail(dealer[w])
            /\ \A u \in Workers : u # w => dealer'[u] = dealer[u]
            /\ \A u \in Workers : IsSeq(dealer[u])
        BY <2>1 DEF QueuesSound
      <3>3. Cardinality(ReportsIn(dealer'[w])) = Cardinality(ReportsIn(dealer[w]))
        <4>1. Cardinality(ReportsIn(Tail(dealer[w])))
                = Cardinality(ReportsIn(dealer[w])) - One(message.data # "core_count")
          BY <2>1, <3>2, MineTail
        <4>2. Cardinality(ReportsIn(dealer[w])) \in Nat
          BY <3>2, MineType
        <4> QED
          BY <2>3, <3>2, <4>1, <4>2 DEF One
      <3>4. IsSeq(dealer'[w])
        BY <2>1, <3>2, SeqTail
      <3>5. /\ UNCHANGED <<taskPipe, replyPipe, tasks, thread, finished>>
            /\ IsSeq(taskPipe') /\ IsSeq(replyPipe') /\ IsSeq(taskQueue') /\ IsSeq(sending')
        BY <2>1, <3>1 DEF QueuesSound, pipeVars, workerVars
      <3>6. \A u \in Workers :
              IsSeq(dealer'[u])
                /\ Cardinality(ReportsIn(dealer'[u])) = Cardinality(ReportsIn(dealer[u]))
        BY <3>2, <3>3, <3>4
      <3>7. QueuesSound' /\ IsFiniteSet(Spread') /\ Cardinality(Spread') = Cardinality(Spread)
        BY <3>1, <3>2, <3>5, <3>6, SameSpread
      <3> QED
        BY <3>1, <3>5, <3>7, PooledType DEF Conserves, Pooled
    <2> QED
      BY <2>2, <2>3
  <1> QED
    BY <1>1, <1>2, SendResultConserves, ReceiveManagerConserves DEF BrokerNext
-----------------------------------------------------------------------------
(* The books of one problem.  CalculationData::New makes sound ones without  *)
(* a task in process, ...                                                    *)
LEMMA NewBook ==
    ASSUME NEW r \in Requests \ Rejected
    PROVE  BookSound(New(r)) /\ WithStatus(New(r).status, "processing") = {}
  <1> DEFINE g == Graph[r]
             leaves == DOMAIN GetIndependentTasks(g)
             status == [v \in leaves |-> "completed"]
             computable == GetComputableTasks(g, leaves, {})
  <1>1. New(r) = [request |-> r, status |-> status, computable |-> computable]
    BY DEF New
  <1>2. OperandsFirst(g)
    BY GraphAssumption
  <1>3. /\ leaves = {v \in Vertices(g) : g.type[v] \in LeafTypes}
        /\ leaves \subseteq Vertices(g) /\ \A v \in leaves : g.adj[v] = <<>>
    BY <1>2 DEF OperandsFirst, GetIndependentTasks
  <1>4. /\ DOMAIN computable \subseteq Vertices(g) \ leaves
        /\ \A v \in DOMAIN computable : \A k \in DOMAIN g.adj[v] : g.adj[v][k] \in leaves
        /\ \A v \in DOMAIN computable : computable[v] = g.adj[v]
    BY DEF GetComputableTasks
  <1>5. DOMAIN status = leaves /\ \A v \in leaves : status[v] = "completed"
    OBVIOUS
  <1>6. DOMAIN <<>> = {}
    OBVIOUS
  <1> HIDE DEF g, leaves, status, computable
  <1>7. /\ New(r).request = r /\ New(r).status = status /\ New(r).computable = computable
    BY <1>1
  <1>8. WithStatus(status, "processing") = {}
    BY <1>5 DEF WithStatus
  <1>9. \A v \in leaves \cup DOMAIN computable : \A k \in DOMAIN g.adj[v] : g.adj[v][k] \in leaves
    BY <1>3, <1>4, <1>6
  <1>10. BookSound(New(r))
    BY <1>1, <1>3, <1>4, <1>5, <1>7, <1>9 DEF BookSound, g
  <1> QED
    BY <1>7, <1>8, <1>10

(* ... sending a task notes it as in process, ...                            *)
LEMMA SentBook ==
    ASSUME NEW c, BookSound(c), NEW task \in DOMAIN c.computable, NEW d,
           d = [request |-> c.request,
                status |-> [v \in DOMAIN c.status \cup {task} |->
                              IF v = task THEN "processing" ELSE c.status[v]],
                computable |-> [v \in DOMAIN c.computable \ {task} |-> c.computable[v]]]
    PROVE  /\ BookSound(d) /\ task \notin WithStatus(c.status, "processing")
           /\ WithStatus(d.status, "processing")
                = WithStatus(c.status, "processing") \cup {task}
  <1> DEFINE g == Graph[c.request]
  <1>1. /\ d.request = c.request
        /\ DOMAIN d.status = DOMAIN c.status \cup {task}
        /\ DOMAIN d.computable = DOMAIN c.computable \ {task}
        /\ \A v \in DOMAIN d.computable : d.computable[v] = c.computable[v]
        /\ d.status[task] = "processing"
        /\ \A v \in DOMAIN c.status \ {task} : d.status[v] = c.status[v]
        /\ d = [request |-> d.request, status |-> d.status, computable |-> d.computable]
    OBVIOUS
  <1>2. /\ task \notin DOMAIN c.status /\ task \in Vertices(g)
        /\ c.request \in Requests \ Rejected
        /\ DOMAIN c.status \subseteq Vertices(g)
        /\ DOMAIN c.computable \subseteq Vertices(g) \ DOMAIN c.status
        /\ \A v \in DOMAIN c.status : c.status[v] \in {"processing", "completed"}
        /\ \A v \in DOMAIN c.status \cup DOMAIN c.computable : \A k \in DOMAIN g.adj[v] :
             g.adj[v][k] \in DOMAIN c.status /\ c.status[g.adj[v][k]] = "completed"
        /\ {v \in Vertices(g) : g.type[v] \in LeafTypes} \subseteq DOMAIN c.status
        /\ \A v \in DOMAIN c.computable : c.computable[v] = g.adj[v]
    BY DEF BookSound
  <1> HIDE DEF g
  <1>3. \A v \in DOMAIN d.status : d.status[v] \in {"processing", "completed"}
    BY <1>1, <1>2
  <1>4. \A v \in DOMAIN d.status \cup DOMAIN d.computable : \A k \in DOMAIN g.adj[v] :
             g.adj[v][k] \in DOMAIN d.status /\ d.status[g.adj[v][k]] = "completed"
    BY <1>1, <1>2
  <1>5. BookSound(d)
    BY <1>1, <1>2, <1>3, <1>4 DEF BookSound, g
  <1> QED
    BY <1>1, <1>2, <1>5 DEF WithStatus

(* ... and completing one takes it from those in process, whether the        *)
(* computable tasks stay as they are ...                                     *)
LEMMA CompletedBook ==
    ASSUME NEW c, BookSound(c), NEW task \in DOMAIN c.status, NEW d,
           d = [request |-> c.request,
                status |-> [c.status EXCEPT ![task] = "completed"],
                computable |-> c.computable]
    PROVE  /\ BookSound(d)
           /\ WithStatus(d.status, "processing")
                = WithStatus(c.status, "processing") \ {task}
  <1> DEFINE g == Graph[c.request]
  <1>1. /\ d.request = c.request /\ DOMAIN d.status = DOMAIN c.status
        /\ d.computable = c.computable /\ d.status[task] = "completed"
        /\ \A v \in DOMAIN c.status \ {task} : d.status[v] = c.status[v]
        /\ d = [request |-> d.request, status |-> d.status, computable |-> d.computable]
    OBVIOUS
  <1>2. /\ c.request \in Requests \ Rejected
        /\ DOMAIN c.status \subseteq Vertices(g)
        /\ DOMAIN c.computable \subseteq Vertices(g) \ DOMAIN c.status
        /\ \A v \in DOMAIN c.status : c.status[v] \in {"processing", "completed"}
        /\ \A v \in DOMAIN c.status \cup DOMAIN c.computable : \A k \in DOMAIN g.adj[v] :
             g.adj[v][k] \in DOMAIN c.status /\ c.status[g.adj[v][k]] = "completed"
        /\ {v \in Vertices(g) : g.type[v] \in LeafTypes} \subseteq DOMAIN c.status
        /\ \A v \in DOMAIN c.computable : c.computable[v] = g.adj[v]
    BY DEF BookSound
  <1> HIDE DEF g
  <1>3. /\ \A v \in DOMAIN d.status : d.status[v] \in {"processing", "completed"}
        /\ \A v \in DOMAIN d.status \cup DOMAIN d.computable : \A k \in DOMAIN g.adj[v] :
             g.adj[v][k] \in DOMAIN d.status /\ d.status[g.adj[v][k]] = "completed"
    BY <1>1, <1>2
  <1>4. BookSound(d)
    BY <1>1, <1>2, <1>3 DEF BookSound, g
  <1> QED
    BY <1>1, <1>4 DEF WithStatus

(* ... or are looked for again.                                              *)
LEMMA UpdatedBook ==
    ASSUME NEW c, BookSound(c), NEW task \in DOMAIN c.status, NEW status, NEW d,
           status = [c.status EXCEPT ![task] = "completed"],
           d = [request |-> c.request, status |-> status,
                computable |-> GetComputableTasks(Graph[c.request],
                                                  WithStatus(status, "completed"),
                                                  WithStatus(status, "processing"))]
    PROVE  /\ BookSound(d)
           /\ WithStatus(d.status, "processing")
                = WithStatus(c.status, "processing") \ {task}
  <1> DEFINE g == Graph[c.request]
             done == WithStatus(status, "completed")
             sent == WithStatus(status, "processing")
             computable == GetComputableTasks(g, done, sent)
             e == [request |-> c.request, status |-> status, computable |-> c.computable]
  <1>1. BookSound(e) /\ WithStatus(e.status, "processing")
                          = WithStatus(c.status, "processing") \ {task}
    <2> HIDE DEF e
    <2>1. e = [request |-> c.request, status |-> [c.status EXCEPT ![task] = "completed"],
               computable |-> c.computable]
      BY DEF e
    <2> QED
      BY <2>1, CompletedBook
  <1>2. /\ d.request = c.request /\ d.status = status /\ d.computable = computable
        /\ d = [request |-> d.request, status |-> d.status, computable |-> d.computable]
        /\ e.status = status /\ e.request = c.request
    OBVIOUS
  <1>3. /\ c.request \in Requests \ Rejected /\ DOMAIN status \subseteq Vertices(g)
        /\ \A v \in DOMAIN status : status[v] \in {"processing", "completed"}
        /\ \A v \in DOMAIN status : \A k \in DOMAIN g.adj[v] :
             g.adj[v][k] \in DOMAIN status /\ status[g.adj[v][k]] = "completed"
        /\ {v \in Vertices(g) : g.type[v] \in LeafTypes} \subseteq DOMAIN status
    <2> HIDE DEF e
    <2> QED
      BY <1>1, <1>2 DEF BookSound
  <1>4. /\ DOMAIN computable \subseteq Vertices(g) \ (done \cup sent)
        /\ \A v \in DOMAIN computable : \A k \in DOMAIN g.adj[v] : g.adj[v][k] \in done
        /\ \A v \in DOMAIN computable : computable[v] = g.adj[v]
    BY DEF GetComputableTasks
  <1> HIDE DEF g, computable, e
  <1>5. done \cup sent = DOMAIN status
    BY <1>3 DEF WithStatus
  <1>6. /\ DOMAIN computable \subseteq Vertices(g) \ DOMAIN status
        /\ \A v \in DOMAIN computable : \A k \in DOMAIN g.adj[v] :
             g.adj[v][k] \in DOMAIN status /\ status[g.adj[v][k]] = "completed"
    BY <1>4, <1>5 DEF WithStatus
  <1>7. BookSound(d)
    BY <1>2, <1>3, <1>4, <1>6 DEF BookSound, g
  <1> QED
    BY <1>1, <1>2, <1>7

(* Once the root is calculated no task of the problem is in process: the     *)
(* completed ones contain the root and their own operands, hence all.        *)
LEMMA RootCalculated ==
    ASSUME NEW c, BookSound(c), RootTask(Graph[c.request]) \in DOMAIN c.status,
           c.status[RootTask(Graph[c.request])] = "completed"
    PROVE  WithStatus(c.status, "processing") = {}
  <1> DEFINE g == Graph[c.request]
             S == WithStatus(c.status, "completed")
  <1>1. OneRoot(g)
    BY GraphAssumption DEF BookSound
  <1>2. S \in SUBSET Vertices(g) /\ DOMAIN c.status \subseteq Vertices(g)
    BY DEF BookSound, WithStatus
  <1>3. RootTask(g) \in S /\ \A v \in S : \A k \in DOMAIN g.adj[v] : g.adj[v][k] \in S
    BY DEF BookSound, WithStatus
  <1>4. S = Vertices(g)
    <2> HIDE DEF S, g
    <2> QED
      BY <1>1, <1>2, <1>3 DEF OneRoot
  <1> QED
    BY <1>2, <1>4 DEF WithStatus

(* The books of one problem change, and with them the tasks in process.      *)
LEMMA OneBookChanged ==
    ASSUME NEW id \in DOMAIN calcData, NEW task,
           DOMAIN calcData' = DOMAIN calcData,
           \A i \in DOMAIN calcData : i # id => calcData'[i] = calcData[i]
    PROVE  /\ WithStatus(calcData'[id].status, "processing")
                = WithStatus(calcData[id].status, "processing") \cup {task}
                => InProcess' = InProcess \cup {<<id, task>>}
           /\ WithStatus(calcData'[id].status, "processing")
                = WithStatus(calcData[id].status, "processing") \ {task}
                => InProcess' = InProcess \ {<<id, task>>}
  <1> DEFINE P(i) == WithStatus(calcData[i].status, "processing")
             Q(i) == WithStatus(calcData'[i].status, "processing")
  <1>1. InProcess = UNION {{<<i, v>> : v \in P(i)} : i \in DOMAIN calcData}
    BY DEF InProcess
  <1>2. InProcess' = UNION {{<<i, v>> : v \in Q(i)} : i \in DOMAIN calcData}
    BY DEF InProcess, WithStatus
  <1>3. \A i \in DOMAIN calcData : i # id => Q(i) = P(i)
    OBVIOUS
  <1> HIDE DEF P, Q
  <1>4. ASSUME Q(id) = P(id) \cup {task}
        PROVE  InProcess' = InProcess \cup {<<id, task>>}
    <2>1. InProcess' \subseteq InProcess \cup {<<id, task>>}
      BY <1>1, <1>2, <1>3, <1>4
    <2>2. InProcess \cup {<<id, task>>} \subseteq InProcess'
      BY <1>1, <1>2, <1>3, <1>4
    <2> QED
      BY <2>1, <2>2
  <1>5. ASSUME Q(id) = P(id) \ {task}
        PROVE  InProcess' = InProcess \ {<<id, task>>}
    <2>1. InProcess' \subseteq InProcess \ {<<id, task>>}
      BY <1>1, <1>2, <1>3, <1>5
    <2>2. InProcess \ {<<id, task>>} \subseteq InProcess'
      BY <1>1, <1>2, <1>3, <1>5
    <2> QED
      BY <2>1, <2>2
  <1> QED
    BY <1>4, <1>5 DEF P, Q

(* What is completed stays completed. *)
BooksGrow ==
    /\ DOMAIN calcData' = DOMAIN calcData
    /\ \A i \in DOMAIN calcData :
        /\ calcData'[i].request = calcData[i].request
        /\ \A v \in DOMAIN calcData[i].status :
             /\ v \in DOMAIN calcData'[i].status
             /\ calcData[i].status[v] = "completed" => calcData'[i].status[v] = "completed"

LEMMA RootKept ==
    ASSUME BooksGrow, NEW id \in DOMAIN calcData, RootDone(id)
    PROVE  RootDone(id)'
  BY DEF BooksGrow, RootDone

LEMMA SentBooks ==
    ASSUME BooksSound, NEW id \in DOMAIN calcData, NEW task \in DOMAIN calcData[id].computable,
           SendTask(id, task)
    PROVE  /\ BooksGrow /\ \A i \in DOMAIN calcData : BookSound(calcData'[i])
           /\ <<id, task>> \notin InProcess /\ InProcess' = InProcess \cup {<<id, task>>}
  <1> DEFINE c == calcData[id]
             d == calcData'[id]
  <1>1. BookSound(c)
    BY DEF BooksSound
  <1>2. c = [request |-> c.request, status |-> c.status, computable |-> c.computable]
    BY <1>1 DEF BookSound
  <1>0. calcData' =
          [calcData EXCEPT
             ![id].status = [v \in DOMAIN @ \cup {task} |->
                               IF v = task THEN "processing" ELSE @[v]],
             ![id].computable = [v \in DOMAIN @ \ {task} |-> @[v]]]
    BY DEF SendTask
  <1>3. /\ DOMAIN calcData' = DOMAIN calcData
        /\ \A i \in DOMAIN calcData : i # id => calcData'[i] = calcData[i]
    BY <1>0
  <1>4. d = [request |-> c.request,
             status |-> [v \in DOMAIN c.status \cup {task} |->
                           IF v = task THEN "processing" ELSE c.status[v]],
             computable |-> [v \in DOMAIN c.computable \ {task} |-> c.computable[v]]]
    BY <1>0, <1>2
  <1>5. /\ BookSound(d) /\ task \notin WithStatus(c.status, "processing")
        /\ WithStatus(d.status, "processing") = WithStatus(c.status, "processing") \cup {task}
    <2> HIDE DEF c, d
    <2>1. task \in DOMAIN c.computable
      BY DEF c
    <2> QED
      BY <1>1, <1>4, <2>1, SentBook
  <1>6. task \notin DOMAIN c.status
    BY <1>1 DEF BookSound
  <1>7. BooksGrow
    <2>1. /\ d.request = c.request
          /\ \A v \in DOMAIN c.status : v \in DOMAIN d.status /\ d.status[v] = c.status[v]
      <3> HIDE DEF c, d
      <3> QED
        BY <1>4, <1>6
    <2> QED
      BY <1>3, <2>1 DEF BooksGrow
  <1>8. \A i \in DOMAIN calcData : BookSound(calcData'[i])
    BY <1>3, <1>5 DEF BooksSound
  <1>9. <<id, task>> \notin InProcess
    BY <1>5 DEF InProcess
  <1>10. InProcess' = InProcess \cup {<<id, task>>}
    BY <1>3, <1>5, OneBookChanged
  <1> QED
    BY <1>7, <1>8, <1>9, <1>10

(* The steps of UpdateComputableTasks that change the books, and what they   *)
(* leave of them.                                                            *)
Completes(id, task) ==
    \/ calcData' = [calcData EXCEPT ![id].status[task] = "completed"]
    \/ UpdateComputableTasksImpl(id, task)

LEMMA CompletedBooks ==
    ASSUME BooksSound, NEW id \in DOMAIN calcData, NEW task \in DOMAIN calcData[id].status,
           Completes(id, task)
    PROVE  /\ BooksGrow /\ \A i \in DOMAIN calcData : BookSound(calcData'[i])
           /\ calcData'[id].status[task] = "completed"
           /\ InProcess' = InProcess \ {<<id, task>>}
  <1> DEFINE c == calcData[id]
             d == calcData'[id]
             status == [c.status EXCEPT ![task] = "completed"]
             free == GetComputableTasks(Graph[c.request], WithStatus(status, "completed"),
                                        WithStatus(status, "processing"))
  <1>1. BookSound(c)
    BY DEF BooksSound
  <1>2. c = [request |-> c.request, status |-> c.status, computable |-> c.computable]
    BY <1>1 DEF BookSound
  <1>3. /\ DOMAIN calcData' = DOMAIN calcData
        /\ \A i \in DOMAIN calcData : i # id => calcData'[i] = calcData[i]
    BY DEF Completes, UpdateComputableTasksImpl
  <1>4. \/ d = [request |-> c.request, status |-> status, computable |-> c.computable]
        \/ d = [request |-> c.request, status |-> status, computable |-> free]
    <2>1. CASE calcData' = [calcData EXCEPT ![id].status[task] = "completed"]
      BY <1>2, <2>1
    <2>2. CASE UpdateComputableTasksImpl(id, task)
      BY <1>2, <2>2 DEF UpdateComputableTasksImpl
    <2> QED
      BY <2>1, <2>2 DEF Completes
  <1>5. task \in DOMAIN c.status
    OBVIOUS
  <1>6. /\ BookSound(d)
        /\ WithStatus(d.status, "processing") = WithStatus(c.status, "processing") \ {task}
        /\ d.request = c.request /\ d.status = status
    <2> HIDE DEF c, d
    <2>1. CASE d = [request |-> c.request, status |-> status, computable |-> c.computable]
      BY <1>1, <1>5, <2>1, CompletedBook
    <2>2. CASE d = [request |-> c.request, status |-> status, computable |-> free]
      BY <1>1, <1>5, <2>2, UpdatedBook
    <2> QED
      BY <1>4, <2>1, <2>2
  <1>7. /\ status[task] = "completed" /\ DOMAIN status = DOMAIN c.status
        /\ \A v \in DOMAIN c.status : c.status[v] = "completed" => status[v] = "completed"
    BY <1>5
  <1>8. BooksGrow
    BY <1>3, <1>6, <1>7 DEF BooksGrow
  <1>9. \A i \in DOMAIN calcData : BookSound(calcData'[i])
    BY <1>3, <1>6 DEF BooksSound
  <1>10. InProcess' = InProcess \ {<<id, task>>}
    BY <1>3, <1>6, OneBookChanged
  <1> QED
    BY <1>6, <1>7, <1>8, <1>9, <1>10

(* A new problem has no task in process, ...                                 *)
LEMMA PushedBooks ==
    ASSUME BooksSound, NEW r \in Requests \ Rejected, PushProblem(r)
    PROVE  BooksSound' /\ InProcess' = InProcess
  <1>1. nextId \in Nat /\ nextId' = nextId + 1 /\ DOMAIN calcData \subseteq 0..(nextId - 1)
    BY DEF BooksSound, PushProblem
  <1>2. nextId \notin DOMAIN calcData
    BY <1>1
  <1>3. calcData' = [id \in DOMAIN calcData \cup {nextId} |->
                       IF id = nextId THEN New(r) ELSE calcData[id]]
    BY DEF PushProblem
  <1>4. /\ DOMAIN calcData' = DOMAIN calcData \cup {nextId} /\ calcData'[nextId] = New(r)
        /\ \A id \in DOMAIN calcData : calcData'[id] = calcData[id]
    BY <1>2, <1>3
  <1>5. BookSound(New(r)) /\ WithStatus(New(r).status, "processing") = {}
    BY NewBook
  <1>6. nextId' \in Nat /\ DOMAIN calcData' \subseteq 0..(nextId' - 1)
    BY <1>1, <1>4
  <1>7. \A id \in DOMAIN calcData' : BookSound(calcData'[id])
    BY <1>4, <1>5 DEF BooksSound
  <1>8. BooksSound'
    BY <1>6, <1>7 DEF BooksSound, BookSound
  <1> DEFINE P(i) == WithStatus(calcData[i].status, "processing")
             Q(i) == WithStatus(calcData'[i].status, "processing")
  <1>9. InProcess = UNION {{<<i, v>> : v \in P(i)} : i \in DOMAIN calcData}
    BY DEF InProcess
  <1>10. InProcess' = UNION {{<<i, v>> : v \in Q(i)} : i \in DOMAIN calcData'}
    BY DEF InProcess, WithStatus
  <1>11. Q(nextId) = {} /\ \A i \in DOMAIN calcData : Q(i) = P(i)
    BY <1>4, <1>5
  <1> HIDE DEF P, Q
  <1>12. InProcess' = InProcess
    BY <1>4, <1>9, <1>10, <1>11
  <1> QED
    BY <1>8, <1>12

(* ... and neither has a problem that is cleared.                            *)
LEMMA ClearedBooks ==
    ASSUME BookInv, NEW r \in Requests, ClearProblem(r)
    PROVE  BooksSound' /\ InProcess' = InProcess
  <1>1. UNCHANGED nextId
    BY DEF ClearProblem
  <1>2. calcData' = [id \in DOMAIN calcData \ {problemId[r]} |-> calcData[id]]
    BY DEF ClearProblem
  <1>3. /\ DOMAIN calcData' = DOMAIN calcData \ {problemId[r]}
        /\ \A id \in DOMAIN calcData' : calcData'[id] = calcData[id]
    BY <1>2
  <1>4. /\ BooksSound /\ isComputed[r] = TRUE
    BY DEF BookInv, ToldWhenDone, ClearProblem
  <1>5. \A id \in DOMAIN calcData' : BookSound(calcData'[id])
    BY <1>3, <1>4 DEF BooksSound
  <1>6. BooksSound'
    BY <1>1, <1>3, <1>4, <1>5 DEF BooksSound, BookSound
  <1> DEFINE P(i) == WithStatus(calcData[i].status, "processing")
             Q(i) == WithStatus(calcData'[i].status, "processing")
  <1>7. problemId[r] \in DOMAIN calcData => P(problemId[r]) = {}
    <2> SUFFICES ASSUME problemId[r] \in DOMAIN calcData
                 PROVE  P(problemId[r]) = {}
      OBVIOUS
    <2>1. RootDone(problemId[r])
      BY <1>4 DEF BookInv, ToldWhenDone
    <2>2. BookSound(calcData[problemId[r]])
      BY <1>4 DEF BooksSound
    <2> QED
      BY <2>1, <2>2, RootCalculated DEF RootDone
  <1>8. InProcess = UNION {{<<i, v>> : v \in P(i)} : i \in DOMAIN calcData}
    BY DEF InProcess
  <1>9. InProcess' = UNION {{<<i, v>> : v \in Q(i)} : i \in DOMAIN calcData'}
    BY DEF InProcess, WithStatus
  <1>10. \A i \in DOMAIN calcData' : Q(i) = P(i)
    BY <1>3
  <1> HIDE DEF P, Q
  <1>11. InProcess' \subseteq InProcess
    BY <1>3, <1>8, <1>9, <1>10
  <1>12. InProcess \subseteq InProcess'
    BY <1>3, <1>7, <1>8, <1>9, <1>10
  <1> QED
    BY <1>6, <1>11, <1>12

-----------------------------------------------------------------------------
(* The steps of the manager, one by one.                                     *)
LEMMA ManagerSteps ==
    ASSUME ManagerNext
    PROVE  \/ \E r \in Requests :
                \/ Decompose(r) \/ LockForPush(r) \/ PushProblem(r)
                \/ TestComputed(r) \/ WakeSpuriously(r)
                \/ LockForClear(r) \/ ClearProblem(r)
                \/ ReadResult(r) \/ ClearDatabase(r)
           \/ LockForSend
           \/ \E id \in ProblemsToSend : \E task \in DOMAIN calcData[id].computable :
                SendTask(id, task)
           \/ AllSent \/ ReadReply \/ UpdateComputableTasks \/ SetComputed \/ NotifyAll
  BY DEF ManagerNext, HandlerStep, DispatcherStep

(* The last reply of a problem, another reply, or one nobody waits for.      *)
LEMMA UpdateCases ==
    ASSUME UpdateComputableTasks
    PROVE  /\ managerUp = TRUE /\ dispatcher = "update" /\ m = "free"
           /\ UNCHANGED <<handler, problemId, isComputed, syncData, nextId, pipeVars>>
           /\ \/ UNCHANGED <<calcData, m, dispatcher, reply>> /\ managerUp' = FALSE
              \/ /\ UNCHANGED <<reply, managerUp>> /\ m' = "dispatcher" /\ dispatcher' = "computed"
                 /\ reply[1] \in DOMAIN calcData /\ reply[2] \in DOMAIN calcData[reply[1]].status
                 /\ reply[2] = RootTask(Graph[calcData[reply[1]].request])
                 /\ Completes(reply[1], reply[2])
              \/ /\ UNCHANGED <<m, managerUp>> /\ dispatcher' = "send"
                 /\ reply[1] \in DOMAIN calcData /\ reply[2] \in DOMAIN calcData[reply[1]].status
                 /\ Completes(reply[1], reply[2])
  BY DEF UpdateComputableTasks, Known, Crash, Completes, handlerVars, threadVars

LEMMA BooksStep ==
    ASSUME BookInv, ManagerNext
    PROVE  BooksSound'
  <1>1. BooksSound
    BY DEF BookInv
  <1>2. ASSUME UNCHANGED <<calcData, nextId>>
        PROVE  BooksSound'
    <2>1. /\ nextId' \in Nat /\ DOMAIN calcData' \subseteq 0..(nextId' - 1)
          /\ \A id \in DOMAIN calcData' : BookSound(calcData'[id])
      BY <1>1, <1>2 DEF BooksSound
    <2> QED
      BY <2>1 DEF BooksSound, BookSound
  <1>3. ASSUME BooksGrow, \A i \in DOMAIN calcData : BookSound(calcData'[i]), UNCHANGED nextId
        PROVE  BooksSound'
    BY <1>1, <1>3 DEF BooksSound, BooksGrow, BookSound
  <1>4. ASSUME NEW r \in Requests, PushProblem(r)
        PROVE  BooksSound'
    <2>1. r \in Requests \ Rejected
      BY <1>4 DEF PushProblem, BookInv, ToldWhenDone
    <2> QED
      BY <1>1, <1>4, <2>1, PushedBooks
  <1>5. ASSUME NEW id \in ProblemsToSend, NEW task \in DOMAIN calcData[id].computable,
               SendTask(id, task)
        PROVE  BooksSound'
    <2>1. id \in DOMAIN calcData /\ UNCHANGED nextId
      BY <1>5 DEF ProblemsToSend, SendTask
    <2> QED
      BY <1>1, <1>3, <1>5, <2>1, SentBooks
  <1>6. CASE UpdateComputableTasks
    <2>1. CASE UNCHANGED calcData
      BY <1>2, <1>6, <2>1, UpdateCases
    <2>2. CASE /\ reply[1] \in DOMAIN calcData /\ reply[2] \in DOMAIN calcData[reply[1]].status
               /\ Completes(reply[1], reply[2])
      BY <1>1, <1>3, <1>6, <2>2, UpdateCases, CompletedBooks
    <2> QED
      BY <1>6, <2>1, <2>2, UpdateCases
  <1>7. ASSUME NEW r \in Requests,
               \/ Decompose(r) \/ LockForPush(r) \/ TestComputed(r) \/ WakeSpuriously(r)
               \/ LockForClear(r) \/ ReadResult(r) \/ ClearDatabase(r)
        PROVE  UNCHANGED <<calcData, nextId>>
    BY <1>7 DEF Decompose, LockForPush, TestComputed, WakeSpuriously, LockForClear, ReadResult,
                ClearDatabase
  <1>8. ASSUME LockForSend \/ AllSent \/ ReadReply \/ SetComputed \/ NotifyAll
        PROVE  UNCHANGED <<calcData, nextId>>
    BY <1>8 DEF LockForSend, AllSent, ReadReply, SetComputed, Crash, NotifyAll
  <1> QED
    BY <1>2, <1>4, <1>5, <1>6, <1>7, <1>8, ManagerSteps, ClearedBooks

(* The critical sections of m_ exclude each other.                           *)
LEMMA LockStep ==
    ASSUME BookInv, ManagerNext
    PROVE  LockHeld'
  <1>1. /\ DOMAIN handler = Requests
        /\ \A r \in Requests : handler[r] \in {"pushing", "clearing"} => m = r
        /\ dispatcher \in {"sending", "computed", "notify"} => m = "dispatcher"
        /\ \A r \in Requests : r # "free" /\ r # "dispatcher"
    BY DispatcherAssumption DEF BookInv, ToldWhenDone, LockHeld
  <1>2. ASSUME NEW r \in Requests,
               \/ Decompose(r) \/ LockForPush(r) \/ PushProblem(r)
               \/ TestComputed(r) \/ WakeSpuriously(r)
               \/ LockForClear(r) \/ ClearProblem(r)
               \/ ReadResult(r) \/ ClearDatabase(r)
        PROVE  LockHeld'
    <2>1. CASE LockForPush(r) \/ LockForClear(r)
      BY <1>1, <2>1 DEF LockForPush, LockForClear, Goto, threadVars, LockHeld
    <2>2. CASE PushProblem(r) \/ ClearProblem(r)
      BY <1>1, <2>2 DEF PushProblem, ClearProblem, Goto, threadVars, LockHeld
    <2>3. CASE \/ Decompose(r) \/ TestComputed(r) \/ WakeSpuriously(r)
               \/ ReadResult(r) \/ ClearDatabase(r)
      BY <1>1, <2>3 DEF Decompose, TestComputed, WakeSpuriously, ReadResult, ClearDatabase, Goto,
                        threadVars, LockHeld
    <2> QED
      BY <1>2, <2>1, <2>2, <2>3
  <1>3. CASE LockForSend \/ AllSent \/ ReadReply
    BY <1>1, <1>3 DEF LockForSend, AllSent, ReadReply, handlerVars, LockHeld
  <1>4. ASSUME NEW id, NEW task, SendTask(id, task)
        PROVE  LockHeld'
    BY <1>1, <1>4 DEF SendTask, handlerVars, threadVars, LockHeld
  <1>5. CASE UpdateComputableTasks
    BY <1>1, <1>5, UpdateCases DEF LockHeld
  <1>6. CASE SetComputed
    BY <1>1, <1>6 DEF SetComputed, Crash, handlerVars, threadVars, LockHeld
  <1>7. CASE NotifyAll
    BY <1>1, <1>7 DEF NotifyAll, LockHeld
  <1> QED
    BY <1>2, <1>3, <1>4, <1>5, <1>6, <1>7, ManagerSteps

(* Both maps change together, and a handler is told of its own problem.      *)
LEMMA RootSame ==
    ASSUME NEW id, calcData'[id] = calcData[id], RootDone(id)
    PROVE  RootDone(id)'
  BY DEF RootDone

(* The part of ToldWhenDone a step that leaves the maps alone preserves.     *)
LEMMA ToldSame ==
    ASSUME ToldWhenDone, UNCHANGED <<calcData, syncData, problemId, isComputed, nextId>>,
           DOMAIN handler' = Requests,
           \A r \in Requests :
             /\ Unposed(r)' => Unposed(r)
             /\ handler'[r] \in {"push", "pushing"} => r \notin Rejected
             /\ handler'[r] \in {"clear", "clearing"} => isComputed[r] = TRUE,
           dispatcher' \in {"computed", "notify"} =>
             reply' = reply /\ dispatcher \in {"computed", "notify"}
    PROVE  ToldWhenDone'
  <1>1. \A id : RootDone(id)' <=> RootDone(id)
    BY DEF RootDone
  <1> QED
    BY <1>1 DEF ToldWhenDone

LEMMA ToldStep ==
    ASSUME BookInv, ManagerNext
    PROVE  ToldWhenDone'
  <1>1. BooksSound /\ LockHeld /\ ToldWhenDone
    BY DEF BookInv
  <1>2. DOMAIN handler = Requests /\ DOMAIN syncData = DOMAIN calcData
    BY <1>1 DEF ToldWhenDone
  <1>3. ASSUME NEW r \in Requests,
               \/ Decompose(r) \/ LockForPush(r)
               \/ TestComputed(r) \/ WakeSpuriously(r)
               \/ LockForClear(r) \/ ReadResult(r) \/ ClearDatabase(r)
        PROVE  ToldWhenDone'
    <2>1. UNCHANGED <<calcData, syncData, problemId, isComputed, nextId, dispatcher, reply>>
      BY <1>3 DEF Decompose, LockForPush, TestComputed, WakeSpuriously, LockForClear, ReadResult,
                  ClearDatabase, threadVars
    <2>2. \/ UNCHANGED handler
          \/ \E pc : /\ handler' = [handler EXCEPT ![r] = pc]
                     /\ pc \in {"push", "pushing"} => Unposed(r) /\ r \notin Rejected
                     /\ pc \in {"clear", "clearing"} => isComputed[r] = TRUE
                     /\ pc # "start"
      <3>1. handler[r] \in {"push", "pushing"} => r \notin Rejected
        BY <1>1 DEF ToldWhenDone
      <3>2. handler[r] \in {"clear", "clearing"} => isComputed[r] = TRUE
        BY <1>1 DEF ToldWhenDone
      <3>3. isComputed[r] \in BOOLEAN
        BY <1>1 DEF ToldWhenDone
      <3>4. CASE Decompose(r)
        BY <3>4 DEF Decompose, Goto, Unposed
      <3>5. CASE LockForPush(r)
        BY <3>1, <3>5 DEF LockForPush, Goto, Unposed
      <3>6. CASE TestComputed(r)
        BY <3>3, <3>6 DEF TestComputed, Goto
      <3>7. CASE LockForClear(r)
        BY <3>2, <3>7 DEF LockForClear, Goto
      <3>8. CASE WakeSpuriously(r) \/ ReadResult(r) \/ ClearDatabase(r)
        BY <3>8 DEF WakeSpuriously, ReadResult, ClearDatabase, Goto
      <3> QED
        BY <1>3, <3>4, <3>5, <3>6, <3>7, <3>8
    <2>3. /\ DOMAIN handler' = Requests
          /\ \A q \in Requests :
               /\ Unposed(q)' => Unposed(q)
               /\ handler'[q] \in {"push", "pushing"} => q \notin Rejected
               /\ handler'[q] \in {"clear", "clearing"} => isComputed[q] = TRUE
      BY <1>1, <1>2, <2>2 DEF ToldWhenDone, Unposed
    <2> QED
      BY <1>1, <2>1, <2>3, ToldSame
  <1>4. CASE LockForSend \/ AllSent \/ ReadReply
    <2>1. /\ UNCHANGED <<calcData, syncData, problemId, isComputed, nextId, handler>>
          /\ dispatcher' \notin {"computed", "notify"}
      BY <1>4 DEF LockForSend, AllSent, ReadReply, handlerVars
    <2> QED
      BY <1>1, <1>2, <2>1, ToldSame DEF ToldWhenDone, Unposed
  <1>5. CASE NotifyAll
    <2>1. /\ UNCHANGED <<calcData, syncData, problemId, isComputed, nextId>>
          /\ dispatcher' = "send"
          /\ handler' = [handler EXCEPT ![syncData[reply[1]]] = IF @ = "asleep" THEN "wait" ELSE @]
      BY <1>5 DEF NotifyAll
    <2> QED
      BY <1>1, <1>2, <2>1, ToldSame DEF ToldWhenDone, Unposed
  <1>6. ASSUME BooksGrow, dispatcher' \in {"computed", "notify"} =>
                 (reply[1] \in DOMAIN calcData /\ RootDone(reply[1]))',
               UNCHANGED <<handler, problemId, isComputed, syncData, nextId>>
        PROVE  ToldWhenDone'
    <2>1. DOMAIN calcData' = DOMAIN calcData /\ \A id \in DOMAIN calcData : RootDone(id) => RootDone(id)'
      BY <1>6, RootKept DEF BooksGrow
    <2> QED
      BY <1>1, <1>6, <2>1 DEF ToldWhenDone, Unposed
  <1>7. ASSUME NEW id \in ProblemsToSend, NEW task \in DOMAIN calcData[id].computable,
               SendTask(id, task)
        PROVE  ToldWhenDone'
    <2>1. /\ id \in DOMAIN calcData /\ dispatcher = "sending"
          /\ UNCHANGED <<handler, problemId, isComputed, syncData, nextId, dispatcher>>
      BY <1>7 DEF ProblemsToSend, SendTask, handlerVars, threadVars
    <2>2. BooksGrow
      BY <1>1, <1>7, <2>1, SentBooks
    <2> QED
      BY <1>6, <2>1, <2>2
  <1>8. CASE UpdateComputableTasks
    <2>1. dispatcher = "update" /\ UNCHANGED <<handler, problemId, isComputed, syncData, nextId>>
      BY <1>8, UpdateCases
    <2>2. CASE UNCHANGED <<calcData, dispatcher, reply>>
      BY <1>1, <1>2, <2>1, <2>2, ToldSame DEF ToldWhenDone, Unposed
    <2>3. ASSUME reply[1] \in DOMAIN calcData, reply[2] \in DOMAIN calcData[reply[1]].status,
                 Completes(reply[1], reply[2]),
                 \/ dispatcher' = "send"
                 \/ UNCHANGED reply /\ reply[2] = RootTask(Graph[calcData[reply[1]].request])
          PROVE  ToldWhenDone'
      <3>1. BooksGrow /\ calcData'[reply[1]].status[reply[2]] = "completed"
        BY <1>1, <2>3, CompletedBooks
      <3>2. CASE dispatcher' = "send"
        BY <1>6, <2>1, <3>1, <3>2
      <3>3. CASE UNCHANGED reply /\ reply[2] = RootTask(Graph[calcData[reply[1]].request])
        <4>1. (reply[1] \in DOMAIN calcData /\ RootDone(reply[1]))'
          BY <2>3, <3>1, <3>3 DEF BooksGrow, RootDone
        <4> QED
          BY <1>6, <2>1, <3>1, <4>1
      <3> QED
        BY <2>3, <3>2, <3>3
    <2> QED
      BY <1>8, <2>2, <2>3, UpdateCases
  <1>9. CASE SetComputed
    <2> DEFINE r == syncData[reply[1]]
    <2>1. /\ reply[1] \in DOMAIN calcData /\ RootDone(reply[1]) /\ dispatcher = "computed"
          /\ r \in Requests /\ ~Unposed(r) /\ problemId[r] = reply[1]
          /\ DOMAIN isComputed = Requests
      BY <1>1, <1>9 DEF SetComputed, ToldWhenDone
    <2>2. CASE UNCHANGED <<handler, problemId, isComputed, calcData, syncData, nextId, reply>>
      <3>1. \A id : RootDone(id)' <=> RootDone(id)
        BY <2>2 DEF RootDone
      <3> QED
        BY <1>1, <2>1, <2>2, <3>1 DEF ToldWhenDone, Unposed
    <2>3. CASE /\ isComputed' = [isComputed EXCEPT ![r] = TRUE]
               /\ UNCHANGED <<handler, problemId, calcData, syncData, nextId, reply>>
      <3>1. \A id : RootDone(id)' <=> RootDone(id)
        BY <2>3 DEF RootDone
      <3>2. /\ DOMAIN isComputed' = Requests /\ isComputed'[r] = TRUE
            /\ \A q \in Requests : q # r => isComputed'[q] = isComputed[q]
        BY <2>1, <2>3
      <3>3. problemId[r] \in 0..(nextId - 1)
        BY <1>1, <2>1 DEF BooksSound
      <3>4. \A q \in Requests :
              /\ isComputed'[q] \in BOOLEAN
              /\ handler[q] \in {"clear", "clearing"} => isComputed'[q] = TRUE
              /\ isComputed'[q] = TRUE =>
                   /\ ~Unposed(q) /\ problemId[q] \in 0..(nextId - 1)
                   /\ problemId[q] \in DOMAIN calcData => RootDone(problemId[q])
        <4> HIDE DEF r
        <4> QED
          BY <1>1, <2>1, <3>2, <3>3 DEF ToldWhenDone
      <3> HIDE DEF r
      <3> QED
        BY <1>1, <2>1, <2>3, <3>1, <3>2, <3>4 DEF ToldWhenDone, Unposed
    <2> QED
      BY <1>9, <2>2, <2>3 DEF SetComputed, Crash, handlerVars, threadVars
  <1>10. ASSUME NEW r \in Requests, PushProblem(r)
         PROVE  ToldWhenDone'
    <2>1. /\ handler[r] = "pushing" /\ handler' = [handler EXCEPT ![r] = "wait"]
          /\ problemId' = [problemId EXCEPT ![r] = nextId] /\ nextId' = nextId + 1
          /\ calcData' = [id \in DOMAIN calcData \cup {nextId} |->
                            IF id = nextId THEN New(r) ELSE calcData[id]]
          /\ syncData' = [id \in DOMAIN syncData \cup {nextId} |->
                            IF id = nextId THEN r ELSE syncData[id]]
          /\ UNCHANGED <<isComputed, dispatcher, reply>>
      BY <1>10 DEF PushProblem, Goto, threadVars
    <2>2. nextId \in Nat /\ DOMAIN calcData \subseteq 0..(nextId - 1) /\ nextId \notin DOMAIN calcData
      BY <1>1 DEF BooksSound
    <2>3. /\ DOMAIN problemId' = Requests /\ problemId'[r] = nextId
          /\ \A q \in Requests : q # r => problemId'[q] = problemId[q] /\ handler'[q] = handler[q]
          /\ DOMAIN handler' = Requests /\ handler'[r] = "wait"
      BY <1>1, <2>1 DEF ToldWhenDone
    <2>4. /\ DOMAIN syncData' = DOMAIN calcData' /\ DOMAIN calcData' = DOMAIN calcData \cup {nextId}
          /\ syncData'[nextId] = r
          /\ \A id \in DOMAIN calcData : calcData'[id] = calcData[id] /\ syncData'[id] = syncData[id]
      BY <1>2, <2>1, <2>2
    <2>5. (\A id \in DOMAIN syncData :
             syncData[id] \in Requests /\ ~Unposed(syncData[id]) /\ problemId[syncData[id]] = id)'
      BY <1>1, <1>2, <2>1, <2>3, <2>4 DEF ToldWhenDone, Unposed
    <2>6. isComputed[r] # TRUE
      BY <1>1, <2>1 DEF ToldWhenDone, Unposed
    <2>7. \A id \in DOMAIN calcData : RootDone(id) => RootDone(id)'
      BY <2>4, RootSame
    <2>8. ASSUME NEW q \in Requests, q # r, isComputed[q] = TRUE
          PROVE  /\ ~Unposed(q)' /\ problemId'[q] \in 0..(nextId' - 1)
                 /\ (problemId[q] \in DOMAIN calcData => RootDone(problemId[q]))'
      <3>1. PICK i : i = problemId[q]
        OBVIOUS
      <3>2. /\ ~Unposed(q) /\ i \in 0..(nextId - 1) /\ problemId'[q] = i
            /\ i \in DOMAIN calcData => RootDone(i)
            /\ handler'[q] = handler[q]
        BY <1>1, <2>3, <2>8, <3>1 DEF ToldWhenDone
      <3>3. i # nextId /\ i \in 0..(nextId' - 1)
        BY <2>1, <2>2, <3>2
      <3>4. ~Unposed(q)'
        BY <3>2 DEF Unposed
      <3>5. i \in DOMAIN calcData' => RootDone(i)'
        BY <2>4, <2>7, <3>2, <3>3
      <3> QED
        BY <3>2, <3>3, <3>4, <3>5 DEF RootDone
    <2>9. dispatcher' \in {"computed", "notify"} =>
            (reply[1] \in DOMAIN calcData /\ RootDone(reply[1]))'
      BY <1>1, <2>1, <2>4, <2>7 DEF ToldWhenDone, RootDone
    <2> QED
      BY <1>1, <2>1, <2>3, <2>4, <2>5, <2>6, <2>8, <2>9 DEF ToldWhenDone
  <1>11. ASSUME NEW r \in Requests, ClearProblem(r)
         PROVE  ToldWhenDone'
    <2>1. /\ handler[r] = "clearing" /\ handler' = [handler EXCEPT ![r] = "read"]
          /\ calcData' = [id \in DOMAIN calcData \ {problemId[r]} |-> calcData[id]]
          /\ syncData' = [id \in DOMAIN syncData \ {problemId[r]} |-> syncData[id]]
          /\ UNCHANGED <<problemId, isComputed, nextId, dispatcher, reply>>
      BY <1>11 DEF ClearProblem, Goto, threadVars
    <2>2. /\ DOMAIN syncData' = DOMAIN calcData' /\ DOMAIN calcData' \subseteq DOMAIN calcData
          /\ \A id \in DOMAIN calcData' : calcData'[id] = calcData[id] /\ syncData'[id] = syncData[id]
      BY <1>2, <2>1
    <2>3. dispatcher \notin {"computed", "notify"}
      BY <1>1, <2>1, DispatcherAssumption DEF LockHeld
    <2>4. \A id \in DOMAIN calcData' : RootDone(id) => RootDone(id)'
      BY <2>2, RootSame
    <2>5. /\ DOMAIN handler' = Requests /\ handler'[r] = "read"
          /\ \A q \in Requests : q # r => handler'[q] = handler[q]
      BY <1>2, <2>1
    <2> QED
      BY <1>1, <2>1, <2>2, <2>3, <2>4, <2>5 DEF ToldWhenDone, Unposed
  <1> QED
    BY <1>3, <1>4, <1>5, <1>7, <1>8, <1>9, <1>10, <1>11, ManagerSteps

-----------------------------------------------------------------------------
(* The manager conserves what is on the way as well, counted with the reply  *)
(* it has read.                                                              *)
Update == IF dispatcher = "update" THEN 1 ELSE 0

LEMMA ManagerQueues ==
    ASSUME QueuesSound, IsFiniteSet(Spread), UNCHANGED poolVars,
           IsSeq(taskPipe'), IsSeq(replyPipe')
    PROVE  /\ QueuesSound' /\ IsFiniteSet(Spread')
           /\ Len(taskPipe) \in Nat /\ Len(taskPipe') \in Nat
           /\ Len(replyPipe) \in Nat /\ Len(replyPipe') \in Nat
           /\ \E n \in Nat :
                /\ OnTheWay = n + Len(taskPipe) + Len(replyPipe) + Update
                /\ OnTheWay' = n + Len(taskPipe') + Len(replyPipe') + Update'
  <1>1. UNCHANGED <<taskQueue, sending, pub, dealer, tasks, thread, finished>>
    BY DEF poolVars, socketVars, brokerVars, workerVars
  <1>2. QueuesSound'
    BY <1>1 DEF QueuesSound, Threads
  <1>3. Spread' = Spread
    BY <1>1 DEF Spread, Share, Busy, Threads
  <1>4. /\ Len(taskPipe) \in Nat /\ Len(taskQueue) \in Nat /\ Cardinality(Spread) \in Nat
        /\ Len(sending) \in Nat /\ Len(replyPipe) \in Nat
    BY PooledType
  <1>5. Len(taskPipe') \in Nat /\ Len(replyPipe') \in Nat
    BY SeqFacts
  <1> DEFINE n == Len(taskQueue) + Cardinality(Spread) + Len(sending)
  <1>6. n \in Nat
    BY <1>4
  <1>7. Update \in Nat /\ Update' \in Nat
    BY DEF Update
  <1>8. OnTheWay = n + Len(taskPipe) + Len(replyPipe) + Update
    BY <1>4, <1>7 DEF OnTheWay, Update
  <1>9. OnTheWay' = n + Len(taskPipe') + Len(replyPipe') + Update'
    BY <1>1, <1>3, <1>4, <1>5, <1>7 DEF OnTheWay, Update
  <1> HIDE DEF n
  <1> QED
    BY <1>2, <1>3, <1>4, <1>5, <1>6, <1>8, <1>9

LEMMA ManagerConserves ==
    ASSUME WaitInv, ManagerNext, UNCHANGED poolVars
    PROVE  QueuesSound' /\ Conserved'
  <1>1. /\ BookInv /\ BooksSound /\ QueuesSound /\ IsFiniteSet(Spread) /\ IsFiniteSet(InProcess)
        /\ Cardinality(InProcess) \in Nat /\ (managerUp => OnTheWay <= Cardinality(InProcess))
    BY FS_CardinalityType DEF WaitInv, BookInv, Conserved
  <1>2. ASSUME IsSeq(taskPipe'), IsSeq(replyPipe'), IsFiniteSet(InProcess'), managerUp,
               managerUp' =>
                 Len(taskPipe') + Len(replyPipe') + Update' + Cardinality(InProcess)
                   <= Len(taskPipe) + Len(replyPipe) + Update + Cardinality(InProcess')
        PROVE  QueuesSound' /\ Conserved'
    <2>1. /\ QueuesSound' /\ IsFiniteSet(Spread')
          /\ Len(taskPipe) \in Nat /\ Len(taskPipe') \in Nat
          /\ Len(replyPipe) \in Nat /\ Len(replyPipe') \in Nat
      BY <1>1, <1>2, ManagerQueues
    <2>2. PICK n \in Nat :
                /\ OnTheWay = n + Len(taskPipe) + Len(replyPipe) + Update
                /\ OnTheWay' = n + Len(taskPipe') + Len(replyPipe') + Update'
      BY <1>1, <1>2, ManagerQueues
    <2>3. Update \in Nat /\ Update' \in Nat
      BY DEF Update
    <2>4. Cardinality(InProcess') \in Nat
      BY <1>2, FS_CardinalityType
    <2>5. \A n2, p, q, u, p2, q2, u2, c, c2 \in Nat :
            n2 + p + q + u <= c /\ p2 + q2 + u2 + c <= p + q + u + c2
              => n2 + p2 + q2 + u2 <= c2
      OBVIOUS
    <2>6. managerUp' => OnTheWay' <= Cardinality(InProcess')
      BY <1>1, <1>2, <2>1, <2>2, <2>3, <2>4, <2>5
    <2> QED
      BY <1>2, <2>1, <2>6 DEF Conserved
  <1>3. /\ IsSeq(taskPipe) /\ IsSeq(replyPipe) /\ Len(taskPipe) \in Nat /\ Len(replyPipe) \in Nat
    BY <1>1, PooledType DEF QueuesSound
  <1>4. ASSUME UNCHANGED <<taskPipe, replyPipe>>, InProcess' = InProcess, managerUp,
               dispatcher' = "update" => dispatcher = "update"
        PROVE  QueuesSound' /\ Conserved'
    <2>1. Update' <= Update /\ Update \in Nat /\ Update' \in Nat
      BY <1>4 DEF Update
    <2> QED
      BY <1>1, <1>2, <1>3, <1>4, <2>1
  <1>5. ASSUME UNCHANGED calcData
        PROVE  InProcess' = InProcess
    BY <1>5 DEF InProcess, WithStatus
  <1>6. ASSUME NEW r \in Requests,
               \/ Decompose(r) \/ LockForPush(r) \/ TestComputed(r) \/ WakeSpuriously(r)
               \/ LockForClear(r) \/ ReadResult(r) \/ ClearDatabase(r)
        PROVE  QueuesSound' /\ Conserved'
    <2>1. managerUp /\ UNCHANGED <<calcData, taskPipe, replyPipe, dispatcher>>
      BY <1>6 DEF Decompose, LockForPush, TestComputed, WakeSpuriously, LockForClear, ReadResult,
                  ClearDatabase, threadVars, pipeVars
    <2> QED
      BY <1>4, <1>5, <2>1
  <1>7. ASSUME NEW r \in Requests, PushProblem(r) \/ ClearProblem(r)
        PROVE  QueuesSound' /\ Conserved'
    <2>1. managerUp /\ UNCHANGED <<taskPipe, replyPipe, dispatcher>>
      BY <1>7 DEF PushProblem, ClearProblem, threadVars, pipeVars
    <2>2. InProcess' = InProcess
      <3>1. CASE PushProblem(r)
        <4>1. r \in Requests \ Rejected
          BY <1>1, <3>1 DEF PushProblem, BookInv, ToldWhenDone
        <4> QED
          BY <1>1, <3>1, <4>1, PushedBooks
      <3> QED
        BY <1>1, <1>7, <3>1, ClearedBooks
    <2> QED
      BY <1>4, <2>1, <2>2
  <1>8. CASE LockForSend \/ AllSent \/ SetComputed \/ NotifyAll
    <2>1. managerUp /\ UNCHANGED <<calcData, taskPipe, replyPipe>> /\ dispatcher' # "update"
      BY <1>8 DEF LockForSend, AllSent, SetComputed, Crash, NotifyAll, threadVars, pipeVars
    <2> QED
      BY <1>4, <1>5, <2>1
  <1>9. ASSUME NEW id \in ProblemsToSend, NEW task \in DOMAIN calcData[id].computable,
               SendTask(id, task)
        PROVE  QueuesSound' /\ Conserved'
    <2>1. /\ id \in DOMAIN calcData /\ managerUp /\ UNCHANGED <<replyPipe, dispatcher>>
          /\ \E e : taskPipe' = Append(taskPipe, e)
      BY <1>9 DEF ProblemsToSend, SendTask, SendOnTaskPipe, threadVars
    <2>2. IsSeq(taskPipe') /\ Len(taskPipe') = Len(taskPipe) + 1
      BY <1>3, <2>1, SeqAppend
    <2>3. <<id, task>> \notin InProcess /\ InProcess' = InProcess \cup {<<id, task>>}
      BY <1>1, <1>9, <2>1, SentBooks
    <2>4. IsFiniteSet(InProcess') /\ Cardinality(InProcess') = Cardinality(InProcess) + 1
      BY <1>1, <2>3, FS_AddElement
    <2>5. Update' = Update /\ Update \in Nat
      BY <2>1 DEF Update
    <2> QED
      BY <1>1, <1>2, <1>3, <2>1, <2>2, <2>4, <2>5
  <1>10. CASE ReadReply
    <2>1. managerUp /\ dispatcher = "read" /\ UNCHANGED <<calcData, taskPipe>>
      BY <1>10 DEF ReadReply
    <2>2. CASE replyPipe = <<>> /\ dispatcher' = "send" /\ UNCHANGED replyPipe
      BY <1>4, <1>5, <2>1, <2>2
    <2>3. CASE replyPipe # <<>> /\ replyPipe' = Tail(replyPipe) /\ dispatcher' = "update"
      <3>1. IsSeq(replyPipe') /\ Len(replyPipe') = Len(replyPipe) - 1
        BY <1>3, <2>3, SeqTail
      <3>2. Update = 0 /\ Update' = 1
        BY <2>1, <2>3 DEF Update
      <3>3. InProcess' = InProcess
        BY <1>5, <2>1
      <3> QED
        BY <1>1, <1>2, <1>3, <2>1, <3>1, <3>2, <3>3
    <2> QED
      BY <1>10, <2>2, <2>3 DEF ReadReply
  <1>11. CASE UpdateComputableTasks
    <2>1. managerUp /\ dispatcher = "update" /\ UNCHANGED <<taskPipe, replyPipe>>
      BY <1>11, UpdateCases DEF pipeVars
    <2>2. CASE UNCHANGED calcData
      BY <1>4, <1>5, <2>1, <2>2
    <2>3. CASE /\ reply[1] \in DOMAIN calcData /\ reply[2] \in DOMAIN calcData[reply[1]].status
               /\ Completes(reply[1], reply[2]) /\ dispatcher' # "update"
      <3>1. InProcess' = InProcess \ {<<reply[1], reply[2]>>}
        BY <1>1, <2>3, CompletedBooks
      <3>2. /\ IsFiniteSet(InProcess')
            /\ \/ Cardinality(InProcess') = Cardinality(InProcess) - 1
               \/ Cardinality(InProcess') = Cardinality(InProcess)
        BY <1>1, <3>1, FS_RemoveElement
      <3>3. Update = 1 /\ Update' = 0
        BY <2>1, <2>3 DEF Update
      <3>4. Cardinality(InProcess') \in Nat
        BY <3>2, FS_CardinalityType
      <3> QED
        BY <1>1, <1>2, <1>3, <2>1, <3>2, <3>3, <3>4
    <2> QED
      BY <1>11, <2>2, <2>3, UpdateCases
  <1> QED
    BY <1>6, <1>7, <1>8, <1>9, <1>10, <1>11, ManagerSteps

-----------------------------------------------------------------------------
(* The invariant holds at the start, ...                                     *)
LEMMA WaitInit == Init => WaitInv
  <1> SUFFICES ASSUME Init PROVE WaitInv
    OBVIOUS
  <1> USE DEF Init, ManagerInit, PipeInit, SocketsInit, BrokerInit, WorkerInit
  <1>1. BooksSound
    BY DEF BooksSound
  <1>2. LockHeld
    BY DEF LockHeld
  <1>3. ToldWhenDone
    BY DEF ToldWhenDone
  <1>4. QueuesSound
    BY SeqEmpty DEF QueuesSound
  <1>5. \A w \in Workers : Share(w) = 0
    <2> SUFFICES ASSUME NEW w \in Workers PROVE Share(w) = 0
      OBVIOUS
    <2>1. /\ pub[w] = <<>> /\ tasks[w] = <<>> /\ finished[w] = <<>> /\ dealer[w] = <<>>
          /\ \A k \in Threads(w) : thread[w][k].pc = "idle"
      BY DEF Idle
    <2>2. MineIn(pub[w], w) = {} /\ ReportsIn(dealer[w]) = {} /\ Busy(w) = {}
      BY <2>1 DEF MineIn, ReportsIn, Busy
    <2>3. /\ Cardinality(MineIn(pub[w], w)) = 0 /\ Len(tasks[w]) = 0 /\ Cardinality(Busy(w)) = 0
          /\ Len(finished[w]) = 0 /\ Cardinality(ReportsIn(dealer[w])) = 0
      BY <2>1, <2>2, SeqEmpty, FS_EmptySet
    <2> QED
      BY <2>3 DEF Share
  <1>6. Spread = {} /\ InProcess = {}
    BY <1>5 DEF Spread, Tokens, InProcess
  <1>7. OnTheWay = 0
    BY <1>6, SeqEmpty, FS_EmptySet DEF OnTheWay
  <1>8. Conserved
    BY <1>6, <1>7, FS_EmptySet DEF Conserved
  <1> QED
    BY <1>1, <1>2, <1>3, <1>4, <1>8 DEF WaitInv, BookInv

(* ... steps outside the manager keep it, ...                                *)
LEMMA PoolStep ==
    ASSUME WaitInv, UNCHANGED managerVars, Conserves
    PROVE  WaitInv'
  <1>1. /\ UNCHANGED <<handler, problemId, isComputed, calcData, syncData, m, nextId, dispatcher>>
        /\ UNCHANGED <<reply, managerUp>>
    BY DEF managerVars, handlerVars, threadVars
  <1>2. BookInv'
    <2>1. BooksSound'
      BY <1>1 DEF WaitInv, BookInv, BooksSound, BookSound
    <2>2. LockHeld'
      BY <1>1 DEF WaitInv, BookInv, LockHeld
    <2>3. \A id : RootDone(id)' <=> RootDone(id)
      BY <1>1 DEF RootDone
    <2>4. ToldWhenDone'
      BY <1>1, <2>3 DEF WaitInv, BookInv, ToldWhenDone, Unposed
    <2> QED
      BY <2>1, <2>2, <2>4 DEF BookInv
  <1>3. InProcess' = InProcess
    BY <1>1 DEF InProcess, WithStatus
  <1>4. /\ QueuesSound /\ IsFiniteSet(Spread) /\ QueuesSound' /\ IsFiniteSet(Spread')
        /\ IsFiniteSet(InProcess) /\ Cardinality(InProcess) \in Nat /\ Pooled' <= Pooled
    BY FS_CardinalityType DEF WaitInv, Conserved, Conserves
  <1>5. Pooled \in Nat
    BY <1>4, PooledType DEF Pooled
  <1>6. Pooled' \in Nat
    BY <1>4, NextPooledNumber
  <1>7. OnTheWay = Pooled + Update /\ OnTheWay' = Pooled' + Update'
    BY DEF OnTheWay, Pooled, Update
  <1>8. Update' = Update /\ Update \in Nat
    BY <1>1 DEF Update
  <1>9. managerUp' => OnTheWay' <= Cardinality(InProcess')
    BY <1>1, <1>3, <1>4, <1>5, <1>6, <1>7, <1>8 DEF WaitInv, Conserved
  <1> QED
    BY <1>2, <1>3, <1>4, <1>9 DEF WaitInv, Conserved

(* ... and so does every step.                                               *)
LEMMA WaitStep == WaitInv /\ [Next]_vars => WaitInv'
  <1> SUFFICES ASSUME WaitInv, [Next]_vars
               PROVE  WaitInv'
    OBVIOUS
  <1>1. QueuesSound /\ IsFiniteSet(Spread) /\ BookInv
    BY DEF WaitInv, Conserved
  <1>2. CASE ManagerStep(ManagerNext)
    <2>1. ManagerNext /\ UNCHANGED poolVars
      BY <1>2 DEF ManagerStep
    <2>2. BookInv'
      BY <1>1, <2>1, BooksStep, LockStep, ToldStep DEF BookInv
    <2>3. QueuesSound' /\ Conserved'
      BY <2>1, ManagerConserves
    <2> QED
      BY <2>2, <2>3 DEF WaitInv
  <1>3. CASE BrokerStep(BrokerNext)
    <2>1. BrokerNext /\ UNCHANGED <<managerVars, workerVars>>
      BY <1>3 DEF BrokerStep
    <2> QED
      BY <1>1, <2>1, BrokerConserves, PoolStep
  <1>4. ASSUME NEW w \in Workers, WorkerStep(WorkerNext(w))
        PROVE  WaitInv'
    <2>1. WorkerNext(w) /\ Elsewhere /\ UNCHANGED managerVars
      BY <1>4 DEF WorkerStep, Elsewhere, brokerVars, pipeVars
    <2> QED
      BY <1>1, <2>1, WorkerConserves, PoolStep
  <1>5. CASE UNCHANGED vars
    <2>1. /\ UNCHANGED managerVars
          /\ UNCHANGED <<taskPipe, replyPipe, taskQueue, sending, pub, dealer, tasks, thread, finished>>
      BY <1>5 DEF vars, poolVars, pipeVars, socketVars, brokerVars, workerVars
    <2>2. QueuesSound'
      BY <1>1, <2>1 DEF QueuesSound, Threads
    <2>3. Spread' = Spread
      BY <2>1 DEF Spread, Share, Busy, Threads
    <2>4. Conserves
      BY <1>1, <2>1, <2>2, <2>3, PooledType DEF Conserves, Pooled
    <2> QED
      BY <2>1, <2>4, PoolStep
  <1> QED
    BY <1>2, <1>3, <1>4, <1>5 DEF Next

LEMMA WaitInvariance == Spec => []WaitInv
  BY WaitInit, WaitStep, PTL DEF Spec

-----------------------------------------------------------------------------
(* The books of a manager are finite.                                        *)
LEMMA FiniteImage ==
    ASSUME NEW S, IsFiniteSet(S), NEW f, DOMAIN f = S
    PROVE  IsFiniteSet({f[x] : x \in S})
  <1> DEFINE T == {f[x] : x \in S}
             g == [x \in S |-> f[x]]
  <1>1. g \in Surjection(S, T)
    BY DEF Surjection
  <1> QED
    BY <1>1, FS_Surjection

LEMMA ToSendFinite ==
    ASSUME BooksSound
    PROVE  IsFiniteSet(ToSend)
  <1> DEFINE Row(id) == {<<id, v>> : v \in DOMAIN calcData[id].computable}
             rows == [id \in DOMAIN calcData |-> Row(id)]
  <1>1. IsFiniteSet(DOMAIN calcData)
    <2>1. IsFiniteSet(0..(nextId - 1)) /\ DOMAIN calcData \subseteq 0..(nextId - 1)
      BY FS_Interval DEF BooksSound
    <2> QED
      BY <2>1, FS_Subset
  <1>2. ASSUME NEW id \in DOMAIN calcData
        PROVE  IsFiniteSet(Row(id))
    <2> DEFINE g == Graph[calcData[id].request]
               D == DOMAIN calcData[id].computable
               pair == [v \in D |-> <<id, v>>]
    <2>1. OperandsFirst(g) /\ D \subseteq Vertices(g)
      BY GraphAssumption DEF BooksSound, BookSound
    <2>2. g.tasks \in Seq(Vertices(g)) /\ Vertices(g) = {g.tasks[i] : i \in DOMAIN g.tasks}
      BY <2>1 DEF OperandsFirst
    <2>3. IsFiniteSet(DOMAIN g.tasks)
      BY <2>2, SeqFacts DEF IsSeq
    <2>4. IsFiniteSet(Vertices(g))
      BY <2>2, <2>3, FiniteImage
    <2>5. IsFiniteSet(D)
      BY <2>1, <2>4, FS_Subset
    <2>6. IsFiniteSet({pair[v] : v \in D})
      <3> HIDE DEF D
      <3> QED
        BY <2>5, FiniteImage
    <2>7. Row(id) = {pair[v] : v \in D}
      OBVIOUS
    <2> QED
      BY <2>6, <2>7
  <1> HIDE DEF Row
  <1>3. IsFiniteSet({rows[id] : id \in DOMAIN calcData})
    BY <1>1, FiniteImage
  <1>4. ToSend = UNION {rows[id] : id \in DOMAIN calcData}
    BY DEF ToSend, Row
  <1>5. \A T \in {rows[id] : id \in DOMAIN calcData} : IsFiniteSet(T)
    BY <1>2
  <1> QED
    BY <1>3, <1>4, <1>5, FS_UNION

(* If both wait, both pipes are full, the broker has one more result in      *)
(* hand, and a task is still to be sent: 2 * PipeHwm + 2 tasks.              *)
LEMMA FewTasksNoWait == WaitInv => (FewUnderWay => NoMutualWait)
  <1> SUFFICES ASSUME WaitInv, FewUnderWay, DispatcherBlocked, BrokerBlocked
               PROVE  FALSE
    BY DEF NoMutualWait
  <1>1. /\ BooksSound /\ QueuesSound /\ IsFiniteSet(Spread) /\ IsFiniteSet(InProcess)
        /\ managerUp => OnTheWay <= Cardinality(InProcess)
    BY DEF WaitInv, BookInv, Conserved
  <1>2. /\ managerUp /\ Len(taskPipe) = PipeHwm /\ Len(replyPipe) = PipeHwm
        /\ dispatcher = "sending" /\ sending # <<>> /\ ProblemsToSend # {} /\ PipeHwm \in Nat
    BY PipeHwmAssumption DEF DispatcherBlocked, BrokerBlocked
  <1>3. Len(sending) \in Nat \ {0}
    BY <1>1, <1>2, SeqTail DEF QueuesSound
  <1>4. Len(taskQueue) \in Nat /\ Cardinality(Spread) \in Nat
    BY <1>1, PooledType
  <1>5. Cardinality(InProcess) \in Nat
    BY <1>1, FS_CardinalityType
  <1>6. OnTheWay = PipeHwm + Len(taskQueue) + Cardinality(Spread) + Len(sending) + PipeHwm + 0
    BY <1>2 DEF OnTheWay
  <1>7. \A h, q, s, x \in Nat : x # 0 => h + q + s + x + h + 0 >= 2 * h + 1
    OBVIOUS
  <1>8. Cardinality(InProcess) >= 2 * PipeHwm + 1
    BY <1>1, <1>2, <1>3, <1>4, <1>5, <1>6, <1>7
  <1>9. PICK id \in DOMAIN calcData : \E v : v \in DOMAIN calcData[id].computable
    BY <1>2 DEF ProblemsToSend
  <1>10. PICK v : v \in DOMAIN calcData[id].computable
    BY <1>9
  <1>11. <<id, v>> \in ToSend
    BY <1>9, <1>10 DEF ToSend
  <1>12. <<id, v>> \notin InProcess
    <2>1. v \notin DOMAIN calcData[id].status
      BY <1>1, <1>9, <1>10 DEF BooksSound, BookSound
    <2> QED
      BY <2>1 DEF InProcess, WithStatus
  <1>13. /\ IsFiniteSet(InProcess \cup {<<id, v>>})
         /\ Cardinality(InProcess \cup {<<id, v>>}) = Cardinality(InProcess) + 1
    BY <1>1, <1>12, FS_AddElement
  <1>14. IsFiniteSet(UnderWay)
    BY <1>1, ToSendFinite, FS_Union DEF UnderWay
  <1>15. InProcess \cup {<<id, v>>} \subseteq UnderWay
    BY <1>11 DEF UnderWay
  <1>16. Cardinality(InProcess) + 1 <= Cardinality(UnderWay) /\ Cardinality(UnderWay) \in Nat
    BY <1>13, <1>14, <1>15, FS_Subset, FS_CardinalityType
  <1> QED
    BY <1>2, <1>5, <1>8, <1>16 DEF FewUnderWay

(* The dispatcher sends with m_ held and reads no reply meanwhile, and the   *)
(* broker hands a result over before it reads the next task: as long as at   *)
(* most 2 * PipeHwm + 1 tasks are in process or to be sent, the two never    *)
(* wait for each other's pipe.  Run system checks the conclusion on an       *)
(* instance whose graphs never have more tasks under way.                    *)
THEOREM NoMutualWaitHolds == Spec => [](FewUnderWay => NoMutualWait)
  BY WaitInvariance, FewTasksNoWait, PTL

-----------------------------------------------------------------------------
(* The second theorem: right answers.  Where the messages and results of a   *)
(* step come from.                                                           *)
Among(x, s) == \E j \in DOMAIN s : x = s[j]

LEMMA AmongAppend ==
    ASSUME NEW s, IsSeq(s), NEW e, NEW t, t = Append(s, e)
    PROVE  \A i \in DOMAIN t : t[i] = e \/ Among(t[i], s)
  BY SeqAppend DEF Among

LEMMA AmongTail ==
    ASSUME NEW s, IsSeq(s), s # <<>>, NEW t, t = Tail(s)
    PROVE  Among(Head(s), s) /\ \A i \in DOMAIN t : Among(t[i], s)
  <1>1. DOMAIN s = 1..Len(s) /\ Len(s) \in Nat
    BY SeqFacts
  <1>2. /\ Len(s) \in Nat \ {0} /\ DOMAIN t = 1..(Len(s) - 1) /\ Head(s) = s[1]
        /\ \A i \in DOMAIN t : t[i] = s[i + 1]
    BY SeqTail
  <1>3. 1 \in DOMAIN s /\ \A i \in DOMAIN t : i + 1 \in DOMAIN s
    BY <1>1, <1>2
  <1> QED
    BY <1>2, <1>3 DEF Among

LEMMA AmongPrefix ==
    ASSUME NEW s, IsSeq(s), NEW n \in 0..Len(s), NEW t, t = SubSeq(s, 1, n)
    PROVE  \A i \in DOMAIN t : Among(t[i], s)
  <1>1. DOMAIN s = 1..Len(s) /\ Len(s) \in Nat
    BY SeqFacts
  <1>2. DOMAIN t = 1..n /\ \A i \in 1..n : t[i] = s[i]
    BY SeqPrefix
  <1> QED
    BY <1>1, <1>2 DEF Among

LEMMA AmongSame ==
    ASSUME NEW s, NEW t, t = s
    PROVE  \A i \in DOMAIN t : Among(t[i], s)
  BY DEF Among

LEMMA AmongNone ==
    ASSUME NEW s, NEW t, t = <<>>
    PROVE  \A i \in DOMAIN t : Among(t[i], s)
  OBVIOUS

(* What the thread of a worker may become, ...                               *)
Operands(task) == [i \in DOMAIN task.operands |-> ReadData(task.operands[i])]

ThreadPasses(v, k) ==
    LET old == thread[v][k]
        new == thread'[v][k]
    IN  \/ new = old
        \/ new.pc \in {"idle", "asleep"}
        \/ new.pc = "calculate" /\ Among(new.task, tasks[v])
        \/ /\ old.pc = "calculate" /\ new.pc = "write" /\ new.task = old.task
           /\ \A i \in DOMAIN old.task.task.operands : Operands(old.task.task)[i] # Exception
           /\ new.result = CalculateTaskImpl(old.task.task.op, Operands(old.task.task))
           /\ new.result # Exception
        \/ /\ old.pc = "write" /\ new.pc = "push" /\ new.task = old.task
           /\ WriteDynamicData(old.task.task.id, old.result)

(* ... and its queues.                                                       *)
QueuesPass(v) ==
    /\ \A i \in DOMAIN pub'[v] : Among(pub'[v][i], pub[v])
    /\ \A i \in DOMAIN tasks'[v] : Among(tasks'[v][i], tasks[v]) \/ Among(tasks'[v][i], pub[v])
    /\ \A i \in DOMAIN finished'[v] :
         \/ Among(finished'[v][i], finished[v])
         \/ \E k \in Threads(v) :
              thread[v][k].pc = "push" /\ finished'[v][i].id = thread[v][k].task.task.id
    /\ \A i \in DOMAIN dealer'[v] :
         \/ Among(dealer'[v][i], dealer[v])
         \/ dealer'[v][i].data = "core_count"
         \/ Among(dealer'[v][i].task_id, finished[v])

(* Only WriteResult writes to the database.                                  *)
Writes(v) ==
    \/ UNCHANGED db
    \/ \E k \in Threads(v) :
         thread[v][k].pc = "write" /\ WriteDynamicData(thread[v][k].task.task.id, thread[v][k].result)

WorkerPasses ==
    /\ \A v \in Workers : QueuesPass(v) /\ \A k \in Threads(v) : ThreadPasses(v, k)
    /\ UNCHANGED db \/ \E v \in Workers : Writes(v)

(* The steps of worker w, each of which touches nothing of another.          *)
LEMMA WorkerLocal ==
    ASSUME QueuesSound, NEW w \in Workers,
           OnlyOf(w, pub, pub'), OnlyOf(w, tasks, tasks'), OnlyOf(w, thread, thread'),
           OnlyOf(w, finished, finished'), OnlyOf(w, dealer, dealer'),
           QueuesPass(w), \A k \in Threads(w) : ThreadPasses(w, k), Writes(w)
    PROVE  WorkerPasses
  <1>1. ASSUME NEW v \in Workers, v # w
        PROVE  QueuesPass(v) /\ \A k \in Threads(v) : ThreadPasses(v, k)
    <2>1. /\ pub'[v] = pub[v] /\ tasks'[v] = tasks[v] /\ thread'[v] = thread[v]
          /\ finished'[v] = finished[v] /\ dealer'[v] = dealer[v]
      BY <1>1 DEF OnlyOf, QueuesSound
    <2>2. QueuesPass(v)
      BY <2>1 DEF QueuesPass, Among
    <2>3. \A k \in Threads(v) : ThreadPasses(v, k)
      BY <2>1 DEF ThreadPasses
    <2> QED
      BY <2>2, <2>3
  <1> QED
    BY <1>1 DEF WorkerPasses

LEMMA WorkerProvenance ==
    ASSUME QueuesSound, NEW w \in Workers, WorkerNext(w)
    PROVE  WorkerPasses
  <1>d. /\ DOMAIN pub = Workers /\ DOMAIN tasks = Workers /\ DOMAIN thread = Workers
        /\ DOMAIN finished = Workers /\ DOMAIN dealer = Workers
        /\ IsSeq(pub[w]) /\ IsSeq(tasks[w]) /\ IsSeq(finished[w]) /\ IsSeq(dealer[w])
        /\ DOMAIN thread[w] = Threads(w)
    BY DEF QueuesSound
  <1>o. \A f : OnlyOf(w, f, f)
    BY DEF OnlyOf
  <1>e. \A f, e : w \in DOMAIN f => OnlyOf(w, f, [f EXCEPT ![w] = e]) /\ [f EXCEPT ![w] = e][w] = e
    BY DEF OnlyOf
  <1>t. ASSUME UNCHANGED thread
        PROVE  OnlyOf(w, thread, thread') /\ \A k \in Threads(w) : ThreadPasses(w, k)
    BY <1>o, <1>t DEF ThreadPasses
  <1>k. ASSUME NEW k \in Threads(w), NEW new, thread' = [thread EXCEPT ![w][k] = new],
               \/ new.pc \in {"idle", "asleep"}
               \/ ThreadPasses(w, k)
        PROVE  OnlyOf(w, thread, thread') /\ \A j \in Threads(w) : ThreadPasses(w, j)
    <2>1. /\ OnlyOf(w, thread, thread') /\ thread'[w][k] = new
          /\ \A j \in Threads(w) : j # k => thread'[w][j] = thread[w][j]
      BY <1>d, <1>k DEF OnlyOf
    <2> QED
      BY <1>k, <2>1 DEF ThreadPasses
  <1>1. ASSUME UNCHANGED <<pub, dealer, tasks, finished, db>>, OnlyOf(w, thread, thread'),
               \A k \in Threads(w) : ThreadPasses(w, k)
        PROVE  WorkerPasses
    <2>1. QueuesPass(w)
      BY <1>1, AmongSame DEF QueuesPass
    <2>2. Writes(w)
      BY <1>1 DEF Writes
    <2> QED
      BY <1>1, <1>o, <2>1, <2>2, WorkerLocal
  <1>2. CASE Subscribe(w) \/ NothingToRead(w)
    BY <1>1, <1>2, <1>t DEF Subscribe, NothingToRead, workerVars, socketVars
  <1>3. CASE NotifyOne(w)
    <2>1. UNCHANGED <<pub, dealer, tasks, finished, db>>
      BY <1>3 DEF NotifyOne, socketVars
    <2>2. OnlyOf(w, thread, thread') /\ \A k \in Threads(w) : ThreadPasses(w, k)
      <3>1. CASE UNCHANGED thread
        BY <1>t, <3>1
      <3>2. ASSUME NEW k \in Sleeping(w), thread' = [thread EXCEPT ![w][k] = Idle]
            PROVE  OnlyOf(w, thread, thread') /\ \A j \in Threads(w) : ThreadPasses(w, j)
        <4>1. k \in Threads(w) /\ Idle.pc = "idle"
          BY <3>2 DEF Sleeping, Idle
        <4> QED
          BY <1>k, <3>2, <4>1
      <3> QED
        BY <1>3, <3>1, <3>2 DEF NotifyOne
    <2> QED
      BY <1>1, <2>1, <2>2
  <1>4. ASSUME NEW k \in Threads(w), SpuriousWakeup(w, k)
        PROVE  WorkerPasses
    <2>1. UNCHANGED <<pub, dealer, tasks, finished, db>> /\ thread' = [thread EXCEPT ![w][k] = Idle]
      BY <1>4 DEF SpuriousWakeup, socketVars
    <2>2. Idle.pc = "idle"
      BY DEF Idle
    <2>3. OnlyOf(w, thread, thread') /\ \A j \in Threads(w) : ThreadPasses(w, j)
      BY <1>k, <2>1, <2>2
    <2> QED
      BY <1>1, <2>1, <2>3
  <1>5. CASE SendAckMessage(w)
    <2> DEFINE message == [data |-> "core_count", core_count |-> CoreCount[w] - 1]
    <2>1. /\ UNCHANGED <<pub, tasks, thread, finished, db>>
          /\ dealer' = [dealer EXCEPT ![w] = Append(dealer[w], message)]
      BY <1>5 DEF SendAckMessage
    <2>2. OnlyOf(w, dealer, dealer') /\ dealer'[w] = Append(dealer[w], message)
      BY <1>d, <1>e, <2>1
    <2>3. message.data = "core_count"
      OBVIOUS
    <2> HIDE DEF message
    <2>4. \A i \in DOMAIN dealer'[w] : dealer'[w][i] = message \/ Among(dealer'[w][i], dealer[w])
      BY <1>d, <2>2, AmongAppend
    <2>5. QueuesPass(w) /\ Writes(w)
      BY <2>1, <2>3, <2>4, AmongSame DEF QueuesPass, Writes
    <2> QED
      BY <1>o, <1>t, <2>1, <2>2, <2>5, WorkerLocal
  <1>6. CASE ReadRequest(w)
    <2>1. /\ UNCHANGED <<dealer, thread, finished, db>> /\ pub[w] # <<>>
          /\ pub' = [pub EXCEPT ![w] = Tail(pub[w])]
          /\ tasks' = [tasks EXCEPT ![w] = Append(tasks[w], Head(pub[w]))] \/ UNCHANGED tasks
      BY <1>6 DEF ReadRequest
    <2>2. OnlyOf(w, pub, pub') /\ pub'[w] = Tail(pub[w])
      BY <1>d, <1>e, <2>1
    <2>3. Among(Head(pub[w]), pub[w]) /\ \A i \in DOMAIN pub'[w] : Among(pub'[w][i], pub[w])
      BY <1>d, <2>1, <2>2, AmongTail
    <2>4. /\ OnlyOf(w, tasks, tasks')
          /\ \A i \in DOMAIN tasks'[w] : Among(tasks'[w][i], tasks[w]) \/ Among(tasks'[w][i], pub[w])
      <3>1. CASE UNCHANGED tasks
        BY <1>o, <3>1, AmongSame
      <3>2. CASE tasks' = [tasks EXCEPT ![w] = Append(tasks[w], Head(pub[w]))]
        <4>1. PICK e : e = Head(pub[w])
          OBVIOUS
        <4>2. OnlyOf(w, tasks, tasks') /\ tasks'[w] = Append(tasks[w], e)
          BY <1>d, <1>e, <3>2, <4>1
        <4>3. \A i \in DOMAIN tasks'[w] : tasks'[w][i] = e \/ Among(tasks'[w][i], tasks[w])
          BY <1>d, <4>2, AmongAppend
        <4> QED
          BY <2>3, <4>1, <4>2, <4>3
      <3> QED
        BY <2>1, <3>1, <3>2
    <2>5. QueuesPass(w) /\ Writes(w)
      BY <2>1, <2>3, <2>4, AmongSame DEF QueuesPass, Writes
    <2> QED
      BY <1>o, <1>t, <2>1, <2>2, <2>4, <2>5, WorkerLocal
  <1>7. CASE CheckOutputQueue(w)
    <2>1. UNCHANGED <<pub, tasks, thread, db>>
      BY <1>7 DEF CheckOutputQueue
    <2>2. CASE UNCHANGED <<finished, dealer>>
      BY <1>1, <1>t, <2>1, <2>2
    <2>3. ASSUME finished[w] # <<>>,
                 dealer' = [dealer EXCEPT ![w] = Append(dealer[w],
                              [data |-> "task_id", task_id |-> Head(finished[w])])],
                 finished' = [finished EXCEPT ![w] = Tail(finished[w])]
          PROVE  WorkerPasses
      <3> DEFINE message == [data |-> "task_id", task_id |-> Head(finished[w])]
      <3>1. /\ OnlyOf(w, dealer, dealer') /\ dealer'[w] = Append(dealer[w], message)
            /\ OnlyOf(w, finished, finished') /\ finished'[w] = Tail(finished[w])
        BY <1>d, <1>e, <2>3
      <3>2. message.task_id = Head(finished[w])
        OBVIOUS
      <3> HIDE DEF message
      <3>3. /\ Among(Head(finished[w]), finished[w])
            /\ \A i \in DOMAIN finished'[w] : Among(finished'[w][i], finished[w])
        BY <1>d, <2>3, <3>1, AmongTail
      <3>4. \A i \in DOMAIN dealer'[w] : dealer'[w][i] = message \/ Among(dealer'[w][i], dealer[w])
        BY <1>d, <3>1, AmongAppend
      <3>5. QueuesPass(w) /\ Writes(w)
        BY <2>1, <3>2, <3>3, <3>4, AmongSame DEF QueuesPass, Writes
      <3> QED
        BY <1>o, <1>t, <2>1, <3>1, <3>5, WorkerLocal
    <2> QED
      BY <1>7, <2>2, <2>3 DEF CheckOutputQueue
  <1>8. ASSUME NEW k \in Threads(w), TakeTask(w, k)
        PROVE  WorkerPasses
    <2>1. UNCHANGED <<pub, dealer, finished, db>>
      BY <1>8 DEF TakeTask, socketVars
    <2>2. CASE UNCHANGED tasks /\ thread' = [thread EXCEPT ![w][k] = Asleep]
      <3>1. Asleep.pc = "asleep"
        BY DEF Asleep
      <3>2. OnlyOf(w, thread, thread') /\ \A j \in Threads(w) : ThreadPasses(w, j)
        BY <1>k, <2>2, <3>1
      <3> QED
        BY <1>1, <2>1, <2>2, <3>2
    <2>3. ASSUME tasks[w] # <<>>, tasks' = [tasks EXCEPT ![w] = Tail(tasks[w])],
                 thread' = [thread EXCEPT ![w][k] = [pc |-> "calculate", task |-> Head(tasks[w])]]
          PROVE  WorkerPasses
      <3> DEFINE new == [pc |-> "calculate", task |-> Head(tasks[w])]
      <3>1. OnlyOf(w, tasks, tasks') /\ tasks'[w] = Tail(tasks[w])
        BY <1>d, <1>e, <2>3
      <3>2. Among(Head(tasks[w]), tasks[w]) /\ \A i \in DOMAIN tasks'[w] : Among(tasks'[w][i], tasks[w])
        BY <1>d, <2>3, <3>1, AmongTail
      <3>3. new.pc = "calculate" /\ new.task = Head(tasks[w]) /\ thread'[w][k] = new
        BY <1>d, <2>3
      <3> HIDE DEF new
      <3>4. ThreadPasses(w, k)
        BY <3>2, <3>3 DEF ThreadPasses
      <3>5. OnlyOf(w, thread, thread') /\ \A j \in Threads(w) : ThreadPasses(w, j)
        BY <1>k, <2>3, <3>4 DEF new
      <3>6. QueuesPass(w) /\ Writes(w)
        BY <2>1, <3>2, AmongSame DEF QueuesPass, Writes
      <3> QED
        BY <1>o, <2>1, <3>1, <3>5, <3>6, WorkerLocal
    <2> QED
      BY <1>8, <2>2, <2>3 DEF TakeTask
  <1>9. ASSUME NEW k \in Threads(w), CalculateTask(w, k)
        PROVE  WorkerPasses
    <2> DEFINE task == thread[w][k].task.task
               value == IF \E i \in DOMAIN Operands(task) : Operands(task)[i] = Exception
                        THEN Exception
                        ELSE CalculateTaskImpl(task.op, Operands(task))
    <2>1. /\ UNCHANGED db /\ thread[w][k].pc = "calculate"
          /\ \/ /\ value # Exception
                /\ thread' = [thread EXCEPT ![w][k] =
                                [pc |-> "write", task |-> thread[w][k].task, result |-> value]]
                /\ UNCHANGED <<socketVars, workerUp, workerPc, tasks, finished>>
             \/ Terminate(w)
      BY <1>9, <1>d DEF CalculateTask, ExtractOperands, Operands
    <2>2. ASSUME value # Exception, UNCHANGED <<socketVars, workerUp, workerPc, tasks, finished>>,
                 thread' = [thread EXCEPT ![w][k] =
                              [pc |-> "write", task |-> thread[w][k].task, result |-> value]]
          PROVE  WorkerPasses
      <3> DEFINE new == [pc |-> "write", task |-> thread[w][k].task, result |-> value]
      <3>1. /\ DOMAIN Operands(task) = DOMAIN task.operands
            /\ \A i \in DOMAIN task.operands : Operands(task)[i] # Exception
            /\ value = CalculateTaskImpl(task.op, Operands(task))
        BY <2>2 DEF Operands
      <3> HIDE DEF value
      <3>2. /\ new.pc = "write" /\ new.task = thread[w][k].task /\ new.result = value
            /\ thread'[w][k] = new
        BY <1>d, <2>2
      <3> HIDE DEF new
      <3>3. ThreadPasses(w, k)
        BY <2>1, <2>2, <3>1, <3>2 DEF ThreadPasses
      <3>4. OnlyOf(w, thread, thread') /\ \A j \in Threads(w) : ThreadPasses(w, j)
        BY <1>k, <2>2, <3>3 DEF new
      <3>5. UNCHANGED <<pub, dealer, tasks, finished, db>>
        BY <2>1, <2>2 DEF socketVars
      <3> QED
        BY <1>1, <3>4, <3>5
    <2>3. CASE Terminate(w)
      <3>1. PICK n \in 0..Len(dealer[w]) : dealer' = [dealer EXCEPT ![w] = SubSeq(dealer[w], 1, n)]
        BY <2>3 DEF Terminate
      <3>2. /\ OnlyOf(w, dealer, dealer') /\ dealer'[w] = SubSeq(dealer[w], 1, n)
            /\ OnlyOf(w, tasks, tasks') /\ tasks'[w] = <<>>
            /\ OnlyOf(w, finished, finished') /\ finished'[w] = <<>>
            /\ OnlyOf(w, pub, pub') /\ pub'[w] = <<>>
            /\ OnlyOf(w, thread, thread') /\ thread'[w] = [j \in Threads(w) |-> Idle]
        BY <1>d, <1>e, <2>3, <3>1 DEF Terminate
      <3>3. \A i \in DOMAIN dealer'[w] : Among(dealer'[w][i], dealer[w])
        BY <1>d, <3>2, AmongPrefix
      <3>4. QueuesPass(w) /\ Writes(w)
        BY <2>1, <3>2, <3>3, AmongNone DEF QueuesPass, Writes
      <3>5. \A j \in Threads(w) : ThreadPasses(w, j)
        BY <3>2 DEF ThreadPasses, Idle
      <3> QED
        BY <3>2, <3>4, <3>5, WorkerLocal
    <2> HIDE DEF value
    <2> QED
      BY <2>1, <2>2, <2>3
  <1>10. ASSUME NEW k \in Threads(w), WriteResult(w, k)
         PROVE  WorkerPasses
    <2> DEFINE new == [pc |-> "push", task |-> thread[w][k].task]
    <2>1. /\ UNCHANGED <<pub, dealer, tasks, finished>> /\ thread[w][k].pc = "write"
          /\ WriteDynamicData(thread[w][k].task.task.id, thread[w][k].result)
          /\ thread' = [thread EXCEPT ![w][k] = new]
      BY <1>10, <1>d DEF WriteResult, socketVars
    <2>2. new.pc = "push" /\ new.task = thread[w][k].task /\ thread'[w][k] = new
      BY <1>d, <2>1
    <2> HIDE DEF new
    <2>3. ThreadPasses(w, k)
      BY <2>1, <2>2 DEF ThreadPasses
    <2>4. OnlyOf(w, thread, thread') /\ \A j \in Threads(w) : ThreadPasses(w, j)
      BY <1>k, <2>1, <2>3
    <2>5. QueuesPass(w)
      BY <2>1, AmongSame DEF QueuesPass
    <2>6. Writes(w)
      BY <2>1 DEF Writes
    <2> QED
      BY <1>o, <2>1, <2>4, <2>5, <2>6, WorkerLocal
  <1>11. ASSUME NEW k \in Threads(w), PushFinished(w, k)
         PROVE  WorkerPasses
    <2> DEFINE answer == [identity |-> thread[w][k].task.identity, id |-> thread[w][k].task.task.id]
    <2>1. /\ UNCHANGED <<pub, dealer, tasks, db>> /\ thread[w][k].pc = "push"
          /\ finished' = [finished EXCEPT ![w] = Append(finished[w], answer)]
          /\ thread' = [thread EXCEPT ![w][k] = Idle]
      BY <1>11, <1>d DEF PushFinished, socketVars
    <2>2. answer.id = thread[w][k].task.task.id /\ Idle.pc = "idle"
      BY DEF Idle
    <2> HIDE DEF answer
    <2>3. OnlyOf(w, finished, finished') /\ finished'[w] = Append(finished[w], answer)
      BY <1>d, <1>e, <2>1
    <2>4. \A i \in DOMAIN finished'[w] :
            finished'[w][i] = answer \/ Among(finished'[w][i], finished[w])
      BY <1>d, <2>3, AmongAppend
    <2>5. OnlyOf(w, thread, thread') /\ \A j \in Threads(w) : ThreadPasses(w, j)
      BY <1>k, <2>1, <2>2
    <2>6. QueuesPass(w) /\ Writes(w)
      BY <2>1, <2>2, <2>4, AmongSame DEF QueuesPass, Writes
    <2> QED
      BY <1>o, <2>1, <2>3, <2>5, <2>6, WorkerLocal
  <1> QED
    BY <1>2, <1>3, <1>4, <1>5, <1>6, <1>7, <1>8, <1>9, <1>10, <1>11
    DEF WorkerNext, MainStep, ThreadStep

(* Where the broker's messages come from.                                    *)
TasksPass ==
    /\ \A i \in DOMAIN taskPipe' : Among(taskPipe'[i], taskPipe)
    /\ \A i \in DOMAIN taskQueue' : Among(taskQueue'[i], taskQueue) \/ Among(taskQueue'[i], taskPipe)
    /\ \A v \in Workers : \A i \in DOMAIN pub'[v] :
         \/ Among(pub'[v][i], pub[v])
         \/ Among(pub'[v][i].task, taskPipe) \/ Among(pub'[v][i].task, taskQueue)

ReportsPass ==
    /\ \A v \in Workers : \A i \in DOMAIN dealer'[v] : Among(dealer'[v][i], dealer[v])
    /\ \A i \in DOMAIN sending' :
         \/ Among(sending'[i], sending)
         \/ \E v \in Workers : \E j \in DOMAIN dealer[v] :
              dealer[v][j].data # "core_count" /\ sending'[i] = dealer[v][j].task_id.id
    /\ \A i \in DOMAIN replyPipe' : Among(replyPipe'[i], replyPipe) \/ Among(replyPipe'[i], sending)

LEMMA PublishPasses ==
    ASSUME QueuesSound, NEW w, NEW task, Publish([identity |-> w, task |-> task])
    PROVE  \A v \in Workers : \A i \in DOMAIN pub'[v] :
             Among(pub'[v][i], pub[v]) \/ pub'[v][i].task = task
  <1> DEFINE message == [identity |-> w, task |-> task]
  <1>1. message.task = task
    OBVIOUS
  <1>2. \A v \in Workers : pub'[v] = pub[v] \/ pub'[v] = Append(pub[v], message)
    BY DEF Publish
  <1> HIDE DEF message
  <1> SUFFICES ASSUME NEW v \in Workers, NEW i \in DOMAIN pub'[v]
               PROVE  Among(pub'[v][i], pub[v]) \/ pub'[v][i].task = task
    OBVIOUS
  <1>3. IsSeq(pub[v])
    BY DEF QueuesSound
  <1>4. CASE pub'[v] = pub[v]
    BY <1>4, AmongSame
  <1>5. CASE pub'[v] = Append(pub[v], message)
    <2>1. pub'[v][i] = message \/ Among(pub'[v][i], pub[v])
      BY <1>3, <1>5, AmongAppend
    <2> QED
      BY <1>1, <2>1
  <1> QED
    BY <1>2, <1>4, <1>5

LEMMA SeqLast ==
    ASSUME NEW s, IsSeq(s), s # <<>>
    PROVE  Among(s[Len(s)], s)
  <1>1. DOMAIN s = 1..Len(s) /\ Len(s) \in Nat \ {0}
    BY SeqFacts, SeqTail
  <1>2. Len(s) \in DOMAIN s
    BY <1>1
  <1> QED
    BY <1>2 DEF Among

LEMMA BrokerProvenance ==
    ASSUME QueuesSound, BrokerNext
    PROVE  TasksPass /\ ReportsPass
  <1>d. /\ IsSeq(taskPipe) /\ IsSeq(replyPipe) /\ IsSeq(taskQueue) /\ IsSeq(sending)
        /\ \A v \in Workers : IsSeq(dealer[v])
        /\ DOMAIN dealer = Workers
    BY DEF QueuesSound
  <1>q. ASSUME UNCHANGED taskQueue
        PROVE  \A i \in DOMAIN taskQueue' : Among(taskQueue'[i], taskQueue)
    BY <1>q, AmongSame
  <1>t. ASSUME UNCHANGED <<taskPipe, taskQueue, pub>>
        PROVE  TasksPass
    BY <1>t, AmongSame DEF TasksPass
  <1>r. ASSUME UNCHANGED <<dealer, sending, replyPipe>>
        PROVE  ReportsPass
    BY <1>r, AmongSame DEF ReportsPass
  <1>1. CASE BrokerPoll
    BY <1>1, <1>t, <1>r DEF BrokerPoll, pipeVars, socketVars
  <1>2. CASE SendResultToManager
    <2>1. UNCHANGED <<taskPipe, taskQueue, pub, dealer>> /\ sending # <<>> /\ sending' = <<>>
      BY <1>2 DEF SendResultToManager, socketVars
    <2>2. PICK e : e = sending[1] /\ replyPipe' = Append(replyPipe, e)
      BY <1>2 DEF SendResultToManager, SendOnReplyPipe
    <2>3. Among(e, sending)
      <3>1. DOMAIN sending = 1..Len(sending) /\ Len(sending) \in Nat \ {0}
        BY <1>d, <2>1, SeqFacts, SeqTail
      <3>2. 1 \in DOMAIN sending
        BY <3>1
      <3> QED
        BY <2>2, <3>2 DEF Among
    <2>4. \A i \in DOMAIN replyPipe' : replyPipe'[i] = e \/ Among(replyPipe'[i], replyPipe)
      BY <1>d, <2>2, AmongAppend
    <2>5. ReportsPass
      BY <2>1, <2>3, <2>4, AmongSame, AmongNone DEF ReportsPass
    <2> QED
      BY <1>t, <2>1, <2>5
  <1>3. CASE ReceiveManagerRequest
    <2>1. /\ taskPipe # <<>> /\ taskPipe' = Tail(taskPipe) /\ UNCHANGED <<sending, replyPipe, dealer>>
          /\ SendTaskToWorker(Head(taskPipe))
      BY <1>3 DEF ReceiveManagerRequest
    <2>2. PICK task : task = Head(taskPipe)
      OBVIOUS
    <2>3. Among(task, taskPipe) /\ \A i \in DOMAIN taskPipe' : Among(taskPipe'[i], taskPipe)
      BY <1>d, <2>1, <2>2, AmongTail
    <2>4. \/ taskQueue' = Append(taskQueue, task) /\ UNCHANGED pub
          \/ UNCHANGED taskQueue /\ \E w : Publish([identity |-> w, task |-> task])
      BY <2>1, <2>2 DEF SendTaskToWorker, SendTaskToWorkerImpl
    <2>5. CASE taskQueue' = Append(taskQueue, task) /\ UNCHANGED pub
      <3>1. \A i \in DOMAIN taskQueue' : taskQueue'[i] = task \/ Among(taskQueue'[i], taskQueue)
        BY <1>d, <2>5, AmongAppend
      <3> QED
        BY <1>r, <2>1, <2>3, <2>5, <3>1, AmongSame DEF TasksPass
    <2>6. ASSUME UNCHANGED taskQueue, NEW w, Publish([identity |-> w, task |-> task])
          PROVE  TasksPass /\ ReportsPass
      <3>1. \A v \in Workers : \A i \in DOMAIN pub'[v] :
              Among(pub'[v][i], pub[v]) \/ pub'[v][i].task = task
        BY <2>6, PublishPasses
      <3> QED
        BY <1>r, <2>1, <2>3, <2>6, <3>1, AmongSame DEF TasksPass
    <2> QED
      BY <2>4, <2>5, <2>6
  <1>4. ASSUME NEW w \in Workers, ReceiveWorkerMessage(w)
        PROVE  TasksPass /\ ReportsPass
    <2>1. PICK message : message = Head(dealer[w])
      OBVIOUS
    <2>2. /\ dealer[w] # <<>> /\ dealer' = [dealer EXCEPT ![w] = Tail(dealer[w])]
          /\ UNCHANGED <<taskPipe, replyPipe>>
          /\ IF message.data = "core_count"
             THEN RegisterWorker(w, message.core_count)
             ELSE ProcessWorkerTaskReply(message.task_id)
      BY <1>4, <2>1 DEF ReceiveWorkerMessage, pipeVars
    <2>3. dealer'[w] = Tail(dealer[w]) /\ \A v \in Workers : v # w => dealer'[v] = dealer[v]
      BY <1>d, <2>2
    <2>4. Among(message, dealer[w]) /\ \A i \in DOMAIN dealer'[w] : Among(dealer'[w][i], dealer[w])
      BY <1>d, <2>1, <2>2, <2>3, AmongTail
    <2>5. \A v \in Workers : \A i \in DOMAIN dealer'[v] : Among(dealer'[v][i], dealer[v])
      BY <2>3, <2>4, AmongSame
    <2>6. \A i \in DOMAIN replyPipe' : Among(replyPipe'[i], replyPipe)
      BY <2>2, AmongSame
    <2>7. CASE message.data = "core_count"
      <3>1. UNCHANGED <<taskQueue, sending, pub>>
        BY <2>2, <2>7 DEF RegisterWorker
      <3>2. \A i \in DOMAIN sending' : Among(sending'[i], sending)
        BY <3>1, AmongSame
      <3> QED
        BY <1>t, <2>2, <2>5, <2>6, <3>1, <3>2 DEF ReportsPass
    <2>8. CASE message.data # "core_count"
      <3>1. /\ sending' = <<message.task_id.id>>
            /\ \/ UNCHANGED <<taskQueue, pub>>
               \/ /\ taskQueue # <<>> /\ taskQueue' = Tail(taskQueue)
                  /\ \E v : Publish([identity |-> v, task |-> taskQueue[Len(taskQueue)]])
        BY <2>2, <2>8 DEF ProcessWorkerTaskReply, SendTaskToWorkerFromQueue, SendTaskToWorkerImpl
      <3>2. \A i \in DOMAIN sending' : sending'[i] = message.task_id.id
        BY <3>1
      <3>3. PICK j \in DOMAIN dealer[w] : message = dealer[w][j]
        BY <2>4 DEF Among
      <3>4. ReportsPass
        BY <2>5, <2>6, <2>8, <3>2, <3>3 DEF ReportsPass
      <3>5. TasksPass
        <4>1. CASE UNCHANGED <<taskQueue, pub>>
          BY <1>t, <2>2, <4>1
        <4>2. ASSUME taskQueue # <<>>, taskQueue' = Tail(taskQueue),
                     NEW v, Publish([identity |-> v, task |-> taskQueue[Len(taskQueue)]])
              PROVE  TasksPass
          <5>1. PICK task : task = taskQueue[Len(taskQueue)]
            OBVIOUS
          <5>2. Among(task, taskQueue) /\ \A i \in DOMAIN taskQueue' : Among(taskQueue'[i], taskQueue)
            BY <1>d, <4>2, <5>1, SeqLast, AmongTail
          <5>3. \A u \in Workers : \A i \in DOMAIN pub'[u] :
                  Among(pub'[u][i], pub[u]) \/ pub'[u][i].task = task
            BY <4>2, <5>1, PublishPasses
          <5> QED
            BY <2>2, <5>2, <5>3, AmongSame DEF TasksPass
        <4> QED
          BY <3>1, <4>1, <4>2
      <3> QED
        BY <3>4, <3>5
    <2> QED
      BY <2>7, <2>8
  <1> QED
    BY <1>1, <1>2, <1>3, <1>4 DEF BrokerNext

-----------------------------------------------------------------------------
(* What a step makes of the handler of request r.                            *)
Quiet(r) ==
    /\ \/ handler[r] = "push" /\ handler'[r] = "pushing"
       \/ handler[r] = "wait" /\ handler'[r] = "asleep"
       \/ handler[r] = "asleep" /\ handler'[r] = "wait"
       \/ handler[r] = "clear" /\ handler'[r] = "clearing"
       \/ handler[r] = "clearing" /\ handler'[r] = "read"
       \/ handler[r] = "wait" /\ handler'[r] = "clear" /\ isComputed[r] = TRUE
       \/ handler[r] = "wait" /\ handler'[r] = "failed" /\ "out_of_range" \in RaceOutcomes
       \/ handler[r] = "start" /\ handler'[r] = "push" /\ Accepted(r)
       \/ handler[r] = "start" /\ handler'[r] = "failed" /\ ~Accepted(r)
    /\ UNCHANGED <<problemId, result, nextId, db>>

Poses(r) ==
    /\ handler[r] = "pushing" /\ handler'[r] = "wait"
    /\ problemId' = [problemId EXCEPT ![r] = nextId] /\ nextId' = nextId + 1
    /\ UNCHANGED <<result, db>>

Reads(r) ==
    LET value == ReadDynamicData(<<problemId[r], RootTask(Graph[r])>>)
    IN  /\ handler[r] = "read"
        /\ \/ value = Exception /\ handler'[r] = "failed" /\ UNCHANGED result
           \/ /\ value # Exception /\ handler'[r] = "clear_db"
              /\ result' = [result EXCEPT ![r] = value]
        /\ UNCHANGED <<problemId, nextId, db>>

Returns(r) ==
    /\ handler[r] = "clear_db" /\ handler'[r] = "done"
    /\ ClearIntermediateCalculations(problemId[r])
    /\ UNCHANGED <<problemId, result, nextId>>

HandlersMove ==
    /\ DOMAIN handler' = Requests
    /\ \/ /\ \A q \in Requests : handler'[q] = handler[q]
          /\ UNCHANGED <<problemId, result, nextId, db>>
       \/ \E r \in Requests :
            /\ \A q \in Requests : q # r => handler'[q] = handler[q]
            /\ Quiet(r) \/ Poses(r) \/ Reads(r) \/ Returns(r)

LEMMA ManagerMoves ==
    ASSUME BookInv, ManagerNext
    PROVE  HandlersMove
  <1>0. /\ ToldWhenDone /\ DOMAIN handler = Requests
        /\ \A r \in Requests : isComputed[r] \in BOOLEAN
    BY DEF BookInv, ToldWhenDone
  <1>s. ASSUME UNCHANGED <<handler, problemId, result, nextId, db>>
        PROVE  HandlersMove
    BY <1>0, <1>s DEF HandlersMove
  <1>g. ASSUME NEW r \in Requests, NEW pc, handler' = [handler EXCEPT ![r] = pc],
               handler'[r] = pc => Quiet(r) \/ Poses(r) \/ Reads(r) \/ Returns(r)
        PROVE  HandlersMove
    <2>1. /\ DOMAIN handler' = Requests /\ handler'[r] = pc
          /\ \A q \in Requests : q # r => handler'[q] = handler[q]
      BY <1>0, <1>g
    <2> QED
      BY <1>g, <2>1 DEF HandlersMove
  <1>1. ASSUME NEW r \in Requests, Decompose(r) PROVE HandlersMove
    <2>1. CASE Accepted(r)
      BY <1>1, <1>g, <2>1 DEF Decompose, Goto, Accepted, Quiet
    <2>2. CASE ~Accepted(r)
      BY <1>1, <1>g, <2>2 DEF Decompose, Goto, Accepted, Quiet
    <2> QED
      BY <2>1, <2>2
  <1>2. ASSUME NEW r \in Requests, LockForPush(r) PROVE HandlersMove
    BY <1>2, <1>g DEF LockForPush, Goto, Quiet
  <1>3. ASSUME NEW r \in Requests, PushProblem(r) PROVE HandlersMove
    BY <1>3, <1>g DEF PushProblem, Goto, Poses
  <1>4. ASSUME NEW r \in Requests, TestComputed(r) PROVE HandlersMove
    <2>1. handler[r] = "wait" /\ UNCHANGED <<problemId, result, nextId, db>>
      BY <1>4 DEF TestComputed
    <2>2. \/ UNCHANGED handler
          \/ handler' = [handler EXCEPT ![r] = "clear"] /\ isComputed[r] = TRUE
          \/ handler' = [handler EXCEPT ![r] = "asleep"]
          \/ handler' = [handler EXCEPT ![r] = "failed"] /\ "out_of_range" \in RaceOutcomes
      <3>1. "out_of_range" \in Lookups(r) => "out_of_range" \in RaceOutcomes
        BY DEF Lookups
      <3> QED
        BY <1>0, <1>4, <3>1 DEF TestComputed, Goto
    <2>3. CASE handler' = [handler EXCEPT ![r] = "clear"] /\ isComputed[r] = TRUE
      BY <1>g, <2>1, <2>3 DEF Quiet
    <2>4. CASE handler' = [handler EXCEPT ![r] = "asleep"]
      BY <1>g, <2>1, <2>4 DEF Quiet
    <2>5. CASE handler' = [handler EXCEPT ![r] = "failed"] /\ "out_of_range" \in RaceOutcomes
      BY <1>g, <2>1, <2>5 DEF Quiet
    <2> QED
      BY <1>s, <2>1, <2>2, <2>3, <2>4, <2>5
  <1>5. ASSUME NEW r \in Requests, WakeSpuriously(r) PROVE HandlersMove
    BY <1>5, <1>g DEF WakeSpuriously, Goto, Quiet
  <1>6. ASSUME NEW r \in Requests, LockForClear(r) PROVE HandlersMove
    BY <1>6, <1>g DEF LockForClear, Goto, Quiet
  <1>7. ASSUME NEW r \in Requests, ClearProblem(r) PROVE HandlersMove
    BY <1>7, <1>g DEF ClearProblem, Goto, Quiet
  <1>8. ASSUME NEW r \in Requests, ReadResult(r) PROVE HandlersMove
    <2>1. CASE ReadDynamicData(<<problemId[r], RootTask(Graph[r])>>) = Exception
      BY <1>8, <1>g, <2>1 DEF ReadResult, Goto, Reads
    <2>2. CASE ReadDynamicData(<<problemId[r], RootTask(Graph[r])>>) # Exception
      BY <1>8, <1>g, <2>2 DEF ReadResult, Goto, Reads
    <2> QED
      BY <2>1, <2>2
  <1>9. ASSUME NEW r \in Requests, ClearDatabase(r) PROVE HandlersMove
    BY <1>9, <1>g DEF ClearDatabase, Goto, Returns
  <1>10. CASE NotifyAll
    <2>1. PICK r : r = syncData[reply[1]]
      OBVIOUS
    <2>2. r \in Requests
      BY <1>0, <1>10, <2>1 DEF NotifyAll, ToldWhenDone
    <2>3. /\ handler' = [handler EXCEPT ![r] = IF handler[r] = "asleep" THEN "wait" ELSE handler[r]]
          /\ UNCHANGED <<problemId, result, nextId, db>>
      BY <1>10, <2>1 DEF NotifyAll
    <2>4. CASE handler[r] = "asleep"
      BY <1>g, <2>2, <2>3, <2>4 DEF Quiet
    <2>5. CASE handler[r] # "asleep"
      BY <1>0, <2>2, <2>3, <2>5 DEF HandlersMove
    <2> QED
      BY <2>4, <2>5
  <1>11. CASE UpdateComputableTasks
    <2>1. UNCHANGED <<handler, problemId, result, nextId, db>>
      BY <1>11 DEF UpdateComputableTasks, Crash, handlerVars
    <2> QED
      BY <1>s, <2>1
  <1>12. CASE SetComputed
    <2>1. UNCHANGED <<handler, problemId, result, nextId, db>>
      BY <1>12 DEF SetComputed, Crash, handlerVars
    <2> QED
      BY <1>s, <2>1
  <1>13. ASSUME \/ LockForSend \/ AllSent \/ ReadReply
                \/ \E id \in ProblemsToSend : \E task \in DOMAIN calcData[id].computable :
                     SendTask(id, task)
         PROVE  HandlersMove
    <2>1. UNCHANGED <<handler, problemId, result, nextId, db>>
      BY <1>13 DEF LockForSend, AllSent, ReadReply, SendTask, handlerVars
    <2> QED
      BY <1>s, <2>1
  <1> QED
    BY <1>1, <1>2, <1>3, <1>4, <1>5, <1>6, <1>7, <1>8, <1>9, <1>10, <1>11, <1>12, <1>13,
       ManagerSteps

-----------------------------------------------------------------------------
(* The parts of the invariant.  Only decomposed requests get beyond          *)
(* Decompose, and no two problems share an id.                               *)
IdsUnique ==
    /\ \A r \in Requests : handler[r] \notin {"start", "failed"} => Accepted(r)
    /\ \A r \in Posed : problemId[r] \in 0..(nextId - 1)
    /\ \A r, q \in Posed : problemId[r] = problemId[q] => r = q

(* The books of a problem are those of the request whose handler waits.      *)
ProblemsSound ==
    \A id \in DOMAIN calcData :
        calcData[id].request \in Posed /\ syncData[id] = calcData[id].request

(* Whatever is on its way is the task of some vertex of a posed problem.     *)
TasksGenuine ==
    /\ \A i \in DOMAIN taskPipe : taskPipe[i] \in GenuineTasks
    /\ \A i \in DOMAIN taskQueue : taskQueue[i] \in GenuineTasks
    /\ \A w \in Workers :
        /\ \A i \in DOMAIN pub[w] : pub[w][i].task \in GenuineTasks
        /\ \A i \in DOMAIN tasks[w] : tasks[w][i].task \in GenuineTasks
        /\ \A k \in Threads(w) : thread[w][k].pc \in {"calculate", "write", "push"} =>
             thread[w][k].task.task \in GenuineTasks

ValueAt(id, value) ==
    /\ value # Exception
    /\ \E r \in Posed : \E v \in TaskVertices(r) :
         id = <<problemId[r], v>> /\ value = Values(Graph[r])[v]

(* A row of the database is the value of the vertex it names, and so is a    *)
(* result a thread is about to write.                                        *)
RowsCorrect ==
    /\ \A row \in DOMAIN db : ValueAt(row, db[row])
    /\ \A w \in Workers : \A k \in Threads(w) :
         thread[w][k].pc = "write" => ValueAt(thread[w][k].task.task.id, thread[w][k].result)

(* The result of a task is in the database until its problem is over.        *)
Stored(id) ==
    /\ id = <<id[1], id[2]>>
    /\ id \in DOMAIN db \/ \E r \in Requests : handler[r] = "done" /\ problemId[r] = id[1]

(* So it is when the task is reported, by whomever, ...                      *)
ReportsStored ==
    /\ \A w \in Workers :
        /\ \A k \in Threads(w) : thread[w][k].pc = "push" => Stored(thread[w][k].task.task.id)
        /\ \A i \in DOMAIN finished[w] : Stored(finished[w][i].id)
        /\ \A i \in DOMAIN dealer[w] :
             dealer[w][i].data # "core_count" => Stored(dealer[w][i].task_id.id)
    /\ \A i \in DOMAIN sending : Stored(sending[i])
    /\ \A i \in DOMAIN replyPipe : Stored(replyPipe[i])
    /\ dispatcher \in {"update", "computed", "notify"} => Stored(reply)

(* ... and when the handler of its problem is told.                          *)
ToldStored ==
    /\ dispatcher = "computed" =>
         reply[1] \in DOMAIN calcData /\ reply[2] = RootTask(Graph[calcData[reply[1]].request])
    /\ \A r \in Requests :
        /\ isComputed[r] = TRUE => Stored(<<problemId[r], RootTask(Graph[r])>>)
        /\ handler[r] \in {"clear", "clearing", "read"} => isComputed[r] = TRUE

ResultsCorrect ==
    /\ DOMAIN result = Requests
    /\ \A r \in Requests : handler[r] \in {"clear_db", "done"} =>
         result[r] = Values(Graph[r])[RootTask(Graph[r])]

AnswerInv ==
    /\ IdsUnique /\ ProblemsSound /\ TasksGenuine /\ RowsCorrect
    /\ ReportsStored /\ ToldStored /\ ResultsCorrect

-----------------------------------------------------------------------------
(* What no step takes back: a problem keeps its id, a finished handler stays *)
(* finished, and a row stays until its problem is over.                      *)
Advance ==
    /\ Posed \subseteq Posed' /\ \A r \in Posed : problemId'[r] = problemId[r]
    /\ \A r \in Requests : handler[r] = "done" => handler'[r] = "done" /\ problemId'[r] = problemId[r]
    /\ \A id \in DOMAIN db :
         \/ id \in DOMAIN db'
         \/ \E r \in Requests : handler'[r] = "done" /\ problemId'[r] = id[1]

LEMMA PosedStep ==
    ASSUME BookInv, IdsUnique, HandlersMove
    PROVE  IdsUnique' /\ Advance
  <1>1. nextId \in Nat /\ DOMAIN problemId = Requests
    BY DEF BookInv, BooksSound, ToldWhenDone
  <1>2. ASSUME UNCHANGED <<problemId, nextId>>, Posed' = Posed,
               \A r \in Requests : handler'[r] \notin {"start", "failed"} => Accepted(r)
        PROVE  IdsUnique'
    BY <1>2 DEF IdsUnique, Accepted
  <1>3. ASSUME \A r \in Requests : Accepted(r) =>
                 (handler'[r] \in {"start", "push", "pushing"} <=>
                  handler[r] \in {"start", "push", "pushing"})
        PROVE  Posed' = Posed
    BY <1>3 DEF Posed, PastPush, Accepted
  <1>4. CASE /\ \A q \in Requests : handler'[q] = handler[q]
             /\ UNCHANGED <<problemId, result, nextId, db>>
    <2>1. Posed' = Posed
      BY <1>3, <1>4
    <2>2. IdsUnique'
      BY <1>2, <1>4, <2>1 DEF IdsUnique
    <2> QED
      BY <1>4, <2>1, <2>2 DEF Advance
  <1>5. ASSUME NEW r \in Requests, \A q \in Requests : q # r => handler'[q] = handler[q],
               Quiet(r) \/ Reads(r) \/ Returns(r)
        PROVE  IdsUnique' /\ Advance
    <2>1. /\ UNCHANGED <<problemId, nextId>> /\ handler[r] # "done"
          /\ Accepted(r) => (handler'[r] \in {"start", "push", "pushing"} <=>
                             handler[r] \in {"start", "push", "pushing"})
          /\ handler'[r] \notin {"start", "failed"} => Accepted(r) \/ handler[r] \notin {"start", "failed"}
      BY <1>5 DEF Quiet, Reads, Returns
    <2>2. Posed' = Posed
      BY <1>3, <1>5, <2>1
    <2>3. IdsUnique'
      BY <1>2, <1>5, <2>1, <2>2 DEF IdsUnique
    <2>4. \A q \in Requests : handler[q] = "done" => handler'[q] = "done"
      BY <1>5, <2>1
    <2>5. ASSUME NEW id \in DOMAIN db
          PROVE  \/ id \in DOMAIN db'
                 \/ \E q \in Requests : handler'[q] = "done" /\ problemId'[q] = id[1]
      <3>1. CASE UNCHANGED db
        BY <3>1
      <3>2. CASE Returns(r)
        BY <2>1, <3>2 DEF Returns, ClearIntermediateCalculations
      <3> QED
        BY <1>5, <3>1, <3>2 DEF Quiet, Reads
    <2> QED
      BY <2>1, <2>2, <2>3, <2>4, <2>5 DEF Advance
  <1>6. ASSUME NEW r \in Requests, \A q \in Requests : q # r => handler'[q] = handler[q], Poses(r)
        PROVE  IdsUnique' /\ Advance
    <2>1. /\ handler[r] = "pushing" /\ handler'[r] = "wait"
          /\ problemId'[r] = nextId /\ nextId' = nextId + 1
          /\ \A q \in Requests : q # r => problemId'[q] = problemId[q]
          /\ UNCHANGED db
      BY <1>1, <1>6 DEF Poses
    <2>2. Accepted(r)
      BY <2>1 DEF IdsUnique
    <2>3. r \notin Posed /\ Posed' = Posed \cup {r}
      BY <1>6, <2>1, <2>2 DEF Posed, PastPush, Accepted
    <2>4. Posed \subseteq Requests
      BY DEF Posed, PastPush
    <2>5. \A q \in Requests : handler'[q] \notin {"start", "failed"} => Accepted(q)
      BY <1>6, <2>2 DEF IdsUnique
    <2>6. \A q \in Posed' : problemId'[q] \in 0..(nextId' - 1)
      BY <1>1, <2>1, <2>3, <2>4 DEF IdsUnique
    <2>7. \A p, q \in Posed' : problemId'[p] = problemId'[q] => p = q
      BY <1>1, <2>1, <2>3, <2>4 DEF IdsUnique
    <2>8. IdsUnique'
      BY <2>5, <2>6, <2>7 DEF IdsUnique, Accepted
    <2>9. \A q \in Requests : handler[q] = "done" => handler'[q] = "done" /\ problemId'[q] = problemId[q]
      BY <1>6, <2>1
    <2> QED
      BY <2>1, <2>3, <2>4, <2>8, <2>9 DEF Advance
  <1> QED
    BY <1>4, <1>5, <1>6 DEF HandlersMove

(* What is so once stays so.                                                 *)
LEMMA GenuineKept ==
    ASSUME Advance
    PROVE  GenuineTasks \subseteq GenuineTasks'
  <1> SUFFICES ASSUME NEW t \in GenuineTasks PROVE t \in GenuineTasks'
    OBVIOUS
  <1>1. PICK r \in Posed : \E v \in TaskVertices(r) : t = TaskOf(r, v)
    BY DEF GenuineTasks
  <1>2. PICK v \in TaskVertices(r) : t = TaskOf(r, v)
    BY <1>1
  <1>3. r \in Posed' /\ problemId'[r] = problemId[r]
    BY DEF Advance
  <1>4. TaskOf(r, v)' = TaskOf(r, v)
    BY <1>3 DEF TaskOf, TaskVertices
  <1>5. v \in TaskVertices(r)'
    BY DEF TaskVertices
  <1> QED
    BY <1>2, <1>3, <1>4, <1>5 DEF GenuineTasks

ValueThen(id, value) ==
    /\ value # Exception
    /\ \E r \in Posed' : \E v \in TaskVertices(r) :
         id = <<problemId'[r], v>> /\ value = Values(Graph[r])[v]

StoredThen(id) ==
    /\ id = <<id[1], id[2]>>
    /\ id \in DOMAIN db' \/ \E r \in Requests : handler'[r] = "done" /\ problemId'[r] = id[1]

LEMMA ValueKept ==
    ASSUME Advance, NEW id, NEW value, ValueAt(id, value)
    PROVE  ValueThen(id, value)
  BY DEF ValueAt, ValueThen, Advance

LEMMA StoredKept ==
    ASSUME Advance, NEW id, Stored(id)
    PROVE  StoredThen(id)
  BY DEF Stored, StoredThen, Advance

LEMMA RowsThen ==
    ASSUME \A row \in DOMAIN db' : ValueThen(row, db'[row]),
           \A w \in Workers : \A k \in Threads(w) :
             thread'[w][k].pc = "write" => ValueThen(thread'[w][k].task.task.id, thread'[w][k].result)
    PROVE  RowsCorrect'
  BY DEF RowsCorrect, ValueAt, ValueThen, TaskVertices, Vertices, Threads

LEMMA ReportsThen ==
    ASSUME \A w \in Workers :
             /\ \A k \in Threads(w) :
                  thread'[w][k].pc = "push" => StoredThen(thread'[w][k].task.task.id)
             /\ \A i \in DOMAIN finished'[w] : StoredThen(finished'[w][i].id)
             /\ \A i \in DOMAIN dealer'[w] :
                  dealer'[w][i].data # "core_count" => StoredThen(dealer'[w][i].task_id.id),
           \A i \in DOMAIN sending' : StoredThen(sending'[i]),
           \A i \in DOMAIN replyPipe' : StoredThen(replyPipe'[i]),
           dispatcher' \in {"update", "computed", "notify"} => StoredThen(reply')
    PROVE  ReportsStored'
  BY DEF ReportsStored, Stored, StoredThen, Threads

-----------------------------------------------------------------------------
(* What the manager sends and reads.                                         *)
ManagerPasses ==
    /\ \A i \in DOMAIN taskPipe' :
         \/ Among(taskPipe'[i], taskPipe)
         \/ \E id \in DOMAIN calcData : \E task \in DOMAIN calcData[id].computable :
              taskPipe'[i] = FormTaskRequest(id, task, calcData[id].computable[task])
    /\ \A i \in DOMAIN replyPipe' : Among(replyPipe'[i], replyPipe)
    /\ dispatcher' \in {"update", "computed", "notify"} =>
         \/ reply' = reply /\ dispatcher \in {"update", "computed", "notify"}
         \/ Among(reply', replyPipe)

LEMMA ManagerProvenance ==
    ASSUME QueuesSound, ManagerNext
    PROVE  ManagerPasses
  <1>d. IsSeq(taskPipe) /\ IsSeq(replyPipe)
    BY DEF QueuesSound
  <1>s. ASSUME UNCHANGED <<taskPipe, replyPipe>>,
               dispatcher' \in {"update", "computed", "notify"} =>
                 reply' = reply /\ dispatcher \in {"update", "computed", "notify"}
        PROVE  ManagerPasses
    BY <1>s, AmongSame DEF ManagerPasses
  <1>1. ASSUME NEW r \in Requests,
               \/ Decompose(r) \/ LockForPush(r) \/ PushProblem(r)
               \/ TestComputed(r) \/ WakeSpuriously(r)
               \/ LockForClear(r) \/ ClearProblem(r)
               \/ ReadResult(r) \/ ClearDatabase(r)
        PROVE  ManagerPasses
    <2>1. UNCHANGED <<taskPipe, replyPipe, dispatcher, reply>>
      BY <1>1 DEF Decompose, LockForPush, PushProblem, TestComputed, WakeSpuriously, LockForClear,
                  ClearProblem, ReadResult, ClearDatabase, pipeVars, threadVars
    <2> QED
      BY <1>s, <2>1
  <1>2. CASE LockForSend \/ AllSent \/ NotifyAll
    <2>1. UNCHANGED <<taskPipe, replyPipe>> /\ dispatcher' \in {"sending", "read", "send"}
      BY <1>2 DEF LockForSend, AllSent, NotifyAll, pipeVars
    <2> QED
      BY <1>s, <2>1
  <1>3. CASE UpdateComputableTasks
    <2>1. /\ UNCHANGED <<taskPipe, replyPipe>> /\ dispatcher = "update"
          /\ dispatcher' = "send" \/ reply' = reply
      BY <1>3, UpdateCases DEF pipeVars
    <2> QED
      BY <1>s, <2>1
  <1>4. CASE SetComputed
    <2>1. UNCHANGED <<taskPipe, replyPipe, reply>> /\ dispatcher = "computed"
      BY <1>4 DEF SetComputed, Crash, pipeVars, threadVars
    <2> QED
      BY <1>s, <2>1
  <1>5. CASE ReadReply
    <2>1. CASE dispatcher' = "send"
      <3>1. UNCHANGED <<taskPipe, replyPipe>>
        BY <1>5, <2>1 DEF ReadReply
      <3> QED
        BY <1>s, <2>1, <3>1
    <2>2. ASSUME replyPipe # <<>>, reply' = Head(replyPipe), replyPipe' = Tail(replyPipe)
          PROVE  ManagerPasses
      <3>1. UNCHANGED taskPipe
        BY <1>5 DEF ReadReply
      <3>2. Among(reply', replyPipe) /\ \A i \in DOMAIN replyPipe' : Among(replyPipe'[i], replyPipe)
        BY <1>d, <2>2, AmongTail
      <3> QED
        BY <3>1, <3>2, AmongSame DEF ManagerPasses
    <2> QED
      BY <1>5, <2>1, <2>2 DEF ReadReply
  <1>6. ASSUME NEW id \in ProblemsToSend, NEW task \in DOMAIN calcData[id].computable,
               SendTask(id, task)
        PROVE  ManagerPasses
    <2>1. PICK e : e = FormTaskRequest(id, task, calcData[id].computable[task])
      OBVIOUS
    <2>2. /\ taskPipe' = Append(taskPipe, e) /\ UNCHANGED replyPipe /\ dispatcher = "sending"
          /\ UNCHANGED dispatcher /\ id \in DOMAIN calcData
      BY <1>6, <2>1 DEF SendTask, SendOnTaskPipe, threadVars, ProblemsToSend
    <2>3. \A i \in DOMAIN taskPipe' : taskPipe'[i] = e \/ Among(taskPipe'[i], taskPipe)
      BY <1>d, <2>2, AmongAppend
    <2> QED
      BY <2>1, <2>2, <2>3, AmongSame DEF ManagerPasses
  <1> QED
    BY <1>1, <1>2, <1>3, <1>4, <1>5, <1>6, ManagerSteps

(* The task sent for a vertex is the task of that vertex.                    *)
LEMMA FormsGenuineTask ==
    ASSUME BookInv, ProblemsSound, NEW id \in DOMAIN calcData,
           NEW task \in DOMAIN calcData[id].computable
    PROVE  FormTaskRequest(id, task, calcData[id].computable[task]) \in GenuineTasks
  <1> DEFINE r == calcData[id].request
             g == Graph[r]
  <1>1. BookSound(calcData[id])
    BY DEF BookInv, BooksSound
  <1>2. r \in Posed /\ problemId[r] = id
    BY DEF ProblemsSound, BookInv, ToldWhenDone
  <1>3. r \in Requests \ Rejected
    BY <1>1 DEF BookSound
  <1>4. calcData[id].computable[task] = g.adj[task] /\ task \in TaskVertices(r)
    BY <1>1 DEF BookSound, TaskVertices
  <1>5. FormTaskRequest(id, task, g.adj[task]) = TaskOf(r, task)
    BY <1>2, <1>3, <1>4, FormsTaskOf
  <1> QED
    BY <1>2, <1>4, <1>5 DEF GenuineTasks

LEMMA ManagerTasks ==
    ASSUME BookInv, ProblemsSound, TasksGenuine, Advance, ManagerPasses, UNCHANGED poolVars
    PROVE  TasksGenuine'
  <1>1. UNCHANGED <<taskQueue, pub, tasks, thread>>
    BY DEF poolVars, socketVars, brokerVars, workerVars
  <1>2. GenuineTasks \subseteq GenuineTasks'
    BY GenuineKept
  <1>3. \A i \in DOMAIN taskPipe' : taskPipe'[i] \in GenuineTasks
    <2> SUFFICES ASSUME NEW i \in DOMAIN taskPipe' PROVE taskPipe'[i] \in GenuineTasks
      OBVIOUS
    <2>1. CASE Among(taskPipe'[i], taskPipe)
      BY <2>1 DEF Among, TasksGenuine
    <2>2. CASE ~Among(taskPipe'[i], taskPipe)
      <3>1. PICK id \in DOMAIN calcData : \E task \in DOMAIN calcData[id].computable :
              taskPipe'[i] = FormTaskRequest(id, task, calcData[id].computable[task])
        BY <2>2 DEF ManagerPasses
      <3> QED
        BY <3>1, FormsGenuineTask
    <2> QED
      BY <2>1, <2>2
  <1> HIDE DEF GenuineTasks
  <1> QED
    BY <1>1, <1>2, <1>3 DEF TasksGenuine, Threads

LEMMA ManagerRows ==
    ASSUME RowsCorrect, Advance, HandlersMove, UNCHANGED poolVars
    PROVE  RowsCorrect'
  <1>1. UNCHANGED thread
    BY DEF poolVars, workerVars
  <1>2. DOMAIN db' \subseteq DOMAIN db /\ \A row \in DOMAIN db' : db'[row] = db[row]
    BY DEF HandlersMove, Quiet, Poses, Reads, Returns, ClearIntermediateCalculations
  <1>3. \A row \in DOMAIN db' : ValueThen(row, db'[row])
    BY <1>2, ValueKept DEF RowsCorrect
  <1>4. \A w \in Workers : \A k \in Threads(w) :
          thread'[w][k].pc = "write" => ValueThen(thread'[w][k].task.task.id, thread'[w][k].result)
    BY <1>1, ValueKept DEF RowsCorrect
  <1> QED
    BY <1>3, <1>4, RowsThen

LEMMA ManagerReports ==
    ASSUME ReportsStored, Advance, ManagerPasses, UNCHANGED poolVars
    PROVE  ReportsStored'
  <1>1. UNCHANGED <<thread, finished, dealer, sending>>
    BY DEF poolVars, socketVars, brokerVars, workerVars
  <1>2. \A w \in Workers :
          /\ \A k \in Threads(w) :
               thread'[w][k].pc = "push" => StoredThen(thread'[w][k].task.task.id)
          /\ \A i \in DOMAIN finished'[w] : StoredThen(finished'[w][i].id)
          /\ \A i \in DOMAIN dealer'[w] :
               dealer'[w][i].data # "core_count" => StoredThen(dealer'[w][i].task_id.id)
    BY <1>1, StoredKept DEF ReportsStored
  <1>3. \A i \in DOMAIN sending' : StoredThen(sending'[i])
    BY <1>1, StoredKept DEF ReportsStored
  <1>4. \A i \in DOMAIN replyPipe' : StoredThen(replyPipe'[i])
    BY StoredKept DEF ReportsStored, ManagerPasses, Among
  <1>5. dispatcher' \in {"update", "computed", "notify"} => StoredThen(reply')
    BY StoredKept DEF ReportsStored, ManagerPasses, Among
  <1> QED
    BY <1>2, <1>3, <1>4, <1>5, ReportsThen

(* The books stay those of the request whose handler waits.                  *)
LEMMA ProblemsStep ==
    ASSUME BookInv, IdsUnique, ProblemsSound, Advance, ManagerNext
    PROVE  ProblemsSound'
  <1>0. BooksSound /\ DOMAIN syncData = DOMAIN calcData
    BY DEF BookInv, ToldWhenDone
  <1>1. \A id \in DOMAIN calcData : calcData[id].request \in Posed'
    BY DEF ProblemsSound, Advance
  <1>2. ASSUME DOMAIN calcData' \subseteq DOMAIN calcData,
               \A id \in DOMAIN calcData' :
                 calcData'[id].request = calcData[id].request /\ syncData'[id] = syncData[id]
        PROVE  ProblemsSound'
    BY <1>1, <1>2 DEF ProblemsSound
  <1>3. ASSUME UNCHANGED <<calcData, syncData>>
        PROVE  ProblemsSound'
    BY <1>2, <1>3
  <1>4. ASSUME NEW r \in Requests, PushProblem(r)
        PROVE  ProblemsSound'
    <2>1. nextId \in Nat /\ DOMAIN calcData \subseteq 0..(nextId - 1)
      BY <1>0 DEF BooksSound
    <2>2. nextId \notin DOMAIN calcData
      BY <2>1
    <2>3. /\ DOMAIN calcData' = DOMAIN calcData \cup {nextId} /\ calcData'[nextId] = New(r)
          /\ \A id \in DOMAIN calcData : calcData'[id] = calcData[id] /\ syncData'[id] = syncData[id]
          /\ syncData'[nextId] = r
      BY <1>0, <1>4, <2>2 DEF PushProblem
    <2>4. New(r).request = r
      BY DEF New
    <2>5. r \in Posed'
      <3>1. handler[r] = "pushing" /\ handler'[r] = "wait"
        BY <1>4 DEF PushProblem, Goto, BookInv, ToldWhenDone
      <3> QED
        BY <3>1 DEF Posed, PastPush, Accepted, IdsUnique
    <2> QED
      BY <1>1, <2>3, <2>4, <2>5 DEF ProblemsSound
  <1>5. ASSUME NEW r \in Requests, ClearProblem(r)
        PROVE  ProblemsSound'
    <2>1. /\ DOMAIN calcData' = DOMAIN calcData \ {problemId[r]}
          /\ \A id \in DOMAIN calcData' : calcData'[id] = calcData[id] /\ syncData'[id] = syncData[id]
      BY <1>0, <1>5 DEF ClearProblem
    <2> QED
      BY <1>2, <2>1
  <1>6. ASSUME BooksGrow, UNCHANGED syncData
        PROVE  ProblemsSound'
    BY <1>2, <1>6 DEF BooksGrow
  <1>7. ASSUME NEW id \in ProblemsToSend, NEW task \in DOMAIN calcData[id].computable,
               SendTask(id, task)
        PROVE  ProblemsSound'
    <2>1. id \in DOMAIN calcData /\ UNCHANGED syncData
      BY <1>7 DEF ProblemsToSend, SendTask
    <2> QED
      BY <1>0, <1>6, <1>7, <2>1, SentBooks
  <1>8. CASE UpdateComputableTasks
    <2>1. UNCHANGED syncData
      BY <1>8, UpdateCases
    <2>2. CASE UNCHANGED calcData
      BY <1>3, <2>1, <2>2
    <2>3. CASE /\ reply[1] \in DOMAIN calcData /\ reply[2] \in DOMAIN calcData[reply[1]].status
               /\ Completes(reply[1], reply[2])
      BY <1>0, <1>6, <2>1, <2>3, CompletedBooks
    <2> QED
      BY <1>8, <2>2, <2>3, UpdateCases
  <1>9. ASSUME NEW r \in Requests,
               \/ Decompose(r) \/ LockForPush(r) \/ TestComputed(r) \/ WakeSpuriously(r)
               \/ LockForClear(r) \/ ReadResult(r) \/ ClearDatabase(r)
        PROVE  UNCHANGED <<calcData, syncData>>
    BY <1>9 DEF Decompose, LockForPush, TestComputed, WakeSpuriously, LockForClear, ReadResult,
                ClearDatabase
  <1>10. ASSUME LockForSend \/ AllSent \/ ReadReply \/ SetComputed \/ NotifyAll
         PROVE  UNCHANGED <<calcData, syncData>>
    BY <1>10 DEF LockForSend, AllSent, ReadReply, SetComputed, Crash, NotifyAll
  <1> QED
    BY <1>3, <1>4, <1>5, <1>7, <1>8, <1>9, <1>10, ManagerSteps

(* Who is told, and when.                                                    *)
LEMMA ComputedMoves ==
    ASSUME ManagerNext
    PROVE  \/ UNCHANGED isComputed
           \/ /\ dispatcher = "computed" /\ UNCHANGED problemId
              /\ isComputed' = [isComputed EXCEPT ![syncData[reply[1]]] = TRUE]
  <1>1. ASSUME NEW r \in Requests,
               \/ Decompose(r) \/ LockForPush(r) \/ PushProblem(r)
               \/ TestComputed(r) \/ WakeSpuriously(r)
               \/ LockForClear(r) \/ ClearProblem(r)
               \/ ReadResult(r) \/ ClearDatabase(r)
        PROVE  UNCHANGED isComputed
    BY <1>1 DEF Decompose, LockForPush, PushProblem, TestComputed, WakeSpuriously, LockForClear,
                ClearProblem, ReadResult, ClearDatabase
  <1>2. ASSUME \/ LockForSend \/ AllSent \/ ReadReply \/ NotifyAll
               \/ \E id \in ProblemsToSend : \E task \in DOMAIN calcData[id].computable :
                    SendTask(id, task)
        PROVE  UNCHANGED isComputed
    BY <1>2 DEF LockForSend, AllSent, ReadReply, NotifyAll, SendTask, handlerVars
  <1>3. CASE UpdateComputableTasks
    BY <1>3, UpdateCases
  <1>4. CASE SetComputed
    BY <1>4 DEF SetComputed, Crash, handlerVars
  <1> QED
    BY <1>1, <1>2, <1>3, <1>4, ManagerSteps

LEMMA RootReported ==
    ASSUME BookInv, BookInv', ToldStored, ManagerNext, dispatcher' = "computed"
    PROVE  reply'[1] \in DOMAIN calcData' /\ reply'[2] = RootTask(Graph[calcData'[reply'[1]].request])
  <1>0. BooksSound /\ reply'[1] \in DOMAIN calcData'
    BY DEF BookInv, ToldWhenDone
  <1>1. ASSUME dispatcher = "computed", UNCHANGED reply,
               \A id \in DOMAIN calcData : id \in DOMAIN calcData' =>
                  calcData'[id].request = calcData[id].request
        PROVE  reply'[2] = RootTask(Graph[calcData'[reply'[1]].request])
    BY <1>0, <1>1 DEF ToldStored
  <1>2. ASSUME NEW r \in Requests,
               \/ Decompose(r) \/ LockForPush(r) \/ PushProblem(r)
               \/ TestComputed(r) \/ WakeSpuriously(r)
               \/ LockForClear(r) \/ ClearProblem(r)
               \/ ReadResult(r) \/ ClearDatabase(r)
        PROVE  reply'[2] = RootTask(Graph[calcData'[reply'[1]].request])
    <2>1. UNCHANGED <<dispatcher, reply>>
      BY <1>2 DEF Decompose, LockForPush, PushProblem, TestComputed, WakeSpuriously, LockForClear,
                  ClearProblem, ReadResult, ClearDatabase, threadVars
    <2>2. nextId \in Nat /\ DOMAIN calcData \subseteq 0..(nextId - 1)
      BY <1>0 DEF BooksSound
    <2>3. nextId \notin DOMAIN calcData
      BY <2>2
    <2>4. \A id \in DOMAIN calcData : id \in DOMAIN calcData' =>
            calcData'[id].request = calcData[id].request
      <3>1. CASE PushProblem(r)
        BY <2>3, <3>1 DEF PushProblem
      <3>2. CASE ClearProblem(r)
        BY <3>2 DEF ClearProblem
      <3> QED
        BY <1>2, <3>1, <3>2 DEF Decompose, LockForPush, TestComputed, WakeSpuriously, LockForClear,
                                ReadResult, ClearDatabase
    <2> QED
      BY <1>1, <2>1, <2>4
  <1>3. CASE UpdateComputableTasks
    <2>1. dispatcher = "update"
      BY <1>3, UpdateCases
    <2>2. /\ UNCHANGED reply /\ reply[2] = RootTask(Graph[calcData[reply[1]].request])
          /\ reply[1] \in DOMAIN calcData /\ reply[2] \in DOMAIN calcData[reply[1]].status
          /\ Completes(reply[1], reply[2])
      BY <1>3, <2>1, UpdateCases
    <2>3. BooksGrow
      BY <1>0, <2>2, CompletedBooks
    <2> QED
      BY <2>2, <2>3 DEF BooksGrow
  <1>4. CASE SetComputed
    <2>1. dispatcher = "computed" /\ UNCHANGED <<reply, calcData>>
      BY <1>4 DEF SetComputed, Crash, threadVars
    <2>2. reply[2] = RootTask(Graph[calcData[reply[1]].request])
      BY <2>1 DEF ToldStored
    <2> QED
      BY <1>0, <2>1, <2>2
  <1>5. ~(LockForSend \/ AllSent \/ ReadReply \/ NotifyAll)
    BY DEF LockForSend, AllSent, ReadReply, NotifyAll
  <1>6. ASSUME NEW id \in ProblemsToSend, NEW task \in DOMAIN calcData[id].computable,
               SendTask(id, task)
        PROVE  FALSE
    BY <1>6 DEF SendTask, threadVars
  <1> QED
    BY <1>0, <1>2, <1>3, <1>4, <1>5, <1>6, ManagerSteps

LEMMA ToldStoredStep ==
    ASSUME BookInv, BookInv', ProblemsSound, ReportsStored, ToldStored, Advance, HandlersMove,
           ManagerNext
    PROVE  ToldStored'
  <1>0. ToldWhenDone /\ DOMAIN problemId = Requests /\ DOMAIN isComputed = Requests
    BY DEF BookInv, ToldWhenDone
  <1>1. ASSUME NEW r \in Requests, isComputed[r] = TRUE
        PROVE  isComputed'[r] = TRUE
    BY <1>0, <1>1, ComputedMoves
  <1>2. ASSUME NEW r \in Requests, isComputed'[r] = TRUE
        PROVE  StoredThen(<<problemId'[r], RootTask(Graph[r])>>)
    <2>1. CASE isComputed[r] = TRUE
      <3>1. Stored(<<problemId[r], RootTask(Graph[r])>>)
        BY <2>1 DEF ToldStored
      <3>2. problemId'[r] = problemId[r]
        <4>1. handler[r] # "pushing"
          BY <1>0, <2>1 DEF ToldWhenDone, Unposed
        <4> QED
          BY <1>0, <4>1 DEF HandlersMove, Quiet, Poses, Reads, Returns
      <3> QED
        BY <3>1, <3>2, StoredKept
    <2>2. CASE isComputed[r] # TRUE
      <3>1. /\ dispatcher = "computed" /\ UNCHANGED problemId
            /\ isComputed' = [isComputed EXCEPT ![syncData[reply[1]]] = TRUE]
        BY <1>2, <2>2, ComputedMoves
      <3>2. r = syncData[reply[1]]
        BY <1>0, <1>2, <2>2, <3>1
      <3>3. /\ reply[1] \in DOMAIN calcData /\ reply[2] = RootTask(Graph[calcData[reply[1]].request])
            /\ Stored(reply)
        BY <3>1 DEF ToldStored, ReportsStored
      <3>4. calcData[reply[1]].request = r /\ problemId[r] = reply[1]
        BY <1>0, <3>2, <3>3 DEF ProblemsSound, ToldWhenDone
      <3>5. reply = <<problemId[r], RootTask(Graph[r])>>
        BY <3>3, <3>4 DEF Stored
      <3>6. StoredThen(reply)
        BY <3>3, StoredKept
      <3> QED
        BY <3>1, <3>5, <3>6
    <2> QED
      BY <2>1, <2>2
  <1>3. ASSUME NEW r \in Requests, handler'[r] \in {"clear", "clearing", "read"}
        PROVE  isComputed'[r] = TRUE
    <2>1. \/ handler[r] \in {"clear", "clearing", "read"}
          \/ isComputed[r] = TRUE
      BY <1>3 DEF HandlersMove, Quiet, Poses, Reads, Returns
    <2> QED
      BY <1>1, <2>1 DEF ToldStored
  <1>4. dispatcher' = "computed" =>
          reply'[1] \in DOMAIN calcData' /\ reply'[2] = RootTask(Graph[calcData'[reply'[1]].request])
    BY RootReported
  <1> QED
    BY <1>2, <1>3, <1>4 DEF ToldStored, StoredThen, Stored, RootTask

(* The result of a request is read from its own root row.                    *)
LEMMA ResultsStep ==
    ASSUME IdsUnique, RowsCorrect, ResultsCorrect, HandlersMove
    PROVE  ResultsCorrect'
  <1>1. CASE UNCHANGED result /\ \A r \in Requests : handler'[r] \in {"clear_db", "done"} =>
                                                     handler[r] \in {"clear_db", "done"}
    BY <1>1 DEF ResultsCorrect
  <1>2. ASSUME NEW r \in Requests, \A q \in Requests : q # r => handler'[q] = handler[q],
               Quiet(r) \/ Poses(r) \/ Returns(r)
        PROVE  ResultsCorrect'
    <2>1. UNCHANGED result /\ \A q \in Requests : handler'[q] \in {"clear_db", "done"} =>
                                                  handler[q] \in {"clear_db", "done"}
      BY <1>2 DEF Quiet, Poses, Returns
    <2> QED
      BY <1>1, <2>1
  <1>3. ASSUME NEW r \in Requests, \A q \in Requests : q # r => handler'[q] = handler[q], Reads(r)
        PROVE  ResultsCorrect'
    <2>1. PICK row : row = <<problemId[r], RootTask(Graph[r])>>
      OBVIOUS
    <2>2. CASE handler'[r] = "failed"
      <3>1. UNCHANGED result
        BY <1>3, <2>2 DEF Reads
      <3>2. \A q \in Requests : handler'[q] \in {"clear_db", "done"} => handler[q] \in {"clear_db", "done"}
        BY <1>3, <2>2
      <3> QED
        BY <1>1, <3>1, <3>2
    <2>3. ASSUME ReadDynamicData(row) # Exception, handler'[r] = "clear_db",
                 result' = [result EXCEPT ![r] = ReadDynamicData(row)]
          PROVE  ResultsCorrect'
      <3>1. row \in DOMAIN db /\ ReadDynamicData(row) = db[row]
        BY <2>3 DEF ReadDynamicData
      <3>2. r \in Posed
        BY <1>3 DEF Reads, Posed, PastPush, IdsUnique
      <3>3. PICK q \in Posed : \E v \in TaskVertices(q) :
              row = <<problemId[q], v>> /\ db[row] = Values(Graph[q])[v]
        BY <3>1 DEF RowsCorrect, ValueAt
      <3>4. db[row] = Values(Graph[r])[RootTask(Graph[r])]
        BY <2>1, <3>2, <3>3 DEF IdsUnique
      <3>5. /\ DOMAIN result' = Requests /\ result'[r] = Values(Graph[r])[RootTask(Graph[r])]
            /\ \A p \in Requests : p # r => result'[p] = result[p]
        BY <2>3, <3>1, <3>4 DEF ResultsCorrect
      <3> QED
        BY <1>3, <3>5 DEF ResultsCorrect
    <2> QED
      BY <1>3, <2>1, <2>2, <2>3 DEF Reads
  <1> QED
    BY <1>1, <1>2, <1>3 DEF HandlersMove

-----------------------------------------------------------------------------
(* The broker passes on what it gets.                                        *)
LEMMA Unmanaged ==
    ASSUME IdsUnique, ProblemsSound, ToldStored, ResultsCorrect, UNCHANGED managerVars,
           \A id \in DOMAIN db : id \in DOMAIN db'
    PROVE  IdsUnique' /\ ProblemsSound' /\ ToldStored' /\ ResultsCorrect' /\ Advance
  <1>1. UNCHANGED <<handler, problemId, isComputed, result, calcData, syncData, nextId, dispatcher,
                    reply>>
    BY DEF managerVars, handlerVars, threadVars
  <1>2. Posed' = Posed
    BY <1>1 DEF Posed, PastPush, Accepted
  <1>3. Advance
    BY <1>1, <1>2 DEF Advance
  <1>4. IdsUnique'
    BY <1>1, <1>2 DEF IdsUnique, Accepted
  <1>5. ProblemsSound'
    BY <1>1, <1>2 DEF ProblemsSound
  <1>6. ResultsCorrect'
    BY <1>1 DEF ResultsCorrect
  <1>7. \A r \in Requests : isComputed'[r] = TRUE => StoredThen(<<problemId'[r], RootTask(Graph[r])>>)
    BY <1>1, <1>3, StoredKept DEF ToldStored
  <1>8. /\ dispatcher' = "computed" =>
             reply'[1] \in DOMAIN calcData' /\ reply'[2] = RootTask(Graph[calcData'[reply'[1]].request])
        /\ \A r \in Requests : handler'[r] \in {"clear", "clearing", "read"} => isComputed'[r] = TRUE
    BY <1>1 DEF ToldStored
  <1>9. ToldStored'
    BY <1>7, <1>8 DEF ToldStored, StoredThen, Stored, RootTask
  <1> QED
    BY <1>3, <1>4, <1>5, <1>6, <1>9

LEMMA BrokerAnswers ==
    ASSUME QueuesSound, AnswerInv, BrokerStep(BrokerNext)
    PROVE  AnswerInv'
  <1>0. /\ IdsUnique /\ ProblemsSound /\ TasksGenuine /\ RowsCorrect
        /\ ReportsStored /\ ToldStored /\ ResultsCorrect
    BY DEF AnswerInv
  <1>1. UNCHANGED <<managerVars, tasks, thread, finished, db>> /\ TasksPass /\ ReportsPass
    BY BrokerProvenance DEF BrokerStep, workerVars
  <1>2. IdsUnique' /\ ProblemsSound' /\ ToldStored' /\ ResultsCorrect' /\ Advance
    BY <1>0, <1>1, Unmanaged
  <1>3. RowsCorrect'
    <2>1. \A row \in DOMAIN db' : ValueThen(row, db'[row])
      BY <1>0, <1>1, <1>2, ValueKept DEF RowsCorrect
    <2>2. \A w \in Workers : \A k \in Threads(w) :
            thread'[w][k].pc = "write" => ValueThen(thread'[w][k].task.task.id, thread'[w][k].result)
      BY <1>0, <1>1, <1>2, ValueKept DEF RowsCorrect
    <2> QED
      BY <2>1, <2>2, RowsThen
  <1>4. TasksGenuine'
    <2>1. GenuineTasks \subseteq GenuineTasks'
      BY <1>2, GenuineKept
    <2>2. \A x : Among(x, taskPipe) \/ Among(x, taskQueue) => x \in GenuineTasks
      BY <1>0 DEF TasksGenuine, Among
    <2>3. \A v \in Workers : \A x : Among(x, pub[v]) => x.task \in GenuineTasks
      BY <1>0 DEF TasksGenuine, Among
    <2> HIDE DEF GenuineTasks
    <2>4. /\ \A i \in DOMAIN taskPipe' : taskPipe'[i] \in GenuineTasks
          /\ \A i \in DOMAIN taskQueue' : taskQueue'[i] \in GenuineTasks
          /\ \A v \in Workers : \A i \in DOMAIN pub'[v] : pub'[v][i].task \in GenuineTasks
      BY <1>1, <2>2, <2>3 DEF TasksPass
    <2> QED
      BY <1>0, <1>1, <2>1, <2>4 DEF TasksGenuine, Threads
  <1>5. ReportsStored'
    <2>1. \A w \in Workers :
            /\ \A k \in Threads(w) :
                 thread'[w][k].pc = "push" => StoredThen(thread'[w][k].task.task.id)
            /\ \A i \in DOMAIN finished'[w] : StoredThen(finished'[w][i].id)
      BY <1>0, <1>1, <1>2, StoredKept DEF ReportsStored
    <2>2. \A w \in Workers : \A i \in DOMAIN dealer'[w] :
            dealer'[w][i].data # "core_count" => StoredThen(dealer'[w][i].task_id.id)
      BY <1>0, <1>1, <1>2, StoredKept DEF ReportsStored, ReportsPass, Among
    <2>3. \A i \in DOMAIN sending' : StoredThen(sending'[i])
      BY <1>0, <1>1, <1>2, StoredKept DEF ReportsStored, ReportsPass, Among
    <2>4. \A i \in DOMAIN replyPipe' : StoredThen(replyPipe'[i])
      BY <1>0, <1>1, <1>2, StoredKept DEF ReportsStored, ReportsPass, Among
    <2>5. dispatcher' \in {"update", "computed", "notify"} => StoredThen(reply')
      BY <1>0, <1>1, <1>2, StoredKept DEF ReportsStored, managerVars, threadVars
    <2> QED
      BY <2>1, <2>2, <2>3, <2>4, <2>5, ReportsThen
  <1> QED
    BY <1>2, <1>3, <1>4, <1>5 DEF AnswerInv

LEMMA ManagerAnswers ==
    ASSUME WaitInv, WaitInv', AnswerInv, ManagerStep(ManagerNext)
    PROVE  AnswerInv'
  <1>0. /\ IdsUnique /\ ProblemsSound /\ TasksGenuine /\ RowsCorrect
        /\ ReportsStored /\ ToldStored /\ ResultsCorrect
    BY DEF AnswerInv
  <1>1. ManagerNext /\ UNCHANGED poolVars /\ BookInv /\ BookInv' /\ QueuesSound
    BY DEF ManagerStep, WaitInv
  <1>2. HandlersMove /\ ManagerPasses
    BY <1>1, ManagerMoves, ManagerProvenance
  <1>3. IdsUnique' /\ Advance
    BY <1>0, <1>1, <1>2, PosedStep
  <1>4. ProblemsSound'
    BY <1>0, <1>1, <1>3, ProblemsStep
  <1>5. TasksGenuine' /\ RowsCorrect' /\ ReportsStored'
    BY <1>0, <1>1, <1>2, <1>3, ManagerTasks, ManagerRows, ManagerReports
  <1>6. ToldStored' /\ ResultsCorrect'
    BY <1>0, <1>1, <1>2, <1>3, ToldStoredStep, ResultsStep
  <1> QED
    BY <1>3, <1>4, <1>5, <1>6 DEF AnswerInv

-----------------------------------------------------------------------------
(* A worker calculates from static_data and from rows of the task's own      *)
(* problem.                                                                  *)
LEMMA CalculatesValue ==
    ASSUME IdsUnique, RowsCorrect, NEW t \in GenuineTasks,
           \A i \in DOMAIN t.operands : Operands(t)[i] # Exception,
           CalculateTaskImpl(t.op, Operands(t)) # Exception
    PROVE  ValueAt(t.id, CalculateTaskImpl(t.op, Operands(t)))
  <1>1. PICK r \in Posed : \E v \in TaskVertices(r) : t = TaskOf(r, v)
    BY DEF GenuineTasks
  <1>2. PICK v \in TaskVertices(r) : t = TaskOf(r, v)
    BY <1>1
  <1>3. r \in Requests \ Rejected
    BY DEF Posed, PastPush, Accepted
  <1>4. ASSUME NEW u \in TaskVertices(r), <<problemId[r], u>> \in DOMAIN db
        PROVE  db[<<problemId[r], u>>] = Values(Graph[r])[u]
    <2>1. PICK q \in Posed : \E w \in TaskVertices(q) :
              /\ <<problemId[r], u>> = <<problemId[q], w>>
              /\ db[<<problemId[r], u>>] = Values(Graph[q])[w]
      BY <1>4 DEF RowsCorrect, ValueAt
    <2> QED
      BY <2>1 DEF IdsUnique
  <1>5. Operands(t) = [i \in DOMAIN t.operands |-> ReadData(t.operands[i])]
    BY DEF Operands
  <1>6. CalculateTaskImpl(t.op, Operands(t)) = Values(Graph[r])[v]
    BY <1>2, <1>3, <1>4, <1>5, VertexValue
  <1>7. t.id = <<problemId[r], v>>
    BY <1>2 DEF TaskOf
  <1> QED
    BY <1>6, <1>7 DEF ValueAt

LEMMA GenuineId ==
    ASSUME NEW t \in GenuineTasks
    PROVE  t.id = <<t.id[1], t.id[2]>>
  <1>1. PICK r \in Posed : \E v \in TaskVertices(r) : t = TaskOf(r, v)
    BY DEF GenuineTasks
  <1>2. PICK v \in TaskVertices(r) : t = TaskOf(r, v)
    BY <1>1
  <1> QED
    BY <1>2 DEF TaskOf

(* The database only gains the row of a thread that writes.                  *)
LEMMA WorkerRows ==
    ASSUME IdsUnique, TasksGenuine, RowsCorrect, Advance, WorkerPasses
    PROVE  RowsCorrect'
  <1>1. ASSUME NEW row \in DOMAIN db'
        PROVE  ValueThen(row, db'[row])
    <2>1. CASE row \in DOMAIN db /\ db'[row] = db[row]
      BY <2>1, ValueKept DEF RowsCorrect
    <2>2. ASSUME ~(row \in DOMAIN db /\ db'[row] = db[row])
          PROVE  ValueThen(row, db'[row])
      <3>1. PICK v \in Workers : Writes(v)
        BY <2>2 DEF WorkerPasses
      <3>2. PICK k \in Threads(v) :
              /\ thread[v][k].pc = "write"
              /\ WriteDynamicData(thread[v][k].task.task.id, thread[v][k].result)
        BY <2>2, <3>1 DEF Writes
      <3>3. row = thread[v][k].task.task.id /\ db'[row] = thread[v][k].result
        BY <2>2, <3>2 DEF WriteDynamicData
      <3>4. ValueAt(row, db'[row])
        BY <3>2, <3>3 DEF RowsCorrect
      <3> QED
        BY <3>4, ValueKept
    <2> QED
      BY <2>1, <2>2
  <1>2. ASSUME NEW w \in Workers, NEW k \in Threads(w), thread'[w][k].pc = "write"
        PROVE  ValueThen(thread'[w][k].task.task.id, thread'[w][k].result)
    <2>1. CASE thread'[w][k] = thread[w][k]
      <3>1. ValueAt(thread'[w][k].task.task.id, thread'[w][k].result)
        BY <1>2, <2>1 DEF RowsCorrect
      <3> QED
        BY <3>1, ValueKept
    <2>2. CASE thread'[w][k] # thread[w][k]
      <3>1. PICK t : t = thread[w][k].task.task
        OBVIOUS
      <3>2. /\ thread[w][k].pc = "calculate" /\ thread'[w][k].task.task = t
            /\ \A i \in DOMAIN t.operands : Operands(t)[i] # Exception
            /\ thread'[w][k].result = CalculateTaskImpl(t.op, Operands(t))
            /\ thread'[w][k].result # Exception
        BY <1>2, <2>2, <3>1 DEF WorkerPasses, ThreadPasses
      <3>3. t \in GenuineTasks
        BY <3>1, <3>2 DEF TasksGenuine
      <3>4. ValueAt(t.id, thread'[w][k].result)
        BY <3>2, <3>3, CalculatesValue
      <3> QED
        BY <3>2, <3>4, ValueKept
    <2> QED
      BY <2>1, <2>2
  <1> QED
    BY <1>1, <1>2, RowsThen

LEMMA WorkerTasks ==
    ASSUME TasksGenuine, Advance, WorkerPasses, UNCHANGED <<taskPipe, taskQueue>>
    PROVE  TasksGenuine'
  <1>1. GenuineTasks \subseteq GenuineTasks'
    BY GenuineKept
  <1>2. \A v \in Workers : \A x : Among(x, pub[v]) \/ Among(x, tasks[v]) => x.task \in GenuineTasks
    BY DEF TasksGenuine, Among
  <1>3. /\ \A i \in DOMAIN taskPipe : taskPipe[i] \in GenuineTasks
        /\ \A i \in DOMAIN taskQueue : taskQueue[i] \in GenuineTasks
        /\ \A v \in Workers : \A k \in Threads(v) : thread[v][k].pc \in {"calculate", "write", "push"} =>
             thread[v][k].task.task \in GenuineTasks
    BY DEF TasksGenuine
  <1> HIDE DEF GenuineTasks
  <1>4. \A v \in Workers :
          /\ \A i \in DOMAIN pub'[v] : pub'[v][i].task \in GenuineTasks
          /\ \A i \in DOMAIN tasks'[v] : tasks'[v][i].task \in GenuineTasks
    BY <1>2 DEF WorkerPasses, QueuesPass
  <1>5. \A v \in Workers : \A k \in Threads(v) : thread'[v][k].pc \in {"calculate", "write", "push"} =>
          thread'[v][k].task.task \in GenuineTasks
    BY <1>2, <1>3 DEF WorkerPasses, ThreadPasses
  <1> QED
    BY <1>1, <1>3, <1>4, <1>5 DEF TasksGenuine, Threads

LEMMA WorkerReports ==
    ASSUME TasksGenuine, ReportsStored, Advance, WorkerPasses,
           UNCHANGED <<sending, replyPipe, dispatcher, reply>>
    PROVE  ReportsStored'
  <1>1. ASSUME NEW w \in Workers, NEW k \in Threads(w), thread'[w][k].pc = "push"
        PROVE  StoredThen(thread'[w][k].task.task.id)
    <2>1. CASE thread'[w][k] = thread[w][k]
      BY <1>1, <2>1, StoredKept DEF ReportsStored
    <2>2. CASE thread'[w][k] # thread[w][k]
      <3>1. PICK t : t = thread[w][k].task.task
        OBVIOUS
      <3>2. /\ thread[w][k].pc = "write" /\ thread'[w][k].task.task = t
            /\ WriteDynamicData(t.id, thread[w][k].result)
        BY <1>1, <2>2, <3>1 DEF WorkerPasses, ThreadPasses
      <3>3. t \in GenuineTasks
        BY <3>1, <3>2 DEF TasksGenuine
      <3>4. t.id \in DOMAIN db'
        BY <3>2 DEF WriteDynamicData
      <3> QED
        BY <3>2, <3>3, <3>4, GenuineId DEF StoredThen
    <2> QED
      BY <2>1, <2>2
  <1>2. ASSUME NEW w \in Workers, NEW i \in DOMAIN finished'[w]
        PROVE  StoredThen(finished'[w][i].id)
    <2>1. Stored(finished'[w][i].id)
      BY <1>2 DEF ReportsStored, WorkerPasses, QueuesPass, Among
    <2> QED
      BY <2>1, StoredKept
  <1>3. ASSUME NEW w \in Workers, NEW i \in DOMAIN dealer'[w], dealer'[w][i].data # "core_count"
        PROVE  StoredThen(dealer'[w][i].task_id.id)
    <2>1. Stored(dealer'[w][i].task_id.id)
      BY <1>3 DEF ReportsStored, WorkerPasses, QueuesPass, Among
    <2> QED
      BY <2>1, StoredKept
  <1>4. /\ \A i \in DOMAIN sending' : StoredThen(sending'[i])
        /\ \A i \in DOMAIN replyPipe' : StoredThen(replyPipe'[i])
        /\ dispatcher' \in {"update", "computed", "notify"} => StoredThen(reply')
    BY StoredKept DEF ReportsStored
  <1> QED
    BY <1>1, <1>2, <1>3, <1>4, ReportsThen

LEMMA WorkerAnswers ==
    ASSUME QueuesSound, AnswerInv, NEW w \in Workers, WorkerStep(WorkerNext(w))
    PROVE  AnswerInv'
  <1>0. /\ IdsUnique /\ ProblemsSound /\ TasksGenuine /\ RowsCorrect
        /\ ReportsStored /\ ToldStored /\ ResultsCorrect
    BY DEF AnswerInv
  <1>1. WorkerPasses /\ UNCHANGED <<managerVars, brokerVars, pipeVars>>
    BY WorkerProvenance DEF WorkerStep
  <1>2. UNCHANGED <<taskPipe, taskQueue, sending, replyPipe, dispatcher, reply>>
    BY <1>1 DEF managerVars, threadVars, brokerVars, pipeVars
  <1>3. \A id \in DOMAIN db : id \in DOMAIN db'
    BY <1>1 DEF WorkerPasses, Writes, WriteDynamicData
  <1>4. IdsUnique' /\ ProblemsSound' /\ ToldStored' /\ ResultsCorrect' /\ Advance
    BY <1>0, <1>1, <1>3, Unmanaged
  <1>5. RowsCorrect' /\ TasksGenuine' /\ ReportsStored'
    BY <1>0, <1>1, <1>2, <1>4, WorkerRows, WorkerTasks, WorkerReports
  <1> QED
    BY <1>4, <1>5 DEF AnswerInv

-----------------------------------------------------------------------------
LEMMA AnswerInit == Init => AnswerInv
  <1> SUFFICES ASSUME Init PROVE AnswerInv
    OBVIOUS
  <1>1. /\ handler = [r \in Requests |-> "start"] /\ isComputed = [r \in Requests |-> FALSE]
        /\ result = [r \in Requests |-> Exception] /\ DOMAIN calcData = {} /\ dispatcher = "send"
        /\ taskPipe = <<>> /\ replyPipe = <<>> /\ DOMAIN db = {}
        /\ taskQueue = <<>> /\ sending = <<>>
    BY DEF Init, ManagerInit, PipeInit, DatabaseInit, BrokerInit
  <1>2. \A w \in Workers : /\ pub[w] = <<>> /\ dealer[w] = <<>> /\ tasks[w] = <<>>
                           /\ finished[w] = <<>> /\ \A k \in Threads(w) : thread[w][k].pc = "idle"
    BY DEF Init, SocketsInit, WorkerInit, Idle
  <1>3. Posed = {}
    BY <1>1 DEF Posed, PastPush
  <1>4. IdsUnique /\ ProblemsSound
    BY <1>1, <1>3 DEF IdsUnique, ProblemsSound
  <1>5. TasksGenuine
    BY <1>1, <1>2 DEF TasksGenuine
  <1>6. RowsCorrect
    BY <1>1, <1>2 DEF RowsCorrect
  <1>7. ReportsStored
    BY <1>1, <1>2 DEF ReportsStored
  <1>8. ToldStored /\ ResultsCorrect
    BY <1>1 DEF ToldStored, ResultsCorrect
  <1> QED
    BY <1>4, <1>5, <1>6, <1>7, <1>8 DEF AnswerInv

LEMMA AnswerInvStep == WaitInv /\ WaitInv' /\ AnswerInv /\ [Next]_vars => AnswerInv'
  <1> SUFFICES ASSUME WaitInv, WaitInv', AnswerInv, [Next]_vars
               PROVE  AnswerInv'
    OBVIOUS
  <1>1. QueuesSound
    BY DEF WaitInv
  <1>2. CASE ManagerStep(ManagerNext)
    BY <1>2, ManagerAnswers
  <1>3. CASE BrokerStep(BrokerNext)
    BY <1>1, <1>3, BrokerAnswers
  <1>4. ASSUME NEW w \in Workers, WorkerStep(WorkerNext(w))
        PROVE  AnswerInv'
    BY <1>1, <1>4, WorkerAnswers
  <1>5. CASE UNCHANGED vars
    <2>0. /\ IdsUnique /\ ProblemsSound /\ TasksGenuine /\ RowsCorrect
          /\ ReportsStored /\ ToldStored /\ ResultsCorrect
      BY DEF AnswerInv
    <2>1. UNCHANGED managerVars /\ \A id \in DOMAIN db : id \in DOMAIN db'
      BY <1>5 DEF vars
    <2>2. UNCHANGED <<taskPipe, replyPipe, taskQueue, sending, pub, dealer, tasks, thread, finished,
                      db, dispatcher, reply>>
      BY <1>5 DEF vars, poolVars, pipeVars, socketVars, brokerVars, workerVars, managerVars, threadVars
    <2>3. IdsUnique' /\ ProblemsSound' /\ ToldStored' /\ ResultsCorrect' /\ Advance
      BY <2>0, <2>1, Unmanaged
    <2>4. WorkerPasses
      <3>1. \A v \in Workers : QueuesPass(v)
        BY <2>2 DEF QueuesPass, Among
      <3>2. \A v \in Workers : \A k \in Threads(v) : ThreadPasses(v, k)
        BY <2>2 DEF ThreadPasses
      <3> QED
        BY <2>2, <3>1, <3>2 DEF WorkerPasses
    <2>5. RowsCorrect' /\ TasksGenuine' /\ ReportsStored'
      BY <2>0, <2>2, <2>3, <2>4, WorkerRows, WorkerTasks, WorkerReports
    <2> QED
      BY <2>3, <2>5 DEF AnswerInv
  <1> QED
    BY <1>2, <1>3, <1>4, <1>5 DEF Next

LEMMA AnswerInvariance == Spec => []AnswerInv
  BY WaitInvariance, AnswerInit, AnswerInvStep, PTL DEF Spec

(* README: "User sends AST to decomposer and decomposer sends result when    *)
(* computation is finished."  For the whole system, whatever its threads,    *)
(* queues and processes do, and however an unsynchronised lookup in          *)
(* problem_id_to_sync_data_ ends: what CalculateProblem returns is the value *)
(* of its own expression.                                                    *)
THEOREM CorrectResultHolds == Spec => []CorrectResult
  <1>1. AnswerInv => CorrectResult
    <2> SUFFICES ASSUME AnswerInv, NEW r \in Requests, handler[r] = "done"
                 PROVE  result[r] = Value[r]
      BY DEF CorrectResult
    <2>1. Accepted(r) /\ result[r] = Values(Graph[r])[RootTask(Graph[r])]
      BY DEF AnswerInv, IdsUnique, ResultsCorrect
    <2> QED
      BY <2>1 DEF Accepted, Value, ValueOf
  <1> QED
    BY <1>1, AnswerInvariance, PTL

-----------------------------------------------------------------------------
(* A handler that is told finds the result of its root.                      *)
LEMMA ReadsItsRoot ==
    ASSUME AnswerInv, NEW r \in Requests, handler[r] = "read"
    PROVE  ReadDynamicData(<<problemId[r], RootTask(Graph[r])>>) # Exception
  <1>0. IdsUnique /\ RowsCorrect /\ ToldStored
    BY DEF AnswerInv
  <1>1. PICK row : row = <<problemId[r], RootTask(Graph[r])>>
    OBVIOUS
  <1>2. Stored(row) /\ row[1] = problemId[r]
    BY <1>0, <1>1 DEF ToldStored
  <1>3. r \in Posed
    BY <1>0 DEF Posed, PastPush, IdsUnique
  <1>4. ASSUME NEW q \in Requests, handler[q] = "done", problemId[q] = row[1]
        PROVE  FALSE
    <2>1. q \in Posed
      BY <1>0, <1>4 DEF Posed, PastPush, IdsUnique
    <2>2. q = r
      BY <1>0, <1>2, <1>3, <1>4, <2>1 DEF IdsUnique
    <2> QED
      BY <1>4, <2>2
  <1>5. row \in DOMAIN db
    BY <1>2, <1>4 DEF Stored
  <1>6. db[row] # Exception
    BY <1>0, <1>5 DEF RowsCorrect, ValueAt
  <1> QED
    BY <1>1, <1>5, <1>6 DEF ReadDynamicData

(* A step of the manager answers one request with the value of its           *)
(* expression, or none.                                                      *)
LEMMA AnswerStep ==
    ASSUME AnswerInv, HandlersMove, "out_of_range" \notin RaceOutcomes
    PROVE  [Calculation!Next]_<<Answered, Answer>>
  <1>0. IdsUnique /\ ResultsCorrect /\ DOMAIN result = Requests
    BY DEF AnswerInv, ResultsCorrect
  <1>1. ASSUME \A r \in Requests : (handler'[r] \in {"done", "failed"} <=> handler[r] \in {"done", "failed"})
                                   /\ (handler'[r] = "done" <=> handler[r] = "done"),
               \A r \in Requests : handler[r] = "done" => result'[r] = result[r]
        PROVE  UNCHANGED <<Answered, Answer>>
    <2>1. Answered' = Answered
      BY <1>1 DEF Answered
    <2>2. Answer' = Answer
      BY <1>1 DEF Answer
    <2> QED
      BY <2>1, <2>2
  <1>2. ASSUME NEW r \in Requests, UNCHANGED result,
               \A q \in Requests : q # r => handler'[q] = handler[q],
               handler[r] \notin {"done", "failed"}, handler'[r] \in {"done", "failed"},
               handler'[r] = "done" => result[r] = Value[r],
               handler'[r] = "failed" => Value[r] = Exception
        PROVE  Calculation!Next
    <2>1. r \notin Answered /\ Answered' = Answered \cup {r}
      BY <1>2 DEF Answered
    <2>2. Answer' = [Answer EXCEPT ![r] = Value[r]]
      BY <1>2 DEF Answer
    <2>3. Calculation!Answer(r)
      BY <2>1, <2>2 DEF Calculation!Answer
    <2> QED
      BY <2>3 DEF Calculation!Next
  <1>3. CASE /\ \A q \in Requests : handler'[q] = handler[q]
             /\ UNCHANGED <<problemId, result, nextId, db>>
    BY <1>1, <1>3
  <1>4. ASSUME NEW r \in Requests, \A q \in Requests : q # r => handler'[q] = handler[q],
               Quiet(r) \/ Poses(r)
        PROVE  [Calculation!Next]_<<Answered, Answer>>
    <2>1. UNCHANGED result /\ handler[r] \notin {"done", "failed"} /\ handler'[r] # "done"
      BY <1>4 DEF Quiet, Poses
    <2>2. CASE handler'[r] = "failed"
      <3>1. ~Accepted(r)
        BY <1>4, <2>2 DEF Quiet, Poses
      <3>2. Value[r] = Exception
        BY <3>1 DEF Accepted, Value, ValueOf
      <3> QED
        BY <1>2, <1>4, <2>1, <2>2, <3>2
    <2>3. CASE handler'[r] # "failed"
      BY <1>1, <1>4, <2>1, <2>3
    <2> QED
      BY <2>2, <2>3
  <1>5. ASSUME NEW r \in Requests, \A q \in Requests : q # r => handler'[q] = handler[q], Reads(r)
        PROVE  [Calculation!Next]_<<Answered, Answer>>
    <2>1. /\ handler[r] = "read" /\ handler'[r] = "clear_db"
          /\ \A q \in Requests : q # r => result'[q] = result[q]
      BY <1>0, <1>5, ReadsItsRoot DEF Reads
    <2> QED
      BY <1>1, <1>5, <2>1
  <1>6. ASSUME NEW r \in Requests, \A q \in Requests : q # r => handler'[q] = handler[q], Returns(r)
        PROVE  [Calculation!Next]_<<Answered, Answer>>
    <2>1. handler[r] = "clear_db" /\ handler'[r] = "done" /\ UNCHANGED result
      BY <1>6 DEF Returns
    <2>2. Accepted(r) /\ result[r] = Values(Graph[r])[RootTask(Graph[r])]
      BY <1>0, <2>1 DEF IdsUnique, ResultsCorrect
    <2>3. result[r] = Value[r]
      BY <2>2 DEF Accepted, Value, ValueOf
    <2> QED
      BY <1>2, <1>6, <2>1, <2>3
  <1> QED
    BY <1>3, <1>4, <1>5, <1>6 DEF HandlersMove

(* The whole system implements the safety part of Calculator: a request is   *)
(* answered once, with the value of its expression, or refused when it       *)
(* cannot be decomposed, and an answer never changes.  The one thing assumed *)
(* is that no unsynchronised lookup of a waiting CalculateProblem in         *)
(* problem_id_to_sync_data_ throws, which ends the call without an answer.   *)
THEOREM AnswersAreValuesHolds ==
    Spec => ("out_of_range" \notin RaceOutcomes => AnswersAreValues)
  <1> DEFINE NoneThrows == "out_of_range" \notin RaceOutcomes
  <1>1. Init => Calculation!Init
    BY DEF Init, ManagerInit, Answered, Answer, Calculation!Init
  <1>2. NoneThrows /\ [Next]_vars => NoneThrows'
    OBVIOUS
  <1>3. NoneThrows /\ WaitInv /\ AnswerInv /\ [Next]_vars => [Calculation!Next]_<<Answered, Answer>>
    <2> SUFFICES ASSUME NoneThrows, WaitInv, AnswerInv, [Next]_vars
                 PROVE  [Calculation!Next]_<<Answered, Answer>>
      OBVIOUS
    <2>1. CASE ManagerStep(ManagerNext)
      <3>1. HandlersMove
        BY <2>1, ManagerMoves DEF ManagerStep, WaitInv
      <3> QED
        BY <3>1, AnswerStep
    <2>2. CASE UNCHANGED managerVars
      <3>1. UNCHANGED <<handler, result>>
        BY <2>2 DEF managerVars, handlerVars
      <3> QED
        BY <3>1 DEF Answered, Answer
    <2> QED
      BY <2>1, <2>2 DEF Next, BrokerStep, WorkerStep, vars
  <1> HIDE DEF NoneThrows
  <1>4. Spec => (NoneThrows => AnswersAreValues)
    BY <1>1, <1>2, <1>3, WaitInvariance, AnswerInvariance, PTL DEF Spec, AnswersAreValues
  <1> QED
    BY <1>4 DEF NoneThrows
=============================================================================
