--------------------------- MODULE AnswersProofs ---------------------------
(***************************************************************************)
(* What the proofs about the manager alone and about the whole system have *)
(* in common: the value of a vertex of a task graph, and the task a vertex *)
(* becomes.                                                                *)
(***************************************************************************)
EXTENDS Answers, WellFoundedInduction, TLAPS

(* A set of natural numbers that is not empty has a least element.           *)
LEMMA LeastNumber ==
    ASSUME NEW T \in SUBSET Nat, T # {}
    PROVE  \E n \in T : \A k \in T : n <= k
  <1>1. \E x \in T : \A y \in T : ~(<<y, x>> \in OpToRel(<, Nat))
    BY NatLessThanWellFounded, WFMin
  <1>2. OpToRel(<, Nat) = {p \in Nat \X Nat : p[1] < p[2]}
    BY DEF OpToRel
  <1>3. PICK x \in T : \A y \in T : ~(<<y, x>> \in {p \in Nat \X Nat : p[1] < p[2]})
    BY <1>1, <1>2
  <1>4. ASSUME NEW y \in T PROVE x <= y
    <2>1. <<y, x>> \in Nat \X Nat /\ <<y, x>>[1] = y /\ <<y, x>>[2] = x
      OBVIOUS
    <2>2. ~(<<y, x>>[1] < <<y, x>>[2])
      BY <1>3, <2>1
    <2>3. ~(y < x) /\ x \in Nat /\ y \in Nat
      BY <2>1, <2>2
    <2> QED
      BY <2>3
  <1> QED
    BY <1>4

(* What a vertex of a graph is worth, given a value of every vertex.         *)
ValueFrom(g, value, v) ==
    IF g.type[v] \in LeafTypes
    THEN ReadStaticData(g.data[v])
    ELSE CalculateTaskImpl(g.type[v], [i \in DOMAIN g.adj[v] |-> value[g.adj[v][i]]])

(* The recursion of Values comes to an end: there is a function that         *)
(* satisfies it, because operands come first.  The least n for which the     *)
(* first n tasks had no values would be the successor of one that has them.  *)
LEMMA ValuesEquation ==
    ASSUME NEW g, OperandsFirst(g)
    PROVE  Values(g) = [v \in Vertices(g) |-> ValueFrom(g, Values(g), v)]
  <1> DEFINE N == Len(g.tasks)
             First(n) == {g.tasks[i] : i \in 1..n}
             Solved(n) == \E f : f = [v \in First(n) |-> ValueFrom(g, f, v)]
             Open == {n \in 0..N : ~Solved(n)}
  <1>1. N \in Nat /\ DOMAIN g.tasks = 1..N
    BY DEF OperandsFirst
  <1>2. Solved(0)
    <2>1. First(0) = {}
      OBVIOUS
    <2> DEFINE f == [v \in {} |-> 0]
    <2>2. f = [v \in First(0) |-> ValueFrom(g, f, v)]
      BY <2>1
    <2> QED
      BY <2>2
  <1>3. ASSUME NEW n \in 0..(N - 1), Solved(n)
        PROVE  Solved(n + 1)
    <2>1. PICK f : f = [v \in First(n) |-> ValueFrom(g, f, v)]
      BY <1>3
    <2> DEFINE w == g.tasks[n + 1]
               h == [v \in First(n + 1) |-> IF v \in First(n) THEN f[v] ELSE ValueFrom(g, f, w)]
    <2>2. First(n + 1) = First(n) \cup {w}
      <3>1. 1..(n + 1) = (1..n) \cup {n + 1}
        OBVIOUS
      <3> QED
        BY <3>1
    <2>3. ASSUME NEW v \in First(n + 1), NEW k \in DOMAIN g.adj[v]
          PROVE  g.adj[v][k] \in First(n)
      <3>1. PICK i \in 1..(n + 1) : v = g.tasks[i]
        OBVIOUS
      <3>2. i \in DOMAIN g.tasks /\ k \in DOMAIN g.adj[g.tasks[i]]
        BY <1>1, <2>3, <3>1
      <3>3. PICK j \in 1..(i - 1) : g.tasks[j] = g.adj[g.tasks[i]][k]
        BY <3>2 DEF OperandsFirst
      <3> QED
        BY <1>1, <3>1, <3>3
    <2>4. ASSUME NEW v \in First(n + 1)
          PROVE  ValueFrom(g, h, v) = ValueFrom(g, f, v)
      <3>1. [i \in DOMAIN g.adj[v] |-> h[g.adj[v][i]]] = [i \in DOMAIN g.adj[v] |-> f[g.adj[v][i]]]
        BY <2>2, <2>3
      <3> HIDE DEF h
      <3> QED
        BY <3>1 DEF ValueFrom
    <2>5. ASSUME NEW v \in First(n + 1)
          PROVE  h[v] = ValueFrom(g, f, v)
      BY <2>1, <2>2
    <2>6. h = [v \in First(n + 1) |-> ValueFrom(g, h, v)]
      BY <2>4, <2>5
    <2> QED
      BY <2>6
  <1>4. Open = {}
    <2> SUFFICES ASSUME Open # {} PROVE FALSE
      OBVIOUS
    <2> HIDE DEF Solved
    <2>0. Open \in SUBSET Nat
      BY <1>1
    <2>1. PICK n \in Open : \A k \in Open : n <= k
      <3> HIDE DEF Open
      <3> QED
        BY <2>0, LeastNumber
    <2>2. n # 0
      BY <1>2
    <2>3. n - 1 \in 0..(N - 1) /\ Solved(n - 1)
      BY <1>1, <2>1, <2>2
    <2>4. Solved(n)
      BY <1>1, <1>3, <2>1, <2>3
    <2> QED
      BY <2>4
  <1>5. Solved(N)
    <2> HIDE DEF Solved
    <2> QED
      BY <1>1, <1>4
  <1>6. First(N) = Vertices(g)
    BY <1>1 DEF OperandsFirst
  <1>7. \E f : f = [v \in Vertices(g) |-> ValueFrom(g, f, v)]
    BY <1>5, <1>6
  <1> HIDE DEF First, Solved, Open
  <1>8. Values(g) = CHOOSE f : f = [v \in Vertices(g) |-> ValueFrom(g, f, v)]
    BY DEF Values, ValueFrom
  <1> QED
    BY <1>7, <1>8

-----------------------------------------------------------------------------
(* The handlers that have left PushProblem behind, and the requests among    *)
(* them whose expression was decomposed: those that have a PROBLEM_ID.       *)
PastPush == {r \in Requests : handler[r] \notin {"start", "push", "pushing"}}

Accepted(r) == r \notin Rejected /\ ~IndependentTasksThrow(Graph[r])

Posed == {r \in PastPush : Accepted(r)}

(* The vertices that are calculated by a worker, and the task each becomes.  *)
TaskVertices(r) == {v \in Vertices(Graph[r]) : Graph[r].type[v] \notin LeafTypes}

TaskOf(r, v) ==
    [id |-> <<problemId[r], v>>,
     op |-> Graph[r].type[v],
     operands |-> [i \in DOMAIN Graph[r].adj[v] |->
                     IF Graph[r].adj[v][i] \in TaskVertices(r)
                     THEN DynOperand(<<problemId[r], Graph[r].adj[v][i]>>)
                     ELSE StaticOperand(Graph[r].data[Graph[r].adj[v][i]])]]

GenuineTasks == UNION {{TaskOf(r, v) : v \in TaskVertices(r)} : r \in Posed}

-----------------------------------------------------------------------------
(* SendComputableTasks makes the task of the vertex.                         *)
LEMMA FormsTaskOf ==
    ASSUME NEW id, NEW task, NEW r \in Requests \ Rejected, calcData[id].request = r,
           problemId[r] = id, task \in TaskVertices(r)
    PROVE  FormTaskRequest(id, task, Graph[r].adj[task]) = TaskOf(r, task)
  <1> DEFINE g == Graph[r]
  <1>1. g.adj[task] \in Seq(Vertices(g))
    BY GraphAssumption DEF OperandsFirst, TaskVertices
  <1>2. ASSUME NEW i \in DOMAIN g.adj[task]
        PROVE  FormOperand(id, g.adj[task][i]) =
                 IF g.adj[task][i] \in TaskVertices(r)
                 THEN DynOperand(<<problemId[r], g.adj[task][i]>>)
                 ELSE StaticOperand(g.data[g.adj[task][i]])
    <2>1. g.adj[task][i] \in Vertices(g)
      BY <1>1
    <2> QED
      BY <2>1 DEF FormOperand, GetIndependentTasks, TaskVertices
  <1> QED
    BY <1>2 DEF FormTaskRequest, TaskOf

(* What a worker calculates for a task is the value of its vertex, if the    *)
(* rows of its problem it reads are the values of theirs.                    *)
LEMMA VertexValue ==
    ASSUME NEW r \in Requests \ Rejected, NEW v \in TaskVertices(r), NEW t, t = TaskOf(r, v),
           NEW operands, operands = [i \in DOMAIN t.operands |-> ReadData(t.operands[i])],
           \A i \in DOMAIN t.operands : operands[i] # Exception,
           \A u \in TaskVertices(r) :
             <<problemId[r], u>> \in DOMAIN db => db[<<problemId[r], u>>] = Values(Graph[r])[u]
    PROVE  CalculateTaskImpl(t.op, operands) = Values(Graph[r])[v]
  <1> DEFINE g == Graph[r]
  <1>1. OperandsFirst(g) /\ v \in Vertices(g) /\ g.adj[v] \in Seq(Vertices(g))
    BY GraphAssumption DEF OperandsFirst, TaskVertices
  <1>2. \A u \in Vertices(g) : Values(g)[u] = ValueFrom(g, Values(g), u)
    BY <1>1, ValuesEquation
  <1>3. t.op = g.type[v] /\ DOMAIN t.operands = DOMAIN g.adj[v]
    BY DEF TaskOf
  <1>4. ASSUME NEW i \in DOMAIN g.adj[v]
        PROVE  operands[i] = Values(g)[g.adj[v][i]]
    <2> DEFINE u == g.adj[v][i]
    <2>1. u \in Vertices(g) /\ operands[i] = ReadData(t.operands[i])
      BY <1>1, <1>3
    <2>2. CASE u \in TaskVertices(r)
      <3>1. t.operands[i] = [id |-> <<problemId[r], u>>]
        BY <2>2 DEF TaskOf, DynOperand
      <3>2. operands[i] = ReadDynamicData(<<problemId[r], u>>)
        BY <2>1, <3>1 DEF ReadData
      <3>3. ReadDynamicData(<<problemId[r], u>>) # Exception
        BY <1>3, <3>2
      <3>4. <<problemId[r], u>> \in DOMAIN db
        BY <3>3 DEF ReadDynamicData
      <3> QED
        BY <2>2, <3>2, <3>4 DEF ReadDynamicData
    <2>3. CASE u \notin TaskVertices(r)
      <3>1. t.operands[i] = [identifier |-> g.data[u]]
        BY <2>3 DEF TaskOf, StaticOperand
      <3>2. operands[i] = ReadStaticData(g.data[u])
        BY <2>1, <3>1 DEF ReadData
      <3>3. g.type[u] \in LeafTypes
        BY <2>1, <2>3 DEF TaskVertices
      <3> QED
        BY <1>2, <2>1, <3>2, <3>3 DEF ValueFrom
    <2> QED
      BY <2>2, <2>3
  <1>5. operands = [i \in DOMAIN g.adj[v] |-> Values(g)[g.adj[v][i]]]
    BY <1>3, <1>4
  <1>6. g.type[v] \notin LeafTypes
    BY DEF TaskVertices
  <1>7. Values(g)[v] = CalculateTaskImpl(g.type[v],
                                         [i \in DOMAIN g.adj[v] |-> Values(g)[g.adj[v][i]]])
    BY <1>1, <1>2, <1>6 DEF ValueFrom
  <1> QED
    BY <1>3, <1>5, <1>7
=============================================================================
