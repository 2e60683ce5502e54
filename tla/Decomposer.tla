----------------------------- MODULE Decomposer -----------------------------
(***************************************************************************)
(* One run of the decomposition of a request, step by step: parse, visit   *)
(* the expressions in postorder, build the graph and sort it; then the     *)
(* tasks are asked for and completed one at a time, in any order, with     *)
(* the questions the dispatcher asks.                                      *)
(***************************************************************************)
EXTENDS Decomposition

CONSTANT Jsons          \* the requests (JSON nodes) to decompose

VARIABLES
    json,               \* the request
    expr,               \* the expression parsed from it
    calls,              \* the calls of Visit still to come
    records,            \* DagVisitor::records_
    graph,              \* the graph, with the sorted tasks
    completed,          \* tasks whose result is known
    pc                  \* the next step

vars == <<json, expr, calls, records, graph, completed, pc>>

NoGraph == [tasks |-> <<>>]

Init ==
    /\ json \in Jsons
    /\ expr = Null
    /\ calls = <<>>
    /\ records = <<>>
    /\ graph = NoGraph
    /\ completed = {}
    /\ pc = "parse"

(* AST::FromJson; an exception ends the request, a missing operand ends the  *)
(* process as soon as the expression is traversed.                           *)
Parse ==
    LET parsed == FromJson(json)
    IN  /\ pc = "parse"
        /\ \/ /\ parsed = Exception
              /\ pc' = "failed"
              /\ UNCHANGED <<expr, calls>>
           \/ /\ parsed # Exception /\ Dereferences(parsed)
              /\ expr' = parsed
              /\ pc' = "crashed"
              /\ UNCHANGED calls
           \/ /\ parsed # Exception /\ ~Dereferences(parsed)
              /\ expr' = parsed
              /\ calls' = PostorderTraverse(parsed)
              /\ pc' = "visit"
        /\ UNCHANGED <<json, records, graph, completed>>

VisitNext ==
    /\ pc = "visit" /\ calls # <<>>
    /\ records' = Visit(records, Head(calls))
    /\ calls' = Tail(calls)
    /\ UNCHANGED <<json, expr, graph, completed, pc>>

(* BuildGraph and topological_sort, then GetIndependentTasks.                *)
Build ==
    LET g == Sorted(BuildGraph(records))
    IN  /\ pc = "visit" /\ calls = <<>>
        /\ graph' = g
        /\ \/ /\ IndependentTasksThrow(g)
              /\ pc' = "failed"
              /\ UNCHANGED completed
           \/ /\ ~IndependentTasksThrow(g)
              /\ completed' = DOMAIN GetIndependentTasks(g)
              /\ pc' = "compute"
        /\ UNCHANGED <<json, expr, calls, records>>

Complete(v) ==
    /\ pc = "compute"
    /\ v \in DOMAIN GetComputableTasks(graph, completed, {})
    /\ completed' = completed \cup {v}
    /\ UNCHANGED <<json, expr, calls, records, graph, pc>>

Next ==
    \/ Parse
    \/ VisitNext
    \/ Build
    \/ \E v \in 0..(Len(records) - 1) : Complete(v)

Spec == Init /\ [][Next]_vars

-----------------------------------------------------------------------------
Built == graph # NoGraph

RECURSIVE Subexpressions(_)
Subexpressions(e) ==
    {e} \cup UNION {Subexpressions(ExprOperands(e)[i]) : i \in DOMAIN ExprOperands(e)}

(* The expression a vertex stands for: the graph read back from v.           *)
RECURSIVE Unfold(_)
Unfold(v) ==
    LET operands == [i \in DOMAIN graph.adj[v] |-> Unfold(graph.adj[v][i])]
    IN  CASE Len(operands) = 0 -> Leaf(graph.type[v], graph.data[v])
          [] Len(operands) = 1 -> [type |-> graph.type[v], lhs |-> operands[1]]
          [] OTHER -> [type |-> graph.type[v], lhs |-> operands[1], rhs |-> operands[2]]

(* README: value-number decomposition.  The graph has one vertex for every   *)
(* distinct subexpression: common ones are calculated once.                  *)
OneTaskPerSubexpression ==
    Built => /\ {Unfold(v) : v \in Vertices(graph)} = Subexpressions(expr)
             /\ Cardinality(Vertices(graph)) = Cardinality(Subexpressions(expr))

(* The graph read back from the last sorted task, which the dispatcher takes *)
(* for the root, is the expression of the request: sharing a vertex neither  *)
(* swaps, merges nor drops an operand.                                       *)
GraphIsExpression == Built => Unfold(RootTask(graph)) = expr

(* Every sorted task comes after its operands, every vertex is sorted        *)
(* exactly once and the last one needs them all: what the proofs about the   *)
(* manager assume of a graph.                                                *)
TopologicalOrder ==
    Built => /\ Len(graph.tasks) = Cardinality(Vertices(graph))
             /\ OperandsFirst(graph) /\ OneRoot(graph)

(* Completing computable tasks in whatever order never gets stuck before the *)
(* root, and the root is the last: when it is reported every other task has  *)
(* been, so a problem is never cleared with tasks still on their way.        *)
RootIsLast ==
    pc = "compute" =>
        /\ DOMAIN GetComputableTasks(graph, completed, {}) = {}
             => completed = Vertices(graph)
        /\ RootTask(graph) \in completed => completed = Vertices(graph)
=============================================================================
