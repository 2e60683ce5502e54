--------------------------- MODULE Decomposition ---------------------------
(***************************************************************************)
(* From the JSON text of a request to its task graph: Expr::FromJson,      *)
(* DagVisitor (value numbering over a postorder traversal), BuildGraph and *)
(* the topological sort.                                                   *)
(*                                                                         *)
(* A JSON node is a record with its key and the members that are present:  *)
(* lhs, rhs (nodes) and data (the string or number of a leaf).  An Expr    *)
(* is a record with its type and the members its class keeps.              *)
(***************************************************************************)
EXTENDS TaskGraph, SequencesExt

CONSTANT Exception      \* what an operation that throws yields in place of a value

(* The types of ReduceExpr, MapExpr, ListOpExpr and ScalarOpExpr: the first  *)
(* has one operand, the others have two.                                     *)
ReduceTypes == {"re_min", "re_max", "re_mul", "re_sum", "re_size"}

MapTypes == {"me_add", "me_mul", "me_div"}

ListOpTypes == {"lo_add", "lo_mul", "lo_div", "lo_dot"}

ScalarOpTypes == {"so_add", "so_mul", "so_div", "so_max", "so_min"}

BinaryTypes == MapTypes \cup ListOpTypes \cup ScalarOpTypes

(* The absent operand: a nullptr.                                            *)
Null == [type |-> "nullptr"]

Leaf(type, data) == [type |-> type, data |-> data]

(* Expr::New: a ReduceExpr keeps operand1 only; a leaf needs its data, which *)
(* STRING_TO_EXPR_TYPE never gives it: value() of an empty optional throws.  *)
NewExpr(type, operand1, operand2) ==
    CASE type \in ReduceTypes -> [type |-> type, lhs |-> operand1]
      [] type \in BinaryTypes -> [type |-> type, lhs |-> operand1, rhs |-> operand2]
      [] OTHER -> Exception

(* FromJsonImpl.  Every key that starts with "scalar" and is not scalar_var  *)
(* is a constant; an unknown key is an out_of_range.                         *)
RECURSIVE FromJson(_)
FromJson(node) ==
    LET operand(name) == IF name \in DOMAIN node THEN FromJson(node[name]) ELSE Null
        lhs == operand("lhs")
        rhs == operand("rhs")
    IN  CASE node.key = "list" -> Leaf("list", node.data)
          [] node.key = "scalar_var" -> Leaf("scalar_var", node.data)
          [] node.key \in {"scalar", "scalar_const"} -> Leaf("scalar_const", node.data)
          [] lhs = Exception \/ rhs = Exception -> Exception
          [] OTHER -> NewExpr(node.key, lhs, rhs)

(* GetLhs and GetRhs, the operands a class keeps.                            *)
ExprOperands(expr) ==
    (IF "lhs" \in DOMAIN expr THEN <<expr.lhs>> ELSE <<>>)
      \o (IF "rhs" \in DOMAIN expr THEN <<expr.rhs>> ELSE <<>>)

(* Some operator node lacks an operand: PostorderTraverse dereferences the   *)
(* nullptr, which is undefined behaviour.                                    *)
RECURSIVE Dereferences(_)
Dereferences(expr) ==
    \/ expr = Null
    \/ \E i \in DOMAIN ExprOperands(expr) : Dereferences(ExprOperands(expr)[i])

(* PostorderTraverse: the sequence of calls of visitor.Visit.                *)
RECURSIVE PostorderTraverse(_)
PostorderTraverse(expr) ==
    Append(FoldLeft(LAMBDA calls, operand : calls \o PostorderTraverse(operand),
                    <<>>, ExprOperands(expr)),
           expr)

(* Mutant: every expression is recorded.                                     *)
VisitAll(records, expr) == Append(records, expr)

(* DagVisitor::Visit: a record is kept unless an equal one was.  operator==  *)
(* compares type and operands, hence is equality of the records.             *)
Visit(records, expr) ==
    IF Contains(records, expr) THEN records ELSE Append(records, expr)

(* GetData: only a leaf has any.                                             *)
GetData(expr) == IF "data" \in DOMAIN expr THEN expr.data ELSE "monostate"

(* Mutant: the edge to rhs before the edge to lhs.                           *)
BuildGraphRhsFirst(records) ==
    LET descriptor(expr) == SelectInSeq(records, LAMBDA record : record = expr) - 1
        operands(v) == Reverse(ExprOperands(records[v + 1]))
        vertices == 0..(Len(records) - 1)
    IN  [type |-> [v \in vertices |-> records[v + 1].type],
         data |-> [v \in vertices |-> GetData(records[v + 1])],
         adj |-> [v \in vertices |->
                    [i \in DOMAIN operands(v) |-> descriptor(operands(v)[i])]]]

(* DagVisitor::BuildGraph: vertex i is the i-th record, counted from 0; an   *)
(* edge leads to the first record equal to the operand, lhs before rhs.      *)
BuildGraph(records) ==
    LET descriptor(expr) == SelectInSeq(records, LAMBDA record : record = expr) - 1
        record(v) == records[v + 1]
        vertices == 0..(Len(records) - 1)
    IN  [type |-> [v \in vertices |-> record(v).type],
         data |-> [v \in vertices |-> GetData(record(v))],
         adj |-> [v \in vertices |->
                    [i \in DOMAIN ExprOperands(record(v)) |->
                        descriptor(ExprOperands(record(v))[i])]]]

(* boost::topological_sort into a back_inserter: a depth-first search that   *)
(* emits a vertex when it is finished, so that operands come first.          *)
RECURSIVE Finish(_, _, _)
Finish(graph, finished, v) ==
    IF Contains(finished, v)
    THEN finished
    ELSE Append(FoldLeft(LAMBDA done, u : Finish(graph, done, u), finished, graph.adj[v]), v)

(* Mutant: a front_inserter.                                                 *)
TopologicalSortFromRoot(graph) ==
    Reverse(FoldLeft(LAMBDA done, v : Finish(graph, done, v), <<>>,
                     [i \in 1..Cardinality(DOMAIN graph.type) |-> i - 1]))

TopologicalSort(graph) ==
    FoldLeft(LAMBDA done, v : Finish(graph, done, v), <<>>,
             [i \in 1..Cardinality(DOMAIN graph.type) |-> i - 1])

Sorted(graph) ==
    [tasks |-> TopologicalSort(graph),
     type |-> graph.type, data |-> graph.data, adj |-> graph.adj]

(* TaskDecompositor::New                                                     *)
Decomposed(expr) == Sorted(BuildGraph(FoldLeft(Visit, <<>>, PostorderTraverse(expr))))
=============================================================================
