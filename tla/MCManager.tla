----------------------------- MODULE MCManager -----------------------------
(* Small instances of the manager.  Their graphs are written out, and        *)
(* assumed to be what module Decomposition makes of the JSON text of the     *)
(* requests.  A value is the term that describes how it was calculated.      *)
EXTENDS Manager

CONSTANTS Throws, r1, r2, r3

D == INSTANCE Decomposition

A == [key |-> "list", data |-> "A"]
Reduce(op, operand) == [key |-> op, lhs |-> operand]
Apply(op, left, right) == [key |-> op, lhs |-> left, rhs |-> right]

From0(s) == [v \in 0..(Len(s) - 1) |-> s[v + 1]]

TasksGraph(types, data, adj) ==
    [tasks |-> [i \in DOMAIN types |-> i - 1],
     type |-> From0(types), data |-> From0(data), adj |-> From0(adj)]

(* re_sum(A) *)
Sum == TasksGraph(<<"list", "re_sum">>, <<"A", "monostate">>, << <<>>, <<0>> >>)

(* re_size(A) *)
Size == TasksGraph(<<"list", "re_size">>, <<"A", "monostate">>, << <<>>, <<0>> >>)

(* so_div(re_sum(A), re_size(A)): two independent tasks and one that divides *)
(* their results.                                                            *)
Quotient == TasksGraph(<<"list", "re_sum", "re_size", "so_div">>,
                       <<"A", "monostate", "monostate", "monostate">>,
                       << <<>>, <<0>>, <<0>>, <<1, 2>> >>)

(* so_mul(re_sum(A), re_sum(A)): a common subexpression is one task, used    *)
(* twice by another.                                                         *)
Square == TasksGraph(<<"list", "re_sum", "so_mul">>,
                     <<"A", "monostate", "monostate">>,
                     << <<>>, <<0>>, <<1, 1>> >>)

(* re_sum(5): a constant below an operation. *)
Constant == TasksGraph(<<"scalar_const", "re_sum">>, <<"5", "monostate">>, << <<>>, <<0>> >>)

(* A variable and nothing else. *)
Variable == TasksGraph(<<"list">>, <<"A">>, << <<>> >>)

Decomposes(graph, node) == graph = D!Decomposed(D!FromJson(node))

ASSUME GraphsAreDecompositions ==
    /\ Decomposes(Sum, Reduce("re_sum", A))
    /\ Decomposes(Size, Reduce("re_size", A))
    /\ Decomposes(Quotient, Apply("so_div", Reduce("re_sum", A), Reduce("re_size", A)))
    /\ Decomposes(Square, Apply("so_mul", Reduce("re_sum", A), Reduce("re_sum", A)))
    /\ Decomposes(Constant, Reduce("re_sum", [key |-> "scalar_const", data |-> "5"]))
    /\ Decomposes(Variable, A)

TwoRequests == {r1, r2}
ThreeRequests == {r1, r2, r3}
None == {}

QuotientAndSum == [r \in TwoRequests |-> IF r = r1 THEN Quotient ELSE Sum]
SumAndSize == [r \in TwoRequests |-> IF r = r1 THEN Sum ELSE Size]
SumAndVariable == [r \in TwoRequests |-> IF r = r1 THEN Sum ELSE Variable]
WithConstant ==
    [r \in ThreeRequests |-> IF r = r1 THEN Quotient ELSE IF r = r2 THEN Square ELSE Constant]

MCStaticData == [v \in {"A"} |-> [variable |-> v]]

Term(op, operands) == [op |-> op, operands |-> operands]

OnlyFound == {"found"}
AnyOutcome == {"found", "out_of_range", "crash"}
=============================================================================
