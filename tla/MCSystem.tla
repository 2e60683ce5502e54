------------------------------ MODULE MCSystem ------------------------------
(* A small instance of the whole system. *)
EXTENDS System

CONSTANTS Throws, r1, r2, w1

D == INSTANCE Decomposition

From0(s) == [v \in 0..(Len(s) - 1) |-> s[v + 1]]

TasksGraph(types, data, adj) ==
    [tasks |-> [i \in DOMAIN types |-> i - 1],
     type |-> From0(types), data |-> From0(data), adj |-> From0(adj)]

(* so_div(re_sum(A), re_size(A)) and re_max(A): three tasks at once. *)
Quotient == TasksGraph(<<"list", "re_sum", "re_size", "so_div">>,
                       <<"A", "monostate", "monostate", "monostate">>,
                       << <<>>, <<0>>, <<0>>, <<1, 2>> >>)

Maximum == TasksGraph(<<"list", "re_max">>, <<"A", "monostate">>, << <<>>, <<0>> >>)

A == [key |-> "list", data |-> "A"]
Reduce(op) == [key |-> op, lhs |-> A]

ASSUME GraphsAreDecompositions ==
    /\ Quotient = D!Decomposed(D!FromJson(
                     [key |-> "so_div", lhs |-> Reduce("re_sum"), rhs |-> Reduce("re_size")]))
    /\ Maximum = D!Decomposed(D!FromJson(Reduce("re_max")))

TwoRequests == {r1, r2}
MCGraph == [r \in TwoRequests |-> IF r = r1 THEN Quotient ELSE Maximum]
None == {}
OnlyFound == {"found"}

MCStaticData == [v \in {"A"} |-> [variable |-> v]]

Term(op, operands) == [op |-> op, operands |-> operands]

OneWorker == {w1}
MCCoreCount == [w \in OneWorker |-> 3]

(* Only the types of Pool speak of this set; here the dispatcher makes them. *)
MCTasks == {}
=============================================================================
