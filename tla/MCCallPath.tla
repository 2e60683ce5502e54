----------------------------- MODULE MCCallPath -----------------------------
(* Requests of every operation over the boundary values of a four-bit int.   *)
EXTENDS CallPath

CONSTANT Throws

MCCallers == {"client", "handler", "pool"}

Lowest == -8

Highest == 7

(* data.json: the variables with lower-case names are scalars.               *)
Scalars == [lowest |-> -8, minus |-> -1, zero |-> 0, three |-> 3]

Lists == [E |-> <<>>, L |-> <<3, -1>>, K |-> <<-8, 3>>, M |-> <<-1, 0>>]

MCVariables ==
    [v \in DOMAIN Scalars \cup DOMAIN Lists |->
        IF v \in DOMAIN Scalars THEN Scalar(Scalars[v]) ELSE List(Lists[v])]

MCStaticData == [v \in DOMAIN MCVariables |-> SetupRow(MCVariables[v])]

(* Every operation on what it takes, and on names of the wrong kind or of    *)
(* none.                                                                     *)
Odd == {<<"zero", "E">>, <<"E", "zero">>, <<"missing", "zero">>, <<"E", "missing">>}

ScalarPairs == {"lowest", "three"} \X DOMAIN Scalars

MixedPairs == {"E", "K"} \X DOMAIN Scalars

ListPairs == {<<"E", "E">>, <<"E", "L">>, <<"L", "K">>, <<"L", "M">>, <<"K", "M">>}

(* "so_sum" is a key that ASTs/example1.json uses and the parser does not know. *)
MCInputs ==
    [op : ReduceOps, operands : {<<a>> : a \in DOMAIN Lists \cup {"zero", "missing"}}]
      \cup [op : MixedOps, operands : MixedPairs \cup Odd]
      \cup [op : ListOps, operands : ListPairs \cup Odd]
      \cup [op : ScalarOps, operands : ScalarPairs \cup Odd]
      \cup {[op |-> "so_sum", operands |-> <<"three", "three">>]}
=============================================================================
