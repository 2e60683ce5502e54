---------------------------- MODULE MCDecomposer ----------------------------
(* All the requests of depth at most two over a few leaves and operations,   *)
(* among them some that are malformed.                                       *)
EXTENDS Decomposer

CONSTANT Throws

JsonLeaf(key, data) == [key |-> key, data |-> data]

Leaves == {JsonLeaf("list", "A"), JsonLeaf("list", "B"), JsonLeaf("scalar_var", "A")}

Unary(op, S) == [key : {op}, lhs : S]

Binary(op, S) == [key : {op}, lhs : S, rhs : S]

DepthOne == Leaves \cup Unary("re_sum", Leaves) \cup Binary("lo_div", Leaves)

DepthTwo == DepthOne \cup Unary("re_min", DepthOne) \cup Binary("lo_div", DepthOne)
              \cup Binary("so_max", DepthOne)

(* A reduction with a superfluous rhs, an unknown operation, the invalid     *)
(* operation, a constant and a missing operand, each below another node.     *)
Odd ==
    Binary("re_max", Leaves)
      \cup {[key |-> "so_sum", lhs |-> leaf] : leaf \in Leaves}
      \cup {JsonLeaf("scalar", "5"), JsonLeaf("scalar_const", "5")}
      \cup {[key |-> "lo_dot", lhs |-> leaf] : leaf \in Leaves}

Malformed == Odd \cup Unary("re_mul", Odd) \cup Binary("so_add", Odd \cup Leaves)
               \cup {[key |-> "invalid"]}

MCJsons == DepthTwo \cup Malformed
=============================================================================
