------------------------------- MODULE Domain -------------------------------
(***************************************************************************)
(* domain.h and domain.cpp: scalars, lists and the operations on them, and *)
(* the switch of the thread pool that selects one.  A Scalar is a C++ int  *)
(* of the range IntMin..IntMax; sums and products wrap around, as the      *)
(* project's build (no optimisation flags) compiles them.  What ends the   *)
(* worker process yields Exception: a thrown exception, a failed assert    *)
(* (NDEBUG is not set), SIGFPE, or a read through the null begin() of an   *)
(* empty vector.                                                           *)
(***************************************************************************)
EXTENDS Exceptions, Integers, Sequences

Seqs == INSTANCE SequencesExt

CONSTANTS IntMin, IntMax

(* enum class ExprType: the number of a member is its position, from 0.      *)
ExprType == <<"invalid", "re_min", "re_max", "re_mul", "re_sum", "re_size",
              "me_add", "me_mul", "me_div", "lo_add", "lo_mul", "lo_div", "lo_dot",
              "so_add", "so_mul", "so_div", "so_max", "so_min",
              "list", "scalar_const", "scalar_var">>

Number(type) == (CHOOSE i \in DOMAIN ExprType : ExprType[i] = type) - 1

ReduceOps == {"re_min", "re_max", "re_mul", "re_sum", "re_size"}

MixedOps == {"me_add", "me_mul", "me_div"}

ListOps == {"lo_add", "lo_mul", "lo_div", "lo_dot"}

ScalarOps == {"so_add", "so_mul", "so_div", "so_max", "so_min"}

(* ExprResult, a std::variant: <<alternative, value>>.                       *)
List(l) == <<"List", l>>

Scalar(x) == <<"Scalar", x>>

-----------------------------------------------------------------------------
Wrap(x) == ((x - IntMin) % (IntMax - IntMin + 1)) + IntMin

Sum(x1, x2) == Wrap(x1 + x2)

Mul(x1, x2) == Wrap(x1 * x2)

Magnitude(x) == IF x < 0 THEN -x ELSE x

(* Mutant: division rounds down.                                             *)
DivFloor(x1, x2) ==
    IF x2 = 0 \/ (x1 = IntMin /\ x2 = -1) THEN Exception
    ELSE IF x2 > 0 THEN x1 \div x2 ELSE (-x1) \div (-x2)

(* C++ division truncates; a zero divisor and INT_MIN / -1 trap.             *)
Div(x1, x2) ==
    IF x2 = 0 \/ (x1 = IntMin /\ x2 = -1)
    THEN Exception
    ELSE (Magnitude(x1) \div Magnitude(x2)) * (IF (x1 < 0) = (x2 < 0) THEN 1 ELSE -1)

MinScalar(x1, x2) == IF x2 < x1 THEN x2 ELSE x1

MaxScalar(x1, x2) == IF x1 < x2 THEN x2 ELSE x1

MulList(l) == Seqs!FoldLeft(Mul, 1, l)

SumList(l) == Seqs!FoldLeft(Sum, 0, l)

(* *std::min(begin, end): the smaller of two iterators, so the first element.*)
MinList(l) == IF l = <<>> THEN Exception ELSE l[1]

(* The same expression, std::min included.                                   *)
MaxList(l) == IF l = <<>> THEN Exception ELSE l[1]

SizeList(l) == Wrap(Len(l))

(* The list as a whole, or Exception when an element is.                     *)
OrException(l) == IF \E i \in DOMAIN l : l[i] = Exception THEN Exception ELSE l

Transform(Op(_), l) == OrException([i \in DOMAIN l |-> Op(l[i])])

SumListScalar(l, x) == Transform(LAMBDA y : Sum(y, x), l)

MulListScalar(l, x) == Transform(LAMBDA y : Mul(y, x), l)

DivListScalar(l, x) == Transform(LAMBDA y : Div(y, x), l)

(* assert(l1.size() == l2.size()), then element by element.                  *)
ElementWise(Op(_, _), l1, l2) ==
    IF Len(l1) # Len(l2)
    THEN Exception
    ELSE OrException([i \in DOMAIN l1 |-> Op(l1[i], l2[i])])

SumLists(l1, l2) == ElementWise(Sum, l1, l2)

MulLists(l1, l2) == ElementWise(Mul, l1, l2)

DivLists(l1, l2) == ElementWise(Div, l1, l2)

Dot(l1, l2) == IF Len(l1) # Len(l2) THEN Exception ELSE SumList(MulLists(l1, l2))

-----------------------------------------------------------------------------
(* The alternative std::get asks of the left and of the right operand.       *)
LhsAlternative(type) == IF type \in ScalarOps THEN "Scalar" ELSE "List"

RhsAlternative(type) == IF type \in ListOps THEN "List" ELSE "Scalar"

Apply(type, lhs, rhs) ==
    CASE type = "re_min"  -> MinList(lhs)
      [] type = "re_max"  -> MaxList(lhs)
      [] type = "re_mul"  -> MulList(lhs)
      [] type = "re_sum"  -> SumList(lhs)
      [] type = "re_size" -> SizeList(lhs)
      [] type = "me_add"  -> SumListScalar(lhs, rhs)
      [] type = "me_mul"  -> MulListScalar(lhs, rhs)
      [] type = "me_div"  -> DivListScalar(lhs, rhs)
      [] type = "lo_add"  -> SumLists(lhs, rhs)
      [] type = "lo_mul"  -> MulLists(lhs, rhs)
      [] type = "lo_div"  -> DivLists(lhs, rhs)
      [] type = "lo_dot"  -> Dot(lhs, rhs)
      [] type = "so_add"  -> Sum(lhs, rhs)
      [] type = "so_mul"  -> Mul(lhs, rhs)
      [] type = "so_div"  -> Div(lhs, rhs)
      [] type = "so_max"  -> MaxScalar(lhs, rhs)
      [] type = "so_min"  -> MinScalar(lhs, rhs)

YieldsList(type) == type \in MixedOps \cup (ListOps \ {"lo_dot"})

(* CalculateTaskImpl: the operands are the first and the last one read; a    *)
(* wrong alternative throws bad_variant_access, any other type logic_error.  *)
CalculateTaskImpl(type, operands) ==
    LET lhs == operands[1]
        rhs == operands[Len(operands)]
        value == Apply(type, lhs[2], rhs[2])
    IN  IF \/ type \notin ReduceOps \cup MixedOps \cup ListOps \cup ScalarOps
           \/ lhs[1] # LhsAlternative(type)
           \/ type \notin ReduceOps /\ rhs[1] # RhsAlternative(type)
           \/ value = Exception
        THEN Exception
        ELSE IF YieldsList(type) THEN List(value) ELSE Scalar(value)
=============================================================================
