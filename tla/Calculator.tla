----------------------------- MODULE Calculator -----------------------------
(***************************************************************************)
(* What the system promises its users: every request is answered once,     *)
(* with the value of its expression.  The value of a request is Exception  *)
(* when its expression cannot be decomposed; such a request is refused.    *)
(***************************************************************************)
CONSTANTS
    Requests,           \* the requests of the users
    Value,              \* Value[r]: the value of the expression of request r
    Exception           \* the value of what cannot be calculated

VARIABLES
    answered,           \* the requests answered so far
    answer              \* answer[r]: the value sent back for r, Exception before

Init ==
    /\ answered = {}
    /\ answer = [r \in Requests |-> Exception]

Answer(r) ==
    /\ r \notin answered
    /\ answered' = answered \cup {r}
    /\ answer' = [answer EXCEPT ![r] = Value[r]]

Next == \E r \in Requests : Answer(r)

Fairness == \A r \in Requests : WF_<<answered, answer>>(Answer(r))

Spec == Init /\ [][Next]_<<answered, answer>> /\ Fairness
=============================================================================
