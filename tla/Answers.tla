------------------------------ MODULE Answers ------------------------------
(***************************************************************************)
(* What the manager owes its users: the value of the expression, once.     *)
(***************************************************************************)
EXTENDS Dispatcher, Operations

(* The value of every vertex of a graph, calculated from the leaves up.      *)
Values(g) ==
    LET value[v \in Vertices(g)] ==
            IF g.type[v] \in LeafTypes
            THEN ReadStaticData(g.data[v])
            ELSE CalculateTaskImpl(g.type[v], [i \in DOMAIN g.adj[v] |-> value[g.adj[v][i]]])
    IN  value

ValueOf(r) ==
    IF r \in Rejected \/ IndependentTasksThrow(Graph[r])
    THEN Exception
    ELSE Values(Graph[r])[RootTask(Graph[r])]

Value == [r \in Requests |-> ValueOf(r)]

Answered == {r \in Requests : handler[r] \in {"done", "failed"}}

Answer == [r \in Requests |-> IF handler[r] = "done" THEN result[r] ELSE Exception]

(* README: "User sends AST to decomposer and decomposer sends result when    *)
(* computation is finished."  What a finished request returns is the value   *)
(* of its own expression.                                                    *)
CorrectResult == \A r \in Requests : handler[r] = "done" => result[r] = Value[r]

(* README: "User sends AST to decomposer and decomposer sends result when    *)
(* computation is finished."  Every request is answered in the end.          *)
EveryRequestAnswered == \A r \in Requests : <>(r \in Answered)

Calculation == INSTANCE Calculator WITH
    answered <- Answered,
    answer <- Answer

(* The manager implements the calculator: every request is answered, once,   *)
(* with the value of its expression.                                         *)
ImplementsCalculator == Calculation!Spec
=============================================================================
