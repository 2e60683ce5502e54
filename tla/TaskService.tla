---------------------------- MODULE TaskService ----------------------------
(***************************************************************************)
(* What the manager may expect of the broker and its workers, whatever     *)
(* their number: every task it sends is calculated exactly once, its       *)
(* result is in the database before its id is reported back, and its id is *)
(* reported exactly once.  Nothing is promised about the order.            *)
(***************************************************************************)
EXTENDS BrokerPipe, Database, Operations

VARIABLES
    open,               \* tasks taken from the pipe and not yet calculated
    computed            \* tasks calculated and not yet reported

serviceVars == <<open, computed>>

ServiceInit == open = {} /\ computed = {}

Accept ==
    /\ taskPipe # <<>>
    /\ open' = open \cup {Head(taskPipe)}
    /\ taskPipe' = Tail(taskPipe)
    /\ UNCHANGED <<replyPipe, computed, db>>

Operands(t) == [i \in DOMAIN t.operands |-> ReadData(t.operands[i])]

Calculate(t) ==
    /\ t \in open
    /\ \A i \in DOMAIN t.operands : Operands(t)[i] # Exception
    /\ CalculateTaskImpl(t.op, Operands(t)) # Exception
    /\ WriteDynamicData(t.id, CalculateTaskImpl(t.op, Operands(t)))
    /\ open' = open \ {t}
    /\ computed' = computed \cup {t}
    /\ UNCHANGED pipeVars

Report(t) ==
    /\ t \in computed
    /\ SendOnReplyPipe(t.id)
    /\ computed' = computed \ {t}
    /\ UNCHANGED <<taskPipe, open, db>>

ServiceNext ==
    \/ Accept
    \/ \E t \in open : Calculate(t)
    \/ \E t \in computed : Report(t)
=============================================================================
