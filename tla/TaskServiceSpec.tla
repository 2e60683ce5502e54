-------------------------- MODULE TaskServiceSpec --------------------------
(***************************************************************************)
(* The task service alone: the abstract specification of the broker and    *)
(* its workers, with a manager that sends any task it has not sent.        *)
(***************************************************************************)
EXTENDS TaskService

CONSTANT Tasks          \* the task::Task messages

VARIABLE unsent         \* the tasks the manager has not sent

allVars == <<pipeVars, db, serviceVars, unsent>>

Submit(t) ==
    /\ t \in unsent
    /\ SendOnTaskPipe(t)
    /\ unsent' = unsent \ {t}
    /\ UNCHANGED <<replyPipe, db, serviceVars>>

TakeReply ==
    /\ replyPipe # <<>>
    /\ replyPipe' = Tail(replyPipe)
    /\ UNCHANGED <<taskPipe, db, serviceVars, unsent>>

Init == PipeInit /\ DatabaseInit /\ ServiceInit /\ unsent = Tasks

Next ==
    \/ ServiceNext /\ UNCHANGED unsent
    \/ \E t \in unsent : Submit(t)
    \/ TakeReply

Spec == Init /\ [][Next]_allVars
=============================================================================
