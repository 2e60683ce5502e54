------------------------------- MODULE System -------------------------------
(***************************************************************************)
(* The whole of it: the manager with its handler and dispatcher threads,   *)
(* the broker and the workers with their pools, joined by the PAIR, PUB    *)
(* and DEALER sockets and by the database.  What each side assumes of the  *)
(* other in Pool and Manager is here the other itself.                     *)
(***************************************************************************)
EXTENDS Answers, Broker, Worker

poolVars == <<socketVars, brokerVars, workerVars>>

vars == <<managerVars, pipeVars, poolVars, db>>

Init ==
    /\ ManagerInit /\ PipeInit /\ DatabaseInit
    /\ SocketsInit /\ BrokerInit /\ WorkerInit

ManagerStep(A) == A /\ UNCHANGED poolVars

BrokerStep(A) == A /\ UNCHANGED <<managerVars, workerVars, db>>

WorkerStep(A) == A /\ UNCHANGED <<managerVars, brokerVars, pipeVars>>

Next ==
    \/ ManagerStep(ManagerNext)
    \/ BrokerStep(BrokerNext)
    \/ \E w \in Workers : WorkerStep(WorkerNext(w))

Spec == Init /\ [][Next]_vars

-----------------------------------------------------------------------------
DispatcherBlocked ==
    managerUp /\ dispatcher = "sending" /\ ProblemsToSend # {} /\ Len(taskPipe) = PipeHwm

BrokerBlocked == brokerUp /\ sending # <<>> /\ Len(replyPipe) = PipeHwm

(* The dispatcher sends with m_ held and reads no reply meanwhile; the       *)
(* broker sends a result before it reads the next task.  The two never wait  *)
(* for each other, each for room in the direction the other should empty, as *)
(* long as no more than 2 * PipeHwm + 1 tasks can be under way at once.      *)
NoMutualWait == ~(DispatcherBlocked /\ BrokerBlocked)

(* The safety part of Calculator, for the whole system: a request is         *)
(* answered once, and with the value of its own expression, whatever the     *)
(* threads, sockets and processes between do meanwhile.                      *)
AnswersAreValues == Calculation!Init /\ [][Calculation!Next]_<<Answered, Answer>>
=============================================================================
