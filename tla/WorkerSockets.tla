--------------------------- MODULE WorkerSockets ---------------------------
(***************************************************************************)
(* The two socket pairs between the Broker and the Workers.                *)
(*                                                                         *)
(* PUB-SUB: the broker publishes every WorkerTask to all the subscribers   *)
(* it knows of; each worker drops the tasks that do not name it.  A PUB    *)
(* socket never blocks: a worker whose subscription has not yet reached    *)
(* the publisher, or whose queue is at its mark PubHwm, misses the message.*)
(*                                                                         *)
(* DEALER-ROUTER: one FIFO per worker, read in turn by the broker.         *)
(***************************************************************************)
EXTENDS Integers, Sequences, FiniteSets

CONSTANTS
    Workers,            \* the identities (WORKER_IDENTITY) of the workers
    CoreCount,          \* CoreCount[w]: CORE_COUNT of worker w
    Tasks,              \* the task::Task messages
    PubHwm              \* messages a subscriber's queue holds before PUB drops

ASSUME WorkerSocketsAssumption ==
    /\ IsFiniteSet(Workers)
    /\ CoreCount \in [Workers -> Nat \ {0}]
    /\ PubHwm \in Nat \ {0}

VARIABLES
    subscribed,         \* the workers whose subscription the PUB socket has seen
    pub,                \* pub[w]: published WorkerTask messages w has not read
    dealer              \* dealer[w]: WorkerMessage messages the broker has not read

socketVars == <<subscribed, pub, dealer>>

(* worker.proto: WorkerTask (a task addressed to a worker), WorkerTaskId (an *)
(* answer of a worker), and WorkerMessage with the two alternatives of its   *)
(* oneof "data".                                                             *)
TaskId == {t.id : t \in Tasks}

WorkerTask == [identity : Workers, task : Tasks]

WorkerTaskId == [identity : Workers, id : TaskId]

CoreCountMessage == [data : {"core_count"}, core_count : Nat]

TaskIdMessage == [data : {"task_id"}, task_id : WorkerTaskId]

WorkerMessage == CoreCountMessage \cup TaskIdMessage

SocketsInit ==
    /\ subscribed = {}
    /\ pub = [w \in Workers |-> <<>>]
    /\ dealer = [w \in Workers |-> <<>>]

Publish(message) ==
    pub' = [w \in Workers |->
              IF w \in subscribed /\ Len(pub[w]) < PubHwm
              THEN Append(pub[w], message) ELSE pub[w]]

(* The number of messages of s that belong to the set S.                     *)
CountIn(s, S) == Cardinality({i \in DOMAIN s : s[i] \in S})
=============================================================================
