------------------------------ MODULE Startup ------------------------------
(***************************************************************************)
(* How the server processes build what they run on: contexts and           *)
(* sockets are made in New(), moved into parameters and from there into    *)
(* members, poll_items_ keeps raw handles of member sockets, and threads   *)
(* are started by constructors.  A process is a sequence of steps, each a  *)
(* call of cppzmq, the construction of a member or the start of a thread.  *)
(* An exception is nowhere caught and ends the process where it is thrown. *)
(* The process "any" makes every call of cppzmq in any order, "monitor"    *)
(* those of monitor_t beside the sockets that are watched.                 *)
(***************************************************************************)
EXTENDS CppZmq

CONSTANTS
    Processes,          \* the processes that may be started
    AnyContexts,        \* the context_t objects of the process "any"
    AnySockets,         \* its socket_t objects
    AnyMessages,        \* its message_t objects
    AnyMonitors         \* the monitor_t objects of the process "monitor"

ASSUME StartupAssumption ==
    Processes \subseteq {"broker", "manager", "worker", "database", "any", "monitor"}

VARIABLES
    process,            \* the process that was started
    script,             \* the steps still to take, up to the next round of the main loop
    up,                 \* no exception has ended it
    pollItems,          \* scope -> handles in the poll_items_ of the object living there
    made,               \* the constructed members that threads use
    threads             \* the threads running, by what they do

startVars == <<process, script, up, pollItems, made, threads>>
vars == <<zmqVars, startVars>>

-----------------------------------------------------------------------------
(* The steps.  An object is <<scope, name>>: the variable of New() is        *)
(* "local", the constructor's parameter "param", the data member "member".   *)
Step(do, x, y) == [do |-> do, x |-> x, y |-> y]

NewContext == Step("new_context", <<"local", "context">>, "none")
NewSocket(name) == Step("new_socket", <<"local", name>>, <<"local", "context">>)
SetStep(name, option) == Step("set", <<"local", name>>, option)
BindStep(name) == Step("bind", <<"local", name>>, name)
ConnectStep(name) == Step("connect", <<"local", name>>, name)
MayThrow == Step("may_throw", "none", "none")
Make(x) == Step("make", x, "none")
Start(thread) == Step("start", thread, "none")
PollItem(scope, name) == Step("poll_item", "member", <<scope, name>>)

MoveAll(from, to, names) ==
    [i \in DOMAIN names |-> Step("move", <<to, names[i]>>, <<from, names[i]>>)]

DestroyAll(scope, names) ==
    [i \in DOMAIN names |-> Step("destroy", <<scope, names[Len(names) + 1 - i]>>, "none")]

-----------------------------------------------------------------------------
(* Broker::New, which reads three addresses first, and the constructor. *)
BrokerMembers == <<"context", "manager_connection", "worker_pub", "worker_router">>

BrokerNew ==
    <<NewContext, MayThrow,
      NewSocket("manager_connection"), BindStep("manager_connection"),
      NewSocket("worker_pub"), BindStep("worker_pub"),
      NewSocket("worker_router"), BindStep("worker_router")>>

(* Mutant: the poll items are made of the constructor's parameters, which    *)
(* have been moved from.                                                     *)
BrokerCtorPollsParameters ==
    MoveAll("param", "member", BrokerMembers)
      \o <<PollItem("param", "worker_router"), PollItem("param", "manager_connection")>>

BrokerCtor ==
    MoveAll("param", "member", BrokerMembers)
      \o <<PollItem("member", "worker_router"), PollItem("member", "manager_connection")>>

BrokerStart ==
    BrokerNew \o MoveAll("local", "param", BrokerMembers) \o BrokerCtor
      \o DestroyAll("param", BrokerMembers) \o DestroyAll("local", BrokerMembers)
      \o <<Start("main")>>

(* Worker::New, its constructor and the one of ThreadPool. *)
WorkerMembers == <<"context", "subscriber", "dealer">>

(* Mutant: the routing id is set when the connection is already there. *)
WorkerNewConnectsFirst ==
    <<NewContext, MayThrow,
      NewSocket("subscriber"), SetStep("subscriber", "subscribe"), ConnectStep("subscriber"),
      NewSocket("dealer"), ConnectStep("dealer"), SetStep("dealer", "routing_id")>>

WorkerNew ==
    <<NewContext, MayThrow,
      NewSocket("subscriber"), SetStep("subscriber", "subscribe"), ConnectStep("subscriber"),
      NewSocket("dealer"), SetStep("dealer", "routing_id"), ConnectStep("dealer")>>

ThreadPoolCtor ==
    <<Make("pool_tasks_"), Make("pool_tasks_m_"), Make("condition"),
      MayThrow, Make("db_client_"), Start("pool")>>

WorkerCtor ==
    MoveAll("param", "member", WorkerMembers)
      \o <<MayThrow>> \o ThreadPoolCtor
      \o <<Make("finished_tasks_"), Make("tasks_m_"), PollItem("member", "subscriber")>>

WorkerStart ==
    WorkerNew \o MoveAll("local", "param", WorkerMembers) \o WorkerCtor
      \o DestroyAll("param", WorkerMembers) \o DestroyAll("local", WorkerMembers)
      \o <<Start("main")>>

(* BrokerConnection::New makes the argument of the service's constructor;    *)
(* it is moved through the parameter of Dispatcher's into its member.        *)
ConnectionMembers == <<"context", "broker_connection">>

BrokerConnectionNew ==
    <<NewContext, NewSocket("broker_connection"), MayThrow, ConnectStep("broker_connection")>>

BrokerConnectionCtor ==
    MoveAll("param", "argument", ConnectionMembers)
      \o <<PollItem("argument", "broker_connection")>>

(* Mutant: the requester ends before its sockets are moved from it. *)
DispatcherCtorRequesterGone ==
    <<Make("problems_and_m_")>>
      \o DestroyAll("requester", ConnectionMembers)
      \o MoveAll("requester", "member", ConnectionMembers)
      \o <<Make("broker_connection_"), MayThrow, Make("db_client_")>>

DispatcherCtor ==
    <<Make("problems_and_m_")>>
      \o MoveAll("requester", "member", ConnectionMembers)
      \o <<Make("broker_connection_"), MayThrow, Make("db_client_")>>
      \o DestroyAll("requester", ConnectionMembers)

(* Mutant: the thread is declared, and so started, before the dispatcher. *)
ServiceCtorThreadFirst ==
    MoveAll("argument", "requester", ConnectionMembers)
      \o <<Start("dispatcher")>> \o DispatcherCtor

ServiceCtor ==
    MoveAll("argument", "requester", ConnectionMembers)
      \o DispatcherCtor \o <<Start("dispatcher")>>

(* A server that could not be built is a null pointer, and Wait() ends the   *)
(* process.                                                                  *)
RunServer ==
    BrokerConnectionNew \o MoveAll("local", "param", ConnectionMembers)
      \o BrokerConnectionCtor
      \o DestroyAll("param", ConnectionMembers) \o DestroyAll("local", ConnectionMembers)
      \o ServiceCtor \o DestroyAll("argument", ConnectionMembers)
      \o <<Start("grpc"), MayThrow>>

(* The database server, which has no sockets of its own: SQLite::Database is *)
(* opened, and the calls of the service run on threads of gRPC.              *)
RunDatabaseServer == <<MayThrow, Make("db_"), Start("database"), MayThrow>>

Main ==
    [p \in Processes |->
        CASE p = "broker" -> BrokerStart
          [] p = "worker" -> WorkerStart
          [] p = "manager" -> RunServer
          [] p = "database" -> RunDatabaseServer
          [] p \in {"any", "monitor"} -> <<>>]

-----------------------------------------------------------------------------
(* FromMessage throws domain_error at a message it cannot parse. *)
FromMessage == MayThrow

(* One call in the main loop of a process: poll, or the messages it takes    *)
(* from and gives to its sockets.                                            *)
Receive(name) ==
    <<Step("message", "received", "none"), Step("recv", <<"member", name>>, "received"),
      Step("read", "received", "none"), FromMessage, Step("destroy_message", "received", "none")>>

SendString(name) ==
    <<Step("message_from", "sent", "none"), Step("send", <<"member", name>>, "sent"),
      Step("destroy_message", "sent", "none")>>

Rounds ==
    [p \in Processes |->
        {<<Step("poll", "none", "none")>>} \cup
        CASE p = "broker" -> {Receive("worker_router"), Receive("manager_connection"),
                              SendString("manager_connection"), SendString("worker_pub")}
          [] p = "worker" -> {Receive("subscriber") \o <<Step("push_task", "none", "none")>>,
                              SendString("dealer")}
          [] p = "manager" -> {Receive("broker_connection"), SendString("broker_connection")}
          [] OTHER -> {}]

(* The thread that runs the loop: the manager's is the dispatcher thread. *)
Loop == IF process = "manager" THEN "dispatcher" ELSE "main"

-----------------------------------------------------------------------------
Init ==
    /\ ZmqInit
    /\ process \in Processes
    /\ script = Main[process]
    /\ up = TRUE
    /\ pollItems = <<>>
    /\ made = {}
    /\ threads = {}

IsContext(x) == x[2] = "context"

(* The steps that are calls of cppzmq. *)
ZmqStep(e) ==
    \/ e.do = "new_context" /\ ContextNew(e.x)
    \/ e.do = "new_socket" /\ SocketNew(e.x, e.y)
    \/ e.do = "set" /\ SetOption(e.x, e.y)
    \/ e.do = "bind" /\ Bind(e.x, e.y)
    \/ e.do = "connect" /\ Connect(e.x, e.y)
    \/ e.do = "move" /\ IsContext(e.x) /\ ContextMove(e.x, e.y)
    \/ e.do = "move" /\ ~IsContext(e.x) /\ SocketMove(e.x, e.y)
    \/ e.do = "destroy" /\ IsContext(e.x) /\ ContextDestroy(e.x)
    \/ e.do = "destroy" /\ ~IsContext(e.x) /\ SocketDestroy(e.x)
    \/ e.do = "poll" /\ Poll(pollItems)
    \/ e.do = "message" /\ MessageNew(e.x)
    \/ e.do = "message_from" /\ MessageFrom(e.x)
    \/ e.do = "recv" /\ Recv(e.x, e.y)
    \/ e.do = "send" /\ Send(e.x, e.y)
    \/ e.do = "read" /\ MessageRead(e.x)
    \/ e.do = "destroy_message" /\ MessageDestroy(e.x)

(* The steps that are not. *)
OtherStep(e) ==
    /\ \/ e.do = "may_throw" /\ thrown' \in BOOLEAN /\ UNCHANGED <<pollItems, made, threads>>
       \/ e.do = "make" /\ made' = made \cup {e.x} /\ Returns /\ UNCHANGED <<pollItems, threads>>
       \/ /\ e.do = "start" /\ thrown' \in BOOLEAN
          /\ threads' = IF thrown' THEN threads ELSE threads \cup {e.x}
          /\ UNCHANGED <<pollItems, made>>
       \/ /\ e.do = "poll_item" /\ Returns
          /\ pollItems' = Append(pollItems, handle[e.y])
          /\ UNCHANGED <<made, threads>>
       \/ /\ e.do = "push_task" /\ Returns
          /\ threads' = threads \cup {"calculation"}
          /\ UNCHANGED <<pollItems, made>>
    /\ UNCHANGED <<contextVars, socketVars, messageVars>>

(* One step of the process; an exception ends it. *)
Execute ==
    /\ up /\ script # <<>>
    /\ \/ ZmqStep(Head(script)) /\ UNCHANGED <<pollItems, made, threads>>
       \/ OtherStep(Head(script))
    /\ up' = ~thrown'
    /\ script' = Tail(script)
    /\ UNCHANGED process

NextRound ==
    /\ up /\ script = <<>> /\ process \notin {"database", "any", "monitor"}
    /\ script' \in Rounds[process]
    /\ UNCHANGED <<zmqVars, process, up, pollItems, made, threads>>

(* A pool thread has pushed its result to finished_tasks_. *)
Calculated ==
    /\ up /\ "calculation" \in threads
    /\ threads' = threads \ {"calculation"}
    /\ UNCHANGED <<zmqVars, process, script, up, pollItems, made>>

-----------------------------------------------------------------------------
(* The process "any": every call, on any objects. *)
AnyContextCall ==
    \/ \E c \in AnyContexts : ContextNew(c)
    \/ \E c \in DOMAIN ptr : ContextClose(c) \/ ContextCloseWaits(c) \/ ContextDestroy(c)
    \/ \E c \in DOMAIN ptr : ContextShutdown(c) \/ ContextOption(c)
    \/ \E rhs \in DOMAIN ptr : \E c \in AnyContexts : ContextMove(c, rhs)
    \/ \E c, rhs \in DOMAIN ptr : ContextAssign(c, rhs) \/ ContextSwap(c, rhs)

AnySocketCall ==
    \/ \E c \in DOMAIN ptr : \E s \in AnySockets : SocketNew(s, c)
    \/ \E s \in AnySockets : SocketDefault(s)
    \/ \E s \in DOMAIN handle : SocketClose(s) \/ SocketDestroy(s)
    \/ \E rhs \in DOMAIN handle : \E s \in AnySockets : SocketMove(s, rhs)
    \/ \E s, rhs \in DOMAIN handle : SocketAssign(s, rhs) \/ SocketSwap(s, rhs)
    \/ \E s \in DOMAIN handle : SetOption(s, "linger") \/ Bind(s, "address")
    \/ \E s \in DOMAIN handle : Unbind(s, "address") \/ Disconnect(s, "address")
    \/ \E s \in DOMAIN handle : GetOption(s) \/ SendBuffer(s) \/ RecvBuffer(s)

AnyMessageCall ==
    \/ \E m \in AnyMessages : MessageNew(m) \/ MessageFrom(m)
    \/ \E rhs \in DOMAIN msg : \E m \in AnyMessages : MessageMove(m, rhs)
    \/ \E m \in DOMAIN msg : MessageDestroy(m) \/ MessageRebuild(m) \/ MessageRead(m)
    \/ \E m, rhs \in DOMAIN msg : MessageAssign(m, rhs)
    \/ \E m, other \in DOMAIN msg :
          m # other /\ (MessageMoveFrom(m, other) \/ MessageCopyFrom(m, other))
    \/ \E s \in DOMAIN handle : \E m \in DOMAIN msg : Send(s, m) \/ Recv(s, m)

AnyCall ==
    /\ process = "any"
    /\ AnyContextCall \/ AnySocketCall \/ AnyMessageCall
    /\ UNCHANGED startVars

MonitorCall ==
    /\ process = "monitor"
    /\ \/ \E c \in AnyContexts : ContextNew(c)
       \/ \E c \in DOMAIN ptr : ContextClose(c) \/ ContextCloseWaits(c)
       \/ \E c \in DOMAIN ptr : \E s \in AnySockets : SocketNew(s, c)
       \/ \E s \in AnySockets \cap DOMAIN handle : SocketClose(s) \/ SocketDestroy(s)
       \/ \E m \in AnyMonitors : MonitorNew(m)
       \/ \E rhs \in AnyMonitors \cap DOMAIN handle : \E m \in AnyMonitors : MonitorMove(m, rhs)
       \/ \E m, rhs \in AnyMonitors \cap DOMAIN handle : MonitorAssign(m, rhs)
       \/ \E m \in AnyMonitors \cap DOMAIN handle : MonitorDestroy(m) \/ MonitorAbort(m)
       \/ \E m \in AnyMonitors \cap DOMAIN handle :
             CheckEvent(m) \/ \E s \in AnySockets \cap DOMAIN handle : MonitorInit(m, s)
    /\ UNCHANGED startVars

Next ==
    \/ Execute
    \/ NextRound
    \/ Calculated
    \/ AnyCall
    \/ MonitorCall
    \/ Transmit /\ UNCHANGED startVars

Spec == Init /\ [][Next]_vars

-----------------------------------------------------------------------------
Holders(f, h) == Cardinality({x \in DOMAIN f : f[x] = h})

(* Whatever is moved, assigned, swapped or closed, every socket and every    *)
(* context of libzmq belongs to exactly one socket_t or context_t, no object *)
(* holds one that is gone, and no socket outlives its context: nothing is    *)
(* closed twice, used after it is closed, or leaked.                         *)
HandlesOwned ==
    /\ \A h \in DOMAIN sockets :
        Holders(handle, h) = 1 /\ sockets[h].context \in DOMAIN contexts
    /\ \A s \in DOMAIN handle : handle[s] \in DOMAIN sockets \cup {Null}
    /\ \A h \in DOMAIN contexts : Holders(ptr, h) = 1
    /\ \A c \in DOMAIN ptr : ptr[c] \in DOMAIN contexts \cup {Null}

(* A message's buffer is counted once for every message_t that holds it and  *)
(* once for every time libzmq has still to transmit it, so that it is freed  *)
(* exactly when the last of them is gone.                                    *)
BuffersCounted ==
    \A b \in Buffers :
        Holders(msg, b) + Cardinality({i \in DOMAIN queued : queued[i].buffer = b})
            = IF b \in DOMAIN refs THEN refs[b] ELSE 0

(* The objects a step works on are alive, and the one it constructs is not.  *)
StepFits(e) ==
    /\ e.do = "new_context" => e.x \notin DOMAIN ptr
    /\ e.do = "new_socket" => e.x \notin DOMAIN handle /\ e.y \in DOMAIN ptr
    /\ e.do \in {"set", "bind", "connect"} => e.x \in DOMAIN handle
    /\ e.do = "move" /\ IsContext(e.x) => e.x \notin DOMAIN ptr /\ e.y \in DOMAIN ptr
    /\ e.do = "move" /\ ~IsContext(e.x) => e.x \notin DOMAIN handle /\ e.y \in DOMAIN handle
    /\ e.do = "destroy" => e.x \in IF IsContext(e.x) THEN DOMAIN ptr ELSE DOMAIN handle
    /\ e.do = "poll_item" => e.y \in DOMAIN handle
    /\ e.do \in {"message", "message_from"} => e.x \notin DOMAIN msg
    /\ e.do \in {"recv", "send"} => e.x \in DOMAIN handle /\ e.y \in DOMAIN msg
    /\ e.do \in {"read", "destroy_message"} => e.x \in DOMAIN msg

(* New(), the constructors and the main loops use every context_t, socket_t  *)
(* and message_t between its construction and its destruction only, through  *)
(* all the moves from locals to parameters to members, and construct none    *)
(* over another that lives.                                                  *)
ObjectsAlive == up /\ script # <<>> => StepFits(Head(script))

Polled ==
    CASE process = "broker" -> <<"worker_router", "manager_connection">>
      [] process = "worker" -> <<"subscriber">>
      [] process = "manager" -> <<"broker_connection">>

(* poll_items_ holds raw handles of sockets that are moved afterwards: while *)
(* the loop runs, item i is the open socket that the code reads when item i  *)
(* is ready.                                                                 *)
PollItemsAreMembers ==
    Loop \in threads =>
        /\ Len(pollItems) = Len(Polled)
        /\ \A i \in DOMAIN Polled :
            /\ pollItems[i] = handle[<<"member", Polled[i]>>]
            /\ pollItems[i] \in DOMAIN sockets

Uses ==
    [dispatcher |-> {"problems_and_m_", "broker_connection_"},
     grpc |-> {"problems_and_m_", "db_client_"},
     pool |-> {"pool_tasks_", "pool_tasks_m_", "condition"},
     calculation |-> {"db_client_", "finished_tasks_", "tasks_m_"},
     database |-> {"db_"},
     main |-> {}]

(* Constructors start threads: no thread uses a member that is not yet       *)
(* constructed.  The pool's threads run before finished_tasks_ and tasks_m_  *)
(* exist, and get their first task only after.                               *)
ThreadsSeeConstructed == \A t \in threads : Uses[t] \subseteq made

Needed == [subscriber |-> {"subscribe"}, dealer |-> {"routing_id"}, worker_router |-> {},
           worker_pub |-> {}, manager_connection |-> {}, broker_connection |-> {}]

(* A process in its loop can be reached: every socket it uses has its        *)
(* endpoint, made when the options it needs were set.  A routing id set      *)
(* later than the connection would not be the one the broker sees.           *)
Reachable ==
    Loop \in threads =>
        \A s \in DOMAIN handle :
            s[1] = "member" => \E e \in sockets[handle[s]].endpoints : Needed[s[2]] \subseteq e.options
=============================================================================
