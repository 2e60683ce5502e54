------------------------------- MODULE CppZmq -------------------------------
(***************************************************************************)
(* cppzmq (zmq.hpp): the C++ objects that own what libzmq hands out.  A    *)
(* context_t owns a context, a socket_t a socket, a message_t a reference  *)
(* to a buffer.  libzmq itself appears as the tables contexts, sockets,    *)
(* refs and queued; how often a call of it fails, and why, is left open.   *)
(***************************************************************************)
EXTENDS Integers, Sequences, FiniteSets

CONSTANTS
    ContextHandles,     \* what zmq_ctx_new may return
    SocketHandles,      \* what zmq_socket may return
    Buffers,            \* what a message's content may be allocated as
    Null,               \* ZMQ_NULLPTR
    Empty,              \* a zmq_msg_t without content
    Closed,             \* a zmq_msg_t after zmq_msg_close
    SendHwm             \* messages libzmq queues before a send has to wait

ASSUME CppZmqAssumption ==
    /\ Null \notin ContextHandles \cup SocketHandles
    /\ {Empty, Closed} \cap Buffers = {} /\ Empty # Closed
    /\ SendHwm \in Nat

VARIABLES
    contexts,           \* libzmq: context -> "live" or "shutdown"
    sockets,            \* libzmq: open socket -> its context, options and endpoints
    refs,               \* libzmq: allocated buffer -> number of references
    queued,             \* libzmq: sent and not yet transmitted, with the sender's context
    ptr,                \* context_t object -> its ptr
    handle,             \* socket_t object -> its _handle
    msg,                \* message_t object -> its msg
    thrown              \* the last call has thrown error_t

contextVars == <<contexts, ptr>>
socketVars == <<sockets, handle>>
messageVars == <<refs, queued, msg>>
zmqVars == <<contexts, sockets, refs, queued, ptr, handle, msg, thrown>>

With(f, x, v) == [y \in DOMAIN f \cup {x} |-> IF y = x THEN v ELSE f[y]]
Without(f, x) == [y \in DOMAIN f \ {x} |-> f[y]]
Swapped(f, x, y) == [f EXCEPT ![x] = f[y], ![y] = f[x]]

ZmqInit ==
    /\ contexts = [h \in {} |-> "live"]
    /\ sockets = [h \in {} |-> Null]
    /\ refs = [b \in {} |-> 0]
    /\ queued = <<>>
    /\ ptr = [c \in {} |-> Null]
    /\ handle = [s \in {} |-> Null]
    /\ msg = [m \in {} |-> Empty]
    /\ thrown = FALSE

(* throw error_t(): the call has changed nothing. *)
Throws ==
    /\ thrown' = TRUE
    /\ UNCHANGED <<contexts, sockets, refs, queued, ptr, handle, msg>>

Returns == thrown' = FALSE

-----------------------------------------------------------------------------
(* context_t *)

ContextNew(c) ==
    /\ c \notin DOMAIN ptr
    /\ \/ Throws
       \/ /\ \E h \in ContextHandles \ DOMAIN contexts :
              /\ contexts' = With(contexts, h, "live")
              /\ ptr' = With(ptr, c, h)
          /\ Returns
          /\ UNCHANGED <<socketVars, messageVars>>

ContextMove(c, rhs) ==
    /\ c \notin DOMAIN ptr
    /\ ptr' = [With(ptr, c, ptr[rhs]) EXCEPT ![rhs] = Null]
    /\ Returns
    /\ UNCHANGED <<contexts, socketVars, messageVars>>

(* zmq_ctx_term waits until every socket of the context is closed and every  *)
(* message transmitted (the default linger period has no end).               *)
TermWaits(h) ==
    \/ \E k \in DOMAIN sockets : sockets[k].context = h
    \/ \E i \in DOMAIN queued : queued[i].context = h

(* The calls that wait in zmq_ctx_term; it is called again after EINTR.      *)
ContextCloseWaits(c) ==
    /\ ptr[c] # Null /\ TermWaits(ptr[c])
    /\ contexts' = [contexts EXCEPT ![ptr[c]] = "shutdown"]
    /\ Returns
    /\ UNCHANGED <<ptr, socketVars, messageVars>>

(* close() up to its end, with the objects' pointers afterwards. *)
ContextClosed(c, newPtr) ==
    /\ ptr[c] # Null => ~TermWaits(ptr[c])
    /\ contexts' = Without(contexts, ptr[c])
    /\ ptr' = newPtr
    /\ Returns
    /\ UNCHANGED <<socketVars, messageVars>>

ContextClose(c) == ContextClosed(c, [ptr EXCEPT ![c] = Null])

ContextDestroy(c) == ContextClosed(c, Without(ptr, c))

ContextAssign(c, rhs) == ContextClosed(c, Swapped([ptr EXCEPT ![c] = Null], c, rhs))

ContextSwap(c, other) ==
    /\ ptr' = Swapped(ptr, c, other)
    /\ Returns
    /\ UNCHANGED <<contexts, socketVars, messageVars>>

ContextShutdown(c) ==
    /\ contexts' = IF ptr[c] = Null THEN contexts
                   ELSE [contexts EXCEPT ![ptr[c]] = "shutdown"]
    /\ Returns
    /\ UNCHANGED <<ptr, socketVars, messageVars>>

(* set and get of a context's options. *)
ContextOption(c) ==
    \/ Throws
    \/ /\ ptr[c] \in DOMAIN contexts
       /\ Returns
       /\ UNCHANGED <<contextVars, socketVars, messageVars>>

-----------------------------------------------------------------------------
(* socket_t and its base class *)

Live(h) == h \in DOMAIN contexts /\ contexts[h] = "live"

SocketNew(s, c) ==
    /\ s \notin DOMAIN handle
    /\ \/ Throws
       \/ /\ Live(ptr[c])
          /\ \E h \in SocketHandles \ DOMAIN sockets :
              /\ sockets' = With(sockets, h, [context |-> ptr[c], options |-> {}, endpoints |-> {}])
              /\ handle' = With(handle, s, h)
          /\ Returns
          /\ UNCHANGED <<contextVars, messageVars>>

SocketDefault(s) ==
    /\ s \notin DOMAIN handle
    /\ handle' = With(handle, s, Null)
    /\ Returns
    /\ UNCHANGED <<sockets, contextVars, messageVars>>

SocketMove(s, rhs) ==
    /\ s \notin DOMAIN handle
    /\ handle' = [With(handle, s, handle[rhs]) EXCEPT ![rhs] = Null]
    /\ Returns
    /\ UNCHANGED <<sockets, contextVars, messageVars>>

(* close(), with the objects' handles afterwards. *)
SocketClosed(s, newHandle) ==
    /\ sockets' = Without(sockets, handle[s])
    /\ handle' = newHandle
    /\ Returns
    /\ UNCHANGED <<contextVars, messageVars>>

SocketClose(s) == SocketClosed(s, [handle EXCEPT ![s] = Null])

SocketDestroy(s) == SocketClosed(s, Without(handle, s))

(* Mutant: the socket assigned to is not closed. *)
SocketAssignNoClose(s, rhs) ==
    /\ handle' = [handle EXCEPT ![s] = handle[rhs], ![rhs] = Null]
    /\ Returns
    /\ UNCHANGED <<sockets, contextVars, messageVars>>

SocketAssign(s, rhs) == SocketClosed(s, Swapped([handle EXCEPT ![s] = Null], s, rhs))

SocketSwap(s, other) ==
    /\ handle' = Swapped(handle, s, other)
    /\ Returns
    /\ UNCHANGED <<sockets, contextVars, messageVars>>

(* What every call on a socket needs; without it the call throws. *)
Usable(s) == handle[s] \in DOMAIN sockets /\ Live(sockets[handle[s]].context)

(* A call that changes the socket, or throws. *)
SocketCall(s, newSocket) ==
    \/ Throws
    \/ /\ Usable(s)
       /\ sockets' = [sockets EXCEPT ![handle[s]] = newSocket]
       /\ Returns
       /\ UNCHANGED <<handle, contextVars, messageVars>>

SetOption(s, option) ==
    SocketCall(s, [sockets[handle[s]] EXCEPT !.options = @ \cup {option}])

GetOption(s) == SocketCall(s, sockets[handle[s]])

(* An endpoint keeps the options the socket has when it is made. *)
Endpoint(s, address) == [address |-> address, options |-> sockets[handle[s]].options]

Connect(s, address) ==
    SocketCall(s, [sockets[handle[s]] EXCEPT !.endpoints = @ \cup {Endpoint(s, address)}])

(* An address in use is refused. *)
Bind(s, address) ==
    \/ Throws
    \/ /\ \A k \in DOMAIN sockets : \A e \in sockets[k].endpoints : e.address # address
       /\ Connect(s, address)

Disconnect(s, address) ==
    SocketCall(s, [sockets[handle[s]] EXCEPT !.endpoints = {e \in @ : e.address # address}])

Unbind(s, address) == Disconnect(s, address)

(* A send or recv whose result says that it would have to wait (EAGAIN).     *)
WouldBlock ==
    /\ Returns
    /\ UNCHANGED <<contextVars, socketVars, messageVars>>

Poll(handles) ==
    \/ Throws
    \/ /\ \A i \in DOMAIN handles : handles[i] \in DOMAIN sockets
       /\ Returns
       /\ UNCHANGED <<contextVars, socketVars, messageVars>>

-----------------------------------------------------------------------------
(* monitor_t.  It owns the PAIR socket it listens on and is named by it; the *)
(* socket it watches belongs to someone else.                                *)

MonitorNew(m) == SocketDefault(m)

MonitorMove(m, rhs) == SocketMove(m, rhs)

MonitorAssign(m, rhs) == SocketAssign(m, rhs)

MonitorDestroy(m) == SocketDestroy(m)

(* init: the new PAIR socket takes the place of the one that was there, and  *)
(* stays the monitor's when connect throws.                                  *)
MonitorInit(m, s) ==
    \/ Throws
    \/ /\ Usable(s)
       /\ \E h \in SocketHandles \ DOMAIN sockets :
            /\ sockets' = With(Without(sockets, handle[m]), h,
                               [context |-> sockets[handle[s]].context,
                                options |-> {}, endpoints |-> {}])
            /\ handle' = [handle EXCEPT ![m] = h]
       /\ thrown' \in BOOLEAN
       /\ UNCHANGED <<contextVars, messageVars>>

(* One event is taken, in messages that end with the call, and given to the  *)
(* function for it, which does nothing unless it is overridden.              *)
CheckEvent(m) == handle[m] # Null /\ Poll(<<handle[m]>>)

(* The watched socket sends no events any more. *)
MonitorAbort(m) ==
    /\ m \in DOMAIN handle
    /\ Returns
    /\ UNCHANGED <<contextVars, socketVars, messageVars>>

-----------------------------------------------------------------------------
(* message_t *)

(* zmq_msg_init_size and zmq_msg_init_data. *)
Allocated(table, b) == With(table, b, 1)

(* zmq_msg_close: the last reference frees the buffer. *)
Released(table, content) ==
    IF content \notin DOMAIN table THEN table
    ELSE IF table[content] = 1 THEN Without(table, content)
    ELSE [table EXCEPT ![content] = @ - 1]

(* What the message_t and libzmq hold after a call, which returns. *)
Holds(newMsg, newRefs) ==
    /\ msg' = newMsg
    /\ refs' = newRefs
    /\ Returns
    /\ UNCHANGED <<queued, contextVars, socketVars>>

MessageNew(m) ==
    /\ m \notin DOMAIN msg
    /\ Holds(With(msg, m, Empty), refs)

MessageFrom(m) ==
    /\ m \notin DOMAIN msg
    /\ \/ Throws
       \/ \E b \in Buffers \ DOMAIN refs : Holds(With(msg, m, b), Allocated(refs, b))

(* Mutant: the message moved from is not initialised again. *)
MessageMoveKeeps(m, rhs) ==
    /\ m \notin DOMAIN msg
    /\ Holds(With(msg, m, msg[rhs]), refs)

MessageMove(m, rhs) ==
    /\ m \notin DOMAIN msg
    /\ Holds([With(msg, m, msg[rhs]) EXCEPT ![rhs] = Empty], refs)

MessageSwap(m, other) == Holds(Swapped(msg, m, other), refs)

MessageAssign(m, rhs) == MessageSwap(m, rhs)

MessageDestroy(m) == Holds(Without(msg, m), Released(refs, msg[m]))

(* data, size, to_string, comparison and the properties: they leave the      *)
(* content as it is; a property that is not there throws.                    *)
MessageRead(m) ==
    /\ m \in DOMAIN msg
    /\ thrown' \in BOOLEAN
    /\ UNCHANGED <<contextVars, socketVars, messageVars>>

(* rebuild() closes first: when the allocation fails, the message stays      *)
(* closed.                                                                   *)
MessageRebuild(m) ==
    LET released == Released(refs, msg[m])
    IN  \/ Holds([msg EXCEPT ![m] = Empty], released)
        \/ \E b \in Buffers \ DOMAIN released :
             Holds([msg EXCEPT ![m] = b], Allocated(released, b))
        \/ /\ msg' = [msg EXCEPT ![m] = Closed]
           /\ refs' = released
           /\ thrown' = TRUE
           /\ UNCHANGED <<queued, contextVars, socketVars>>

(* zmq_msg_move and zmq_msg_copy, of another message; they refuse a closed   *)
(* one.                                                                      *)
MessageMoveFrom(m, other) ==
    \/ Throws
    \/ /\ msg[other] # Closed
       /\ Holds([msg EXCEPT ![m] = msg[other], ![other] = Empty], Released(refs, msg[m]))

MessageCopyFrom(m, other) ==
    LET released == Released(refs, msg[m])
    IN  \/ Throws
        \/ /\ msg[other] # Closed
           /\ Holds([msg EXCEPT ![m] = msg[other]],
                    IF msg[other] = Empty THEN released
                    ELSE [With(released, msg[other], refs[msg[other]]) EXCEPT ![msg[other]] =
                              IF msg[m] = msg[other] THEN @ ELSE @ + 1])

HasRoom == Len(queued) < SendHwm

Queue(s, b) == Append(queued, [context |-> sockets[handle[s]].context, buffer |-> b])

(* send: a message that is taken leaves an empty one behind. *)
Send(s, m) ==
    \/ Throws
    \/ WouldBlock
    \/ /\ Usable(s) /\ HasRoom /\ msg[m] # Closed
       /\ msg' = [msg EXCEPT ![m] = Empty]
       /\ queued' = IF msg[m] = Empty THEN queued ELSE Queue(s, msg[m])
       /\ Returns
       /\ UNCHANGED <<refs, contextVars, socketVars>>

SendBuffer(s) ==
    \/ Throws
    \/ WouldBlock
    \/ /\ Usable(s) /\ HasRoom
       /\ \E b \in Buffers \ DOMAIN refs :
            queued' = Queue(s, b) /\ refs' = Allocated(refs, b)
       /\ Returns
       /\ UNCHANGED <<msg, contextVars, socketVars>>

(* recv: the content that was there is released. *)
Recv(s, m) ==
    \/ Throws
    \/ WouldBlock
    \/ /\ Usable(s) /\ msg[m] # Closed
       /\ LET released == Released(refs, msg[m])
          IN  \E b \in Buffers \ DOMAIN released :
                Holds([msg EXCEPT ![m] = b], Allocated(released, b))

(* recv into a buffer of the caller's. *)
RecvBuffer(s) == WouldBlock \/ SocketCall(s, sockets[handle[s]])

(* libzmq writes the oldest message to the network. *)
Transmit ==
    /\ queued # <<>>
    /\ queued' = Tail(queued)
    /\ refs' = Released(refs, Head(queued).buffer)
    /\ UNCHANGED <<msg, contextVars, socketVars, thrown>>
=============================================================================
