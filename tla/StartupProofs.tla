--------------------------- MODULE StartupProofs ---------------------------
(***************************************************************************)
(* Proofs about the objects of cppzmq (modules CppZmq and Startup), for    *)
(* any number of objects, handles and buffers and any order of calls: that *)
(* every context and socket of libzmq belongs to exactly one object, and   *)
(* that every message buffer is counted as often as it is held.            *)
(***************************************************************************)
EXTENDS Startup, FiniteSetTheorems, SequenceTheorems, TLAPS

(* The objects of f own what libzmq keeps in table: each holds an entry of   *)
(* it or nothing, each entry is held, and no two objects hold the same.      *)
Owned(table, f) ==
    /\ Null \notin DOMAIN table
    /\ \A x \in DOMAIN f : f[x] \in DOMAIN table \cup {Null}
    /\ \A h \in DOMAIN table : \E x \in DOMAIN f : f[x] = h
    /\ \A x, y \in DOMAIN f : f[x] = f[y] /\ f[x] # Null => x = y

(* A socket's context is still there. *)
InContexts(table, live) ==
    \A h \in DOMAIN table :
        /\ table[h].context \in live
        /\ table[h] = [context |-> table[h].context, options |-> table[h].options,
                       endpoints |-> table[h].endpoints]

OwnInv ==
    /\ Owned(contexts, ptr)
    /\ Owned(sockets, handle)
    /\ InContexts(sockets, DOMAIN contexts)

-----------------------------------------------------------------------------
(* What the three helpers of CppZmq make of a function.                      *)
LEMMA WithValue ==
    ASSUME NEW f, NEW x, NEW v
    PROVE  /\ DOMAIN With(f, x, v) = DOMAIN f \cup {x}
           /\ With(f, x, v)[x] = v
           /\ \A y \in DOMAIN f : y # x => With(f, x, v)[y] = f[y]
  BY DEF With

LEMMA WithoutValue ==
    ASSUME NEW f, NEW x
    PROVE  /\ DOMAIN Without(f, x) = DOMAIN f \ {x}
           /\ \A y \in DOMAIN f : y # x => Without(f, x)[y] = f[y]
  BY DEF Without

LEMMA SwappedValue ==
    ASSUME NEW f, NEW x \in DOMAIN f, NEW y \in DOMAIN f
    PROVE  /\ DOMAIN Swapped(f, x, y) = DOMAIN f
           /\ Swapped(f, x, y)[x] = f[y] /\ Swapped(f, x, y)[y] = f[x]
           /\ \A z \in DOMAIN f : z # x /\ z # y => Swapped(f, x, y)[z] = f[z]
  BY DEF Swapped

-----------------------------------------------------------------------------
(* How ownership passes: a new entry goes to a new object, ...               *)
LEMMA OwnedNew ==
    ASSUME NEW table, NEW f, Owned(table, f),
           NEW x, x \notin DOMAIN f, NEW h, h \notin DOMAIN table, h # Null, NEW v
    PROVE  Owned(With(table, h, v), With(f, x, h))
  <1> DEFINE t == With(table, h, v)
             r == With(f, x, h)
  <1>1. DOMAIN t = DOMAIN table \cup {h}
    BY WithValue
  <1>2. /\ DOMAIN r = DOMAIN f \cup {x}
        /\ r[x] = h
        /\ \A y \in DOMAIN f : r[y] = f[y]
    BY DEF With
  <1> HIDE DEF t, r
  <1>3. Owned(t, r)
    BY <1>1, <1>2 DEF Owned
  <1> QED
    BY <1>3 DEF t, r

(* ... a new object may hold nothing, ...                                    *)
LEMMA OwnedDefault ==
    ASSUME NEW table, NEW f, Owned(table, f), NEW x, x \notin DOMAIN f
    PROVE  Owned(table, With(f, x, Null))
  <1> DEFINE r == With(f, x, Null)
  <1>1. /\ DOMAIN r = DOMAIN f \cup {x}
        /\ r[x] = Null
        /\ \A y \in DOMAIN f : r[y] = f[y]
    BY DEF With
  <1> HIDE DEF r
  <1>2. Owned(table, r)
    BY <1>1 DEF Owned
  <1> QED
    BY <1>2 DEF r

(* ... or what it is moved from held, ...                                    *)
LEMMA OwnedMove ==
    ASSUME NEW table, NEW f, Owned(table, f),
           NEW x, x \notin DOMAIN f, NEW y \in DOMAIN f
    PROVE  Owned(table, [With(f, x, f[y]) EXCEPT ![y] = Null])
  <1> DEFINE g == With(f, x, f[y])
             r == [g EXCEPT ![y] = Null]
  <1>1. /\ DOMAIN g = DOMAIN f \cup {x}
        /\ g[x] = f[y]
        /\ \A z \in DOMAIN f : g[z] = f[z]
    BY DEF With
  <1> HIDE DEF g
  <1>2. /\ DOMAIN r = DOMAIN f \cup {x}
        /\ r[x] = f[y] /\ r[y] = Null
        /\ \A z \in DOMAIN f : z # y => r[z] = f[z]
    BY <1>1
  <1> HIDE DEF r
  <1>3. Owned(table, r)
    BY <1>2 DEF Owned
  <1> QED
    BY <1>3 DEF r, g

(* ... two objects may exchange what they hold, ...                          *)
LEMMA OwnedSwap ==
    ASSUME NEW table, NEW f, Owned(table, f), NEW x \in DOMAIN f, NEW y \in DOMAIN f
    PROVE  Owned(table, Swapped(f, x, y))
  <1> DEFINE r == Swapped(f, x, y)
  <1>1. /\ DOMAIN r = DOMAIN f
        /\ r[x] = f[y] /\ r[y] = f[x]
        /\ \A z \in DOMAIN f : z # x /\ z # y => r[z] = f[z]
    BY SwappedValue
  <1> HIDE DEF r
  <1>2. Owned(table, r)
    BY <1>1 DEF Owned
  <1> QED
    BY <1>2 DEF r

(* ... an entry that is closed is held by nobody, and its object goes on     *)
(* without, ...                                                              *)
LEMMA OwnedClose ==
    ASSUME NEW table, NEW f, Owned(table, f), NEW x \in DOMAIN f
    PROVE  Owned(Without(table, f[x]), [f EXCEPT ![x] = Null])
  <1> DEFINE t == Without(table, f[x])
             r == [f EXCEPT ![x] = Null]
  <1>1. DOMAIN t = DOMAIN table \ {f[x]}
    BY WithoutValue
  <1>2. /\ DOMAIN r = DOMAIN f /\ r[x] = Null
        /\ \A z \in DOMAIN f : z # x => r[z] = f[z]
    OBVIOUS
  <1> HIDE DEF t, r
  <1>3. Owned(t, r)
    BY <1>1, <1>2 DEF Owned
  <1> QED
    BY <1>3 DEF t, r

(* ... or ends.                                                              *)
LEMMA OwnedDestroy ==
    ASSUME NEW table, NEW f, Owned(table, f), NEW x \in DOMAIN f
    PROVE  Owned(Without(table, f[x]), Without(f, x))
  <1> DEFINE t == Without(table, f[x])
             r == Without(f, x)
  <1>1. DOMAIN t = DOMAIN table \ {f[x]}
    BY WithoutValue
  <1>2. /\ DOMAIN r = DOMAIN f \ {x}
        /\ \A z \in DOMAIN f : z # x => r[z] = f[z]
    BY WithoutValue
  <1> HIDE DEF t, r
  <1>3. Owned(t, r)
    BY <1>1, <1>2 DEF Owned
  <1> QED
    BY <1>3 DEF t, r

(* What an entry says of itself does not matter.                             *)
LEMMA OwnedSame ==
    ASSUME NEW table, NEW f, Owned(table, f), NEW other, DOMAIN other = DOMAIN table
    PROVE  Owned(other, f)
  BY DEF Owned

(* Assignment closes the object's own entry and takes the other's.           *)
LEMMA OwnedAssign ==
    ASSUME NEW table, NEW f, Owned(table, f), NEW x \in DOMAIN f, NEW y \in DOMAIN f
    PROVE  Owned(Without(table, f[x]), Swapped([f EXCEPT ![x] = Null], x, y))
  <1> DEFINE g == [f EXCEPT ![x] = Null]
  <1>1. Owned(Without(table, f[x]), g)
    BY OwnedClose
  <1>2. x \in DOMAIN g /\ y \in DOMAIN g
    OBVIOUS
  <1> HIDE DEF g
  <1>3. Owned(Without(table, f[x]), Swapped(g, x, y))
    BY <1>1, <1>2, OwnedSwap
  <1> QED
    BY <1>3 DEF g

(* A new entry takes the place of the one an object holds.                   *)
LEMMA OwnedReplace ==
    ASSUME NEW table, NEW f, Owned(table, f), NEW x \in DOMAIN f,
           NEW h, h \notin DOMAIN table, h # Null, NEW v
    PROVE  Owned(With(Without(table, f[x]), h, v), [f EXCEPT ![x] = h])
  <1> DEFINE u == Without(table, f[x])
             t == With(u, h, v)
             r == [f EXCEPT ![x] = h]
  <1>1. DOMAIN u = DOMAIN table \ {f[x]}
    BY WithoutValue
  <1> HIDE DEF u
  <1>2. DOMAIN t = DOMAIN u \cup {h}
    BY WithValue
  <1>3. /\ DOMAIN r = DOMAIN f /\ r[x] = h
        /\ \A z \in DOMAIN f : z # x => r[z] = f[z]
    OBVIOUS
  <1> HIDE DEF t, r
  <1>4. Owned(t, r)
    BY <1>1, <1>2, <1>3 DEF Owned
  <1> QED
    BY <1>4 DEF t, r, u

-----------------------------------------------------------------------------
(* The calls.  One that throws, and one that is about messages only, leaves  *)
(* contexts and sockets alone.                                               *)
LEMMA OwnUnchanged ==
    ASSUME OwnInv, UNCHANGED <<contextVars, socketVars>>
    PROVE  OwnInv'
  BY DEF OwnInv, contextVars, socketVars

LEMMA ThrowsUnchanged ==
    ASSUME Throws
    PROVE  UNCHANGED <<contextVars, socketVars>> /\ UNCHANGED messageVars
  BY DEF Throws, contextVars, socketVars, messageVars

(* The calls of context_t that keep the sockets.                             *)
LEMMA ContextStep ==
    ASSUME OwnInv, UNCHANGED socketVars, Owned(contexts', ptr'),
           \A k \in DOMAIN sockets : sockets[k].context \in DOMAIN contexts'
    PROVE  OwnInv'
  <1>1. sockets' = sockets /\ handle' = handle
    BY DEF socketVars
  <1>2. InContexts(sockets, DOMAIN contexts')
    BY DEF OwnInv, InContexts
  <1> QED
    BY <1>1, <1>2 DEF OwnInv

LEMMA ContextNewOwns ==
    ASSUME OwnInv, NEW c, ContextNew(c)
    PROVE  OwnInv'
  <1>1. CASE Throws
    BY <1>1, ThrowsUnchanged, OwnUnchanged
  <1>2. CASE ~Throws
    <2>1. PICK h \in ContextHandles \ DOMAIN contexts :
            contexts' = With(contexts, h, "live") /\ ptr' = With(ptr, c, h)
      BY <1>2 DEF ContextNew
    <2>2. UNCHANGED socketVars /\ c \notin DOMAIN ptr
      BY <1>2 DEF ContextNew
    <2>3. Owned(contexts', ptr')
      BY <2>1, <2>2, OwnedNew, CppZmqAssumption DEF OwnInv
    <2>4. DOMAIN contexts' = DOMAIN contexts \cup {h}
      BY <2>1, WithValue
    <2>5. \A k \in DOMAIN sockets : sockets[k].context \in DOMAIN contexts'
      BY <2>4 DEF OwnInv, InContexts
    <2> QED
      BY <2>2, <2>3, <2>5, ContextStep
  <1> QED
    BY <1>1, <1>2

LEMMA ContextMoveOwns ==
    ASSUME OwnInv, NEW c, NEW rhs \in DOMAIN ptr, ContextMove(c, rhs)
    PROVE  OwnInv'
  <1>1. /\ c \notin DOMAIN ptr /\ contexts' = contexts /\ UNCHANGED socketVars
        /\ ptr' = [With(ptr, c, ptr[rhs]) EXCEPT ![rhs] = Null]
    BY DEF ContextMove
  <1>2. Owned(contexts, ptr')
    BY <1>1, OwnedMove DEF OwnInv
  <1>3. \A k \in DOMAIN sockets : sockets[k].context \in DOMAIN contexts'
    BY <1>1 DEF OwnInv, InContexts
  <1> QED
    BY <1>1, <1>2, <1>3, ContextStep

LEMMA ContextSwapOwns ==
    ASSUME OwnInv, NEW c \in DOMAIN ptr, NEW rhs \in DOMAIN ptr, ContextSwap(c, rhs)
    PROVE  OwnInv'
  <1>1. contexts' = contexts /\ UNCHANGED socketVars /\ ptr' = Swapped(ptr, c, rhs)
    BY DEF ContextSwap
  <1>2. Owned(contexts, ptr')
    BY <1>1, OwnedSwap DEF OwnInv
  <1>3. \A k \in DOMAIN sockets : sockets[k].context \in DOMAIN contexts'
    BY <1>1 DEF OwnInv, InContexts
  <1> QED
    BY <1>1, <1>2, <1>3, ContextStep

(* zmq_ctx_term returns when no socket of the context is open.               *)
LEMMA ContextClosedOwns ==
    ASSUME OwnInv, NEW c \in DOMAIN ptr, NEW newPtr, ContextClosed(c, newPtr),
           Owned(Without(contexts, ptr[c]), newPtr)
    PROVE  OwnInv'
  <1>1. /\ contexts' = Without(contexts, ptr[c]) /\ ptr' = newPtr /\ UNCHANGED socketVars
        /\ ptr[c] # Null => \A k \in DOMAIN sockets : sockets[k].context # ptr[c]
    BY DEF ContextClosed, TermWaits
  <1>2. DOMAIN contexts' = DOMAIN contexts \ {ptr[c]}
    BY <1>1, WithoutValue
  <1>3. \A k \in DOMAIN sockets : sockets[k].context \in DOMAIN contexts'
    BY <1>1, <1>2 DEF OwnInv, InContexts, Owned
  <1> QED
    BY <1>1, <1>3, ContextStep

LEMMA ContextCloseOwns ==
    ASSUME OwnInv, NEW c \in DOMAIN ptr, ContextClose(c) \/ ContextDestroy(c)
    PROVE  OwnInv'
  <1>1. Owned(contexts, ptr)
    BY DEF OwnInv
  <1>2. Owned(Without(contexts, ptr[c]), [ptr EXCEPT ![c] = Null])
    BY <1>1, OwnedClose
  <1>3. Owned(Without(contexts, ptr[c]), Without(ptr, c))
    BY <1>1, OwnedDestroy
  <1> QED
    BY <1>2, <1>3, ContextClosedOwns DEF ContextClose, ContextDestroy

LEMMA ContextAssignOwns ==
    ASSUME OwnInv, NEW c \in DOMAIN ptr, NEW rhs \in DOMAIN ptr, ContextAssign(c, rhs)
    PROVE  OwnInv'
  <1>1. Owned(contexts, ptr)
    BY DEF OwnInv
  <1>2. Owned(Without(contexts, ptr[c]), Swapped([ptr EXCEPT ![c] = Null], c, rhs))
    BY <1>1, OwnedAssign
  <1> QED
    BY <1>2, ContextClosedOwns DEF ContextAssign

(* Calls that only change the state of a context, or nothing.                *)
LEMMA ContextCallOwns ==
    ASSUME OwnInv, NEW c \in DOMAIN ptr,
           ContextCloseWaits(c) \/ ContextShutdown(c) \/ ContextOption(c)
    PROVE  OwnInv'
  <1>1. CASE Throws
    BY <1>1, ThrowsUnchanged, OwnUnchanged
  <1>2. CASE ~Throws
    <2>1. ptr' = ptr /\ UNCHANGED socketVars /\ DOMAIN contexts' = DOMAIN contexts
      BY <1>2 DEF ContextCloseWaits, ContextShutdown, ContextOption, contextVars
    <2>2. Owned(contexts', ptr)
      BY <2>1, OwnedSame DEF OwnInv
    <2>3. \A k \in DOMAIN sockets : sockets[k].context \in DOMAIN contexts'
      BY <2>1 DEF OwnInv, InContexts
    <2> QED
      BY <2>1, <2>2, <2>3, ContextStep
  <1> QED
    BY <1>1, <1>2

-----------------------------------------------------------------------------
(* The calls of socket_t and monitor_t keep the contexts.                    *)
LEMMA SocketStep ==
    ASSUME OwnInv, UNCHANGED contextVars, Owned(sockets', handle'),
           InContexts(sockets', DOMAIN contexts)
    PROVE  OwnInv'
  BY DEF OwnInv, contextVars

(* A table keeps its promise when it loses an entry or gets a good one.      *)
LEMMA InContextsWithout ==
    ASSUME NEW table, NEW live, InContexts(table, live), NEW h
    PROVE  InContexts(Without(table, h), live)
  <1> DEFINE t == Without(table, h)
  <1>1. DOMAIN t \subseteq DOMAIN table /\ \A k \in DOMAIN t : t[k] = table[k]
    BY DEF Without
  <1> HIDE DEF t
  <1>2. InContexts(t, live)
    BY <1>1 DEF InContexts
  <1> QED
    BY <1>2 DEF t

LEMMA InContextsWith ==
    ASSUME NEW table, NEW live, InContexts(table, live), NEW h,
           NEW c \in live, NEW o, NEW e
    PROVE  InContexts(With(table, h, [context |-> c, options |-> o, endpoints |-> e]), live)
  <1> DEFINE r == [context |-> c, options |-> o, endpoints |-> e]
             t == With(table, h, r)
  <1>1. /\ DOMAIN t = DOMAIN table \cup {h} /\ t[h] = r
        /\ \A k \in DOMAIN table : k # h => t[k] = table[k]
    BY DEF With
  <1>2. r.context = c /\ r = [context |-> r.context, options |-> r.options, endpoints |-> r.endpoints]
    OBVIOUS
  <1> HIDE DEF t, r
  <1>3. InContexts(t, live)
    BY <1>1, <1>2 DEF InContexts
  <1> QED
    BY <1>3 DEF t, r

LEMMA SocketNewOwns ==
    ASSUME OwnInv, NEW s, NEW c, SocketNew(s, c)
    PROVE  OwnInv'
  <1>1. CASE Throws
    BY <1>1, ThrowsUnchanged, OwnUnchanged
  <1>2. CASE ~Throws
    <2>1. PICK h \in SocketHandles \ DOMAIN sockets :
            /\ sockets' = With(sockets, h, [context |-> ptr[c], options |-> {}, endpoints |-> {}])
            /\ handle' = With(handle, s, h)
      BY <1>2 DEF SocketNew
    <2>2. UNCHANGED contextVars /\ s \notin DOMAIN handle /\ ptr[c] \in DOMAIN contexts
      BY <1>2 DEF SocketNew, Live
    <2>3. Owned(sockets', handle')
      BY <2>1, <2>2, OwnedNew, CppZmqAssumption DEF OwnInv
    <2>4. InContexts(sockets', DOMAIN contexts)
      BY <2>1, <2>2, InContextsWith DEF OwnInv
    <2> QED
      BY <2>2, <2>3, <2>4, SocketStep
  <1> QED
    BY <1>1, <1>2

LEMMA SocketDefaultOwns ==
    ASSUME OwnInv, NEW s, SocketDefault(s)
    PROVE  OwnInv'
  <1>1. /\ s \notin DOMAIN handle /\ sockets' = sockets /\ UNCHANGED contextVars
        /\ handle' = With(handle, s, Null)
    BY DEF SocketDefault
  <1>2. Owned(sockets, handle')
    BY <1>1, OwnedDefault DEF OwnInv
  <1> QED
    BY <1>1, <1>2, SocketStep DEF OwnInv

LEMMA SocketMoveOwns ==
    ASSUME OwnInv, NEW s, NEW rhs \in DOMAIN handle, SocketMove(s, rhs)
    PROVE  OwnInv'
  <1>1. /\ s \notin DOMAIN handle /\ sockets' = sockets /\ UNCHANGED contextVars
        /\ handle' = [With(handle, s, handle[rhs]) EXCEPT ![rhs] = Null]
    BY DEF SocketMove
  <1>2. Owned(sockets, handle')
    BY <1>1, OwnedMove DEF OwnInv
  <1> QED
    BY <1>1, <1>2, SocketStep DEF OwnInv

LEMMA SocketSwapOwns ==
    ASSUME OwnInv, NEW s \in DOMAIN handle, NEW rhs \in DOMAIN handle, SocketSwap(s, rhs)
    PROVE  OwnInv'
  <1>1. sockets' = sockets /\ UNCHANGED contextVars /\ handle' = Swapped(handle, s, rhs)
    BY DEF SocketSwap
  <1>2. Owned(sockets, handle')
    BY <1>1, OwnedSwap DEF OwnInv
  <1> QED
    BY <1>1, <1>2, SocketStep DEF OwnInv

LEMMA SocketClosedOwns ==
    ASSUME OwnInv, NEW s \in DOMAIN handle, NEW newHandle, SocketClosed(s, newHandle),
           Owned(Without(sockets, handle[s]), newHandle)
    PROVE  OwnInv'
  <1>1. /\ sockets' = Without(sockets, handle[s]) /\ handle' = newHandle
        /\ UNCHANGED contextVars
    BY DEF SocketClosed
  <1>2. InContexts(sockets', DOMAIN contexts)
    BY <1>1, InContextsWithout DEF OwnInv
  <1> QED
    BY <1>1, <1>2, SocketStep

LEMMA SocketCloseOwns ==
    ASSUME OwnInv, NEW s \in DOMAIN handle, SocketClose(s) \/ SocketDestroy(s)
    PROVE  OwnInv'
  <1>1. Owned(sockets, handle)
    BY DEF OwnInv
  <1>2. Owned(Without(sockets, handle[s]), [handle EXCEPT ![s] = Null])
    BY <1>1, OwnedClose
  <1>3. Owned(Without(sockets, handle[s]), Without(handle, s))
    BY <1>1, OwnedDestroy
  <1> QED
    BY <1>2, <1>3, SocketClosedOwns DEF SocketClose, SocketDestroy

LEMMA SocketAssignOwns ==
    ASSUME OwnInv, NEW s \in DOMAIN handle, NEW rhs \in DOMAIN handle, SocketAssign(s, rhs)
    PROVE  OwnInv'
  <1>1. Owned(sockets, handle)
    BY DEF OwnInv
  <1>2. Owned(Without(sockets, handle[s]), Swapped([handle EXCEPT ![s] = Null], s, rhs))
    BY <1>1, OwnedAssign
  <1> QED
    BY <1>2, SocketClosedOwns DEF SocketAssign

LEMMA MonitorInitOwns ==
    ASSUME OwnInv, NEW m \in DOMAIN handle, NEW s, MonitorInit(m, s)
    PROVE  OwnInv'
  <1>1. CASE Throws
    BY <1>1, ThrowsUnchanged, OwnUnchanged
  <1>2. CASE ~Throws
    <2>1. PICK h \in SocketHandles \ DOMAIN sockets :
            /\ sockets' = With(Without(sockets, handle[m]), h,
                               [context |-> sockets[handle[s]].context,
                                options |-> {}, endpoints |-> {}])
            /\ handle' = [handle EXCEPT ![m] = h]
      BY <1>2 DEF MonitorInit
    <2>2. UNCHANGED contextVars /\ sockets[handle[s]].context \in DOMAIN contexts
      BY <1>2 DEF MonitorInit, Usable, Live
    <2>3. Owned(sockets', handle')
      BY <2>1, OwnedReplace, CppZmqAssumption DEF OwnInv
    <2>4. InContexts(Without(sockets, handle[m]), DOMAIN contexts)
      BY InContextsWithout DEF OwnInv
    <2>5. InContexts(sockets', DOMAIN contexts)
      BY <2>1, <2>2, <2>4, InContextsWith
    <2> QED
      BY <2>2, <2>3, <2>5, SocketStep
  <1> QED
    BY <1>1, <1>2

(* A call that changes one open socket but not its context.                  *)
SameContext(new, old) ==
    new = [context |-> old.context, options |-> new.options, endpoints |-> new.endpoints]

LEMMA SocketCallOwns ==
    ASSUME OwnInv, NEW s, NEW new, SocketCall(s, new),
           handle[s] \in DOMAIN sockets => SameContext(new, sockets[handle[s]])
    PROVE  OwnInv'
  <1>1. CASE Throws
    BY <1>1, ThrowsUnchanged, OwnUnchanged
  <1>2. CASE ~Throws
    <2>1. /\ handle[s] \in DOMAIN sockets
          /\ sockets' = [sockets EXCEPT ![handle[s]] = new]
          /\ handle' = handle /\ UNCHANGED contextVars
      BY <1>2 DEF SocketCall, Usable
    <2>2. /\ DOMAIN sockets' = DOMAIN sockets
          /\ \A k \in DOMAIN sockets : k # handle[s] => sockets'[k] = sockets[k]
          /\ sockets'[handle[s]] = new
      BY <2>1
    <2>3. /\ new.context = sockets[handle[s]].context
          /\ new = [context |-> new.context, options |-> new.options, endpoints |-> new.endpoints]
      BY <2>1 DEF SameContext
    <2>4. Owned(sockets', handle)
      BY <2>2, OwnedSame DEF OwnInv
    <2>5. InContexts(sockets', DOMAIN contexts)
      BY <2>1, <2>2, <2>3 DEF OwnInv, InContexts
    <2> QED
      BY <2>1, <2>4, <2>5, SocketStep
  <1> QED
    BY <1>1, <1>2

LEMMA EntryForm ==
    ASSUME OwnInv, NEW h \in DOMAIN sockets
    PROVE  /\ SameContext(sockets[h], sockets[h])
           /\ \A o : SameContext([sockets[h] EXCEPT !.options = o], sockets[h])
           /\ \A e : SameContext([sockets[h] EXCEPT !.endpoints = e], sockets[h])
  <1>1. PICK c, o, e : sockets[h] = [context |-> c, options |-> o, endpoints |-> e]
    BY DEF OwnInv, InContexts
  <1> QED
    BY <1>1 DEF SameContext

LEMMA SocketCallsOwn ==
    ASSUME OwnInv, NEW s, NEW a,
           \/ SetOption(s, a) \/ GetOption(s) \/ Connect(s, a) \/ Bind(s, a)
           \/ Disconnect(s, a) \/ Unbind(s, a)
    PROVE  OwnInv'
  <1>1. CASE SetOption(s, a)
    BY <1>1, EntryForm, SocketCallOwns DEF SetOption
  <1>2. CASE GetOption(s)
    BY <1>2, EntryForm, SocketCallOwns DEF GetOption
  <1>3. CASE Connect(s, a)
    BY <1>3, EntryForm, SocketCallOwns DEF Connect
  <1>4. CASE Bind(s, a) /\ ~Connect(s, a)
    BY <1>4, ThrowsUnchanged, OwnUnchanged DEF Bind
  <1>5. CASE Disconnect(s, a) \/ Unbind(s, a)
    BY <1>5, EntryForm, SocketCallOwns DEF Disconnect, Unbind
  <1> QED
    BY <1>1, <1>2, <1>3, <1>4, <1>5

(* A call that throws, would block, polls, or is about messages leaves       *)
(* contexts and sockets alone.                                               *)
Aside == UNCHANGED <<contextVars, socketVars>>

LEMMA PollAside ==
    ASSUME WouldBlock \/ (\E handles : Poll(handles)) \/ (\E m : MonitorAbort(m) \/ CheckEvent(m))
    PROVE  Aside
  BY ThrowsUnchanged DEF Aside, WouldBlock, Poll, MonitorAbort, CheckEvent

LEMMA MessageAside ==
    ASSUME NEW m,
           \/ MessageNew(m) \/ MessageFrom(m) \/ MessageDestroy(m) \/ MessageRebuild(m)
           \/ MessageRead(m)
           \/ \E rhs : MessageMove(m, rhs) \/ MessageAssign(m, rhs)
           \/ \E rhs : MessageMoveFrom(m, rhs) \/ MessageCopyFrom(m, rhs)
           \/ \E s : Send(s, m) \/ Recv(s, m)
    PROVE  Aside
  <1>1. ASSUME NEW f, NEW r, Holds(f, r) PROVE Aside
    BY <1>1 DEF Holds, Aside
  <1>2. ASSUME Throws \/ WouldBlock PROVE Aside
    BY <1>2, ThrowsUnchanged DEF Aside, WouldBlock
  <1>3. CASE MessageNew(m) \/ MessageFrom(m) \/ MessageDestroy(m)
    BY <1>1, <1>2, <1>3 DEF MessageNew, MessageFrom, MessageDestroy
  <1>4. CASE MessageRebuild(m)
    BY <1>1, <1>4 DEF MessageRebuild, Aside
  <1>5. CASE MessageRead(m)
    BY <1>5 DEF MessageRead, Aside
  <1>6. CASE \E rhs : MessageMove(m, rhs) \/ MessageAssign(m, rhs)
    BY <1>1, <1>6 DEF MessageMove, MessageAssign, MessageSwap
  <1>7. CASE \E rhs : MessageMoveFrom(m, rhs) \/ MessageCopyFrom(m, rhs)
    BY <1>1, <1>2, <1>7 DEF MessageMoveFrom, MessageCopyFrom
  <1>8. CASE \E s : Send(s, m)
    BY <1>2, <1>8 DEF Send, Aside
  <1>9. CASE \E s : Recv(s, m)
    BY <1>1, <1>2, <1>9 DEF Recv
  <1> QED
    BY <1>3, <1>4, <1>5, <1>6, <1>7, <1>8, <1>9

LEMMA BufferOwns ==
    ASSUME OwnInv, NEW s, SendBuffer(s) \/ RecvBuffer(s)
    PROVE  OwnInv'
  <1>1. CASE SendBuffer(s)
    BY <1>1, ThrowsUnchanged, OwnUnchanged DEF SendBuffer, WouldBlock
  <1>2. CASE RecvBuffer(s) /\ WouldBlock
    BY <1>2, OwnUnchanged DEF WouldBlock
  <1>3. CASE RecvBuffer(s) /\ ~WouldBlock
    BY <1>3, EntryForm, SocketCallOwns DEF RecvBuffer
  <1> QED
    BY <1>1, <1>2, <1>3

-----------------------------------------------------------------------------
(* A step of a process works on objects that are alive.                      *)
LEMMA ExecuteOwns ==
    ASSUME OwnInv, ObjectsAlive, Execute
    PROVE  OwnInv'
  <1>1. PICK e : e = Head(script)
    OBVIOUS
  <1>2. StepFits(e) /\ (ZmqStep(e) \/ OtherStep(e))
    BY <1>1 DEF Execute, ObjectsAlive
  <1>3. CASE OtherStep(e)
    <2>1. UNCHANGED <<contextVars, socketVars, messageVars>>
      BY <1>3, Zenon DEF OtherStep
    <2> QED
      BY <2>1, OwnUnchanged
  <1>4. CASE ContextNew(e.x) \/ SocketNew(e.x, e.y)
    BY <1>4, ContextNewOwns, SocketNewOwns
  <1>5. CASE SetOption(e.x, e.y) \/ Bind(e.x, e.y) \/ Connect(e.x, e.y)
    BY <1>5, SocketCallsOwn
  <1>6. CASE e.do = "move" /\ IsContext(e.x) /\ ContextMove(e.x, e.y)
    BY <1>2, <1>6, ContextMoveOwns DEF StepFits
  <1>7. CASE e.do = "move" /\ ~IsContext(e.x) /\ SocketMove(e.x, e.y)
    BY <1>2, <1>7, SocketMoveOwns DEF StepFits
  <1>8. CASE e.do = "destroy" /\ IsContext(e.x) /\ ContextDestroy(e.x)
    BY <1>2, <1>8, ContextCloseOwns DEF StepFits
  <1>9. CASE e.do = "destroy" /\ ~IsContext(e.x) /\ SocketDestroy(e.x)
    BY <1>2, <1>9, SocketCloseOwns DEF StepFits
  <1>10. CASE Poll(pollItems)
    BY <1>10, PollAside, OwnUnchanged DEF Aside
  <1>11. CASE MessageNew(e.x) \/ MessageFrom(e.x) \/ MessageRead(e.x) \/ MessageDestroy(e.x)
    BY <1>11, MessageAside, OwnUnchanged DEF Aside
  <1>12. CASE Recv(e.x, e.y) \/ Send(e.x, e.y)
    BY <1>12, MessageAside, OwnUnchanged DEF Aside
  <1> QED
    BY <1>2, <1>3, <1>4, <1>5, <1>6, <1>7, <1>8, <1>9, <1>10, <1>11, <1>12, Zenon DEF ZmqStep

LEMMA AnyCallOwns ==
    ASSUME OwnInv, AnyCall
    PROVE  OwnInv'
  <1>1. CASE AnyContextCall
    BY <1>1, ContextNewOwns, ContextCloseOwns, ContextCallOwns, ContextMoveOwns,
       ContextAssignOwns, ContextSwapOwns DEF AnyContextCall
  <1>2. CASE AnySocketCall
    BY <1>2, SocketNewOwns, SocketDefaultOwns, SocketCloseOwns, SocketMoveOwns,
       SocketAssignOwns, SocketSwapOwns, SocketCallsOwn, BufferOwns DEF AnySocketCall
  <1>3. CASE AnyMessageCall
    <2>1. Aside
      BY <1>3, MessageAside DEF AnyMessageCall
    <2> QED
      BY <2>1, OwnUnchanged DEF Aside
  <1> QED
    BY <1>1, <1>2, <1>3 DEF AnyCall

LEMMA MonitorCallOwns ==
    ASSUME OwnInv, MonitorCall
    PROVE  OwnInv'
  <1>1. CASE \/ \E c \in AnyContexts : ContextNew(c)
             \/ \E c \in DOMAIN ptr : ContextClose(c) \/ ContextCloseWaits(c)
    BY <1>1, ContextNewOwns, ContextCloseOwns, ContextCallOwns
  <1>2. CASE \/ \E c \in DOMAIN ptr : \E s \in AnySockets : SocketNew(s, c)
             \/ \E s \in DOMAIN handle : SocketClose(s) \/ SocketDestroy(s)
    BY <1>2, SocketNewOwns, SocketCloseOwns
  <1>3. CASE \/ \E m \in AnyMonitors : MonitorNew(m)
             \/ \E rhs \in DOMAIN handle : \E m \in AnyMonitors : MonitorMove(m, rhs)
             \/ \E m, rhs \in DOMAIN handle : MonitorAssign(m, rhs)
    BY <1>3, SocketDefaultOwns, SocketMoveOwns, SocketAssignOwns
       DEF MonitorNew, MonitorMove, MonitorAssign
  <1>4. CASE \E m \in DOMAIN handle : MonitorDestroy(m)
    BY <1>4, SocketCloseOwns DEF MonitorDestroy
  <1>5. CASE \E m : MonitorAbort(m) \/ CheckEvent(m)
    BY <1>5, PollAside, OwnUnchanged DEF Aside
  <1>6. CASE \E m, s \in DOMAIN handle : MonitorInit(m, s)
    BY <1>6, MonitorInitOwns
  <1> QED
    BY <1>1, <1>2, <1>3, <1>4, <1>5, <1>6 DEF MonitorCall

(* Every step keeps every context and socket with its owner.                 *)
LEMMA OwnStep ==
    ASSUME OwnInv, ObjectsAlive, [Next]_vars
    PROVE  OwnInv'
  <1>1. CASE Execute
    BY <1>1, ExecuteOwns
  <1>2. CASE NextRound \/ Calculated \/ Transmit \/ UNCHANGED vars
    BY <1>2, OwnUnchanged
       DEF NextRound, Calculated, Transmit, vars, zmqVars, contextVars, socketVars
  <1>3. CASE AnyCall
    BY <1>3, AnyCallOwns
  <1>4. CASE MonitorCall
    BY <1>4, MonitorCallOwns
  <1> QED
    BY <1>1, <1>2, <1>3, <1>4 DEF Next

(* An entry held once is held by a set of one object.                        *)
LEMMA HeldOnce ==
    ASSUME NEW table, NEW f, Owned(table, f), NEW h \in DOMAIN table
    PROVE  Holders(f, h) = 1
  <1>1. PICK x \in DOMAIN f : f[x] = h
    BY DEF Owned
  <1>2. {y \in DOMAIN f : f[y] = h} = {x}
    BY <1>1 DEF Owned
  <1> QED
    BY <1>2, FS_Singleton DEF Holders

LEMMA OwnInvImplies == OwnInv => HandlesOwned
  <1> SUFFICES ASSUME OwnInv PROVE HandlesOwned
    OBVIOUS
  <1>1. /\ \A h \in DOMAIN sockets : Holders(handle, h) = 1
        /\ \A h \in DOMAIN contexts : Holders(ptr, h) = 1
    BY HeldOnce DEF OwnInv
  <1> QED
    BY <1>1 DEF OwnInv, Owned, InContexts, HandlesOwned

LEMMA OwnInit == Init => OwnInv
  BY DEF Init, ZmqInit, OwnInv, Owned, InContexts

-----------------------------------------------------------------------------
(* Counting.  What BuffersCounted compares: how many messages and how many   *)
(* queued items hold a buffer, and what libzmq's counter of it says.         *)
One(p) == IF p THEN 1 ELSE 0

InQueue(q, b) == Cardinality({i \in DOMAIN q : q[i].buffer = b})

Refs(table, b) == IF b \in DOMAIN table THEN table[b] ELSE 0

(* A function has as many holders of b more or less as it has places changed *)
(* to or from b.                                                             *)
LEMMA HoldersType ==
    ASSUME NEW f, IsFiniteSet(DOMAIN f), NEW b
    PROVE  IsFiniteSet({x \in DOMAIN f : f[x] = b}) /\ Holders(f, b) \in Nat
  <1>1. {x \in DOMAIN f : f[x] = b} \in SUBSET DOMAIN f
    OBVIOUS
  <1>2. IsFiniteSet({x \in DOMAIN f : f[x] = b})
    BY <1>1, FS_Subset
  <1> QED
    BY <1>2, FS_CardinalityType DEF Holders

LEMMA HoldersMore ==
    ASSUME NEW f, IsFiniteSet(DOMAIN f), NEW g, NEW x, NEW b,
           IF x \in DOMAIN f THEN f[x] # b ELSE TRUE,
           DOMAIN g = DOMAIN f \cup {x}, g[x] = b,
           \A y \in DOMAIN f : y # x => g[y] = f[y]
    PROVE  Holders(g, b) = Holders(f, b) + 1
  <1> DEFINE A == {y \in DOMAIN f : f[y] = b}
             B == {y \in DOMAIN g : g[y] = b}
  <1>1. B = A \cup {x} /\ x \notin A
    OBVIOUS
  <1>2. IsFiniteSet(A)
    BY HoldersType
  <1>3. Holders(f, b) = Cardinality(A) /\ Holders(g, b) = Cardinality(B)
    BY DEF Holders
  <1> HIDE DEF A, B
  <1> QED
    BY <1>1, <1>2, <1>3, FS_AddElement

LEMMA HoldersFewer ==
    ASSUME NEW f, IsFiniteSet(DOMAIN f), NEW g, NEW x \in DOMAIN f, NEW b, f[x] = b,
           DOMAIN f = DOMAIN g \cup {x},
           IF x \in DOMAIN g THEN g[x] # b ELSE TRUE,
           \A y \in DOMAIN f : y # x => g[y] = f[y]
    PROVE  Holders(g, b) = Holders(f, b) - 1
  <1> DEFINE A == {y \in DOMAIN f : f[y] = b}
             B == {y \in DOMAIN g : g[y] = b}
  <1>1. B = A \ {x} /\ x \in A
    OBVIOUS
  <1>2. IsFiniteSet(A)
    BY HoldersType
  <1>3. Holders(f, b) = Cardinality(A) /\ Holders(g, b) = Cardinality(B)
    BY DEF Holders
  <1> HIDE DEF A, B
  <1> QED
    BY <1>1, <1>2, <1>3, FS_RemoveElement

LEMMA HoldersSame ==
    ASSUME NEW f, NEW g, NEW b,
           \A y : (y \in DOMAIN f /\ f[y] = b) <=> (y \in DOMAIN g /\ g[y] = b)
    PROVE  Holders(g, b) = Holders(f, b)
  <1>1. {y \in DOMAIN f : f[y] = b} = {y \in DOMAIN g : g[y] = b}
    OBVIOUS
  <1> QED
    BY <1>1 DEF Holders

(* A new place, a changed place, and one that is gone.                       *)
LEMMA HoldersWith ==
    ASSUME NEW f, IsFiniteSet(DOMAIN f), NEW x, x \notin DOMAIN f, NEW v
    PROVE  /\ IsFiniteSet(DOMAIN With(f, x, v))
           /\ \A b : Holders(With(f, x, v), b) = Holders(f, b) + One(v = b)
  <1> DEFINE g == With(f, x, v)
  <1>1. /\ DOMAIN g = DOMAIN f \cup {x} /\ g[x] = v
        /\ \A y \in DOMAIN f : y # x => g[y] = f[y]
    BY DEF With
  <1> HIDE DEF g
  <1>2. IsFiniteSet(DOMAIN g)
    BY <1>1, FS_AddElement
  <1>3. ASSUME NEW b PROVE Holders(g, b) = Holders(f, b) + One(v = b)
    <2>1. Holders(f, b) \in Nat
      BY HoldersType
    <2>2. CASE v = b
      <3>1. Holders(g, b) = Holders(f, b) + 1
        BY <1>1, <2>2, HoldersMore
      <3> QED
        BY <2>2, <3>1 DEF One
    <2>3. CASE v # b
      <3>1. Holders(g, b) = Holders(f, b)
        BY <1>1, <2>3, HoldersSame
      <3> QED
        BY <2>1, <2>3, <3>1 DEF One
    <2> QED
      BY <2>2, <2>3
  <1> QED
    BY <1>2, <1>3 DEF g

LEMMA HoldersExcept ==
    ASSUME NEW f, IsFiniteSet(DOMAIN f), NEW x \in DOMAIN f, NEW v
    PROVE  /\ DOMAIN [f EXCEPT ![x] = v] = DOMAIN f
           /\ \A b : Holders([f EXCEPT ![x] = v], b)
                       = Holders(f, b) + One(v = b) - One(f[x] = b)
  <1> DEFINE g == [f EXCEPT ![x] = v]
  <1>1. /\ DOMAIN g = DOMAIN f /\ g[x] = v
        /\ \A y \in DOMAIN f : y # x => g[y] = f[y]
    OBVIOUS
  <1> HIDE DEF g
  <1>2. ASSUME NEW b PROVE Holders(g, b) = Holders(f, b) + One(v = b) - One(f[x] = b)
    <2>1. Holders(f, b) \in Nat
      BY HoldersType
    <2>2. CASE v = b /\ f[x] # b
      <3>1. Holders(g, b) = Holders(f, b) + 1
        BY <1>1, <2>2, HoldersMore
      <3> QED
        BY <2>1, <2>2, <3>1 DEF One
    <2>3. CASE v # b /\ f[x] = b
      <3>1. Holders(g, b) = Holders(f, b) - 1
        BY <1>1, <2>3, HoldersFewer
      <3> QED
        BY <2>1, <2>3, <3>1 DEF One
    <2>4. CASE (v = b) = (f[x] = b)
      <3>1. Holders(g, b) = Holders(f, b)
        BY <1>1, <2>4, HoldersSame
      <3> QED
        BY <2>1, <2>4, <3>1 DEF One
    <2> QED
      BY <2>2, <2>3, <2>4
  <1> QED
    BY <1>1, <1>2 DEF g

LEMMA HoldersWithout ==
    ASSUME NEW f, IsFiniteSet(DOMAIN f), NEW x \in DOMAIN f
    PROVE  /\ IsFiniteSet(DOMAIN Without(f, x))
           /\ \A b : Holders(Without(f, x), b) = Holders(f, b) - One(f[x] = b)
  <1> DEFINE g == Without(f, x)
  <1>1. /\ DOMAIN g = DOMAIN f \ {x}
        /\ \A y \in DOMAIN f : y # x => g[y] = f[y]
    BY DEF Without
  <1> HIDE DEF g
  <1>2. IsFiniteSet(DOMAIN g)
    BY <1>1, FS_RemoveElement
  <1>3. ASSUME NEW b PROVE Holders(g, b) = Holders(f, b) - One(f[x] = b)
    <2>1. Holders(f, b) \in Nat
      BY HoldersType
    <2>2. CASE f[x] = b
      <3>1. Holders(g, b) = Holders(f, b) - 1
        BY <1>1, <2>2, HoldersFewer
      <3> QED
        BY <2>2, <3>1 DEF One
    <2>3. CASE f[x] # b
      <3>1. Holders(g, b) = Holders(f, b)
        BY <1>1, <2>3, HoldersSame
      <3> QED
        BY <2>1, <2>3, <3>1 DEF One
    <2> QED
      BY <2>2, <2>3
  <1> QED
    BY <1>2, <1>3 DEF g

(* The queue of libzmq: a new item, and the oldest that leaves.              *)
LEMMA InQueueType ==
    ASSUME NEW S, NEW q \in Seq(S), NEW b
    PROVE  IsFiniteSet({i \in DOMAIN q : q[i].buffer = b}) /\ InQueue(q, b) \in Nat
  <1>1. Len(q) \in Nat /\ DOMAIN q = 1..Len(q)
    OBVIOUS
  <1>2. IsFiniteSet(DOMAIN q)
    BY <1>1, FS_Interval
  <1>3. {i \in DOMAIN q : q[i].buffer = b} \in SUBSET DOMAIN q
    OBVIOUS
  <1>4. IsFiniteSet({i \in DOMAIN q : q[i].buffer = b})
    BY <1>2, <1>3, FS_Subset
  <1> QED
    BY <1>4, FS_CardinalityType DEF InQueue

LEMMA InQueueAppend ==
    ASSUME NEW S, NEW q \in Seq(S), NEW e \in S, NEW b
    PROVE  InQueue(Append(q, e), b) = InQueue(q, b) + One(e.buffer = b)
  <1> DEFINE r == Append(q, e)
             A == {i \in DOMAIN q : q[i].buffer = b}
             B == {i \in DOMAIN r : r[i].buffer = b}
  <1>1. /\ Len(q) \in Nat /\ DOMAIN q = 1..Len(q) /\ DOMAIN r = 1..(Len(q) + 1)
        /\ \A i \in DOMAIN q : r[i] = q[i]
        /\ r[Len(q) + 1] = e
    OBVIOUS
  <1>2. IsFiniteSet(A) /\ InQueue(q, b) \in Nat
    BY InQueueType
  <1>3. InQueue(q, b) = Cardinality(A) /\ InQueue(r, b) = Cardinality(B)
    BY DEF InQueue
  <1> HIDE DEF r
  <1>4. CASE e.buffer = b
    <2>1. B = A \cup {Len(q) + 1} /\ Len(q) + 1 \notin A
      BY <1>1, <1>4
    <2> HIDE DEF A, B
    <2>2. Cardinality(B) = Cardinality(A) + 1
      BY <1>2, <2>1, FS_AddElement
    <2> QED
      BY <1>2, <1>3, <1>4, <2>2 DEF One, r
  <1>5. CASE e.buffer # b
    <2>1. B = A
      BY <1>1, <1>5
    <2> HIDE DEF A, B
    <2> QED
      BY <1>2, <1>3, <1>5, <2>1 DEF One, r
  <1> QED
    BY <1>4, <1>5

LEMMA InQueueTail ==
    ASSUME NEW S, NEW q \in Seq(S), q # <<>>, NEW b
    PROVE  InQueue(Tail(q), b) = InQueue(q, b) - One(Head(q).buffer = b)
  <1> DEFINE r == Tail(q)
             A == {i \in DOMAIN q : q[i].buffer = b}
             R == A \ {1}
             B == {i \in DOMAIN r : r[i].buffer = b}
             move == [i \in R |-> i - 1]
  <1>1. /\ Len(q) \in Nat \ {0} /\ DOMAIN q = 1..Len(q)
        /\ DOMAIN r = 1..(Len(q) - 1) /\ Head(q) = q[1]
        /\ \A i \in DOMAIN r : r[i] = q[i + 1]
    OBVIOUS
  <1>2. IsFiniteSet(A) /\ InQueue(q, b) \in Nat
    BY InQueueType
  <1>3. InQueue(q, b) = Cardinality(A) /\ InQueue(r, b) = Cardinality(B)
    BY DEF InQueue
  <1>4. 1 \in A <=> Head(q).buffer = b
    BY <1>1
  <1> HIDE DEF r
  <1>5. move \in [R -> B]
    BY <1>1
  <1>6. \A i, j \in R : move[i] = move[j] => i = j
    BY <1>1
  <1>7. \A j \in B : \E i \in R : move[i] = j
    <2> SUFFICES ASSUME NEW j \in B PROVE j + 1 \in R /\ move[j + 1] = j
      OBVIOUS
    <2> QED
      BY <1>1
  <1> HIDE DEF A, B, R, move
  <1>8. ExistsBijection(R, B)
    BY <1>5, <1>6, <1>7 DEF ExistsBijection, Bijection, Injection, Surjection, IsInjective
  <1>9. IsFiniteSet(R) /\ Cardinality(R) = IF 1 \in A THEN Cardinality(A) - 1 ELSE Cardinality(A)
    BY <1>2, FS_RemoveElement DEF R
  <1>10. Cardinality(B) = Cardinality(R)
    BY <1>8, <1>9, FS_Bijection
  <1> QED
    BY <1>2, <1>3, <1>4, <1>9, <1>10 DEF One, r

-----------------------------------------------------------------------------
(* libzmq's counters are positive, and what a call makes of them.            *)
Counters(table) ==
    /\ DOMAIN table \subseteq Buffers
    /\ \A b \in DOMAIN table : table[b] \in Nat \ {0}

LEMMA AllocatedRefs ==
    ASSUME NEW table, Counters(table), NEW b \in Buffers \ DOMAIN table
    PROVE  /\ Counters(Allocated(table, b))
           /\ \A c : Refs(Allocated(table, b), c) = Refs(table, c) + One(c = b)
           /\ \A c \in Buffers : Refs(table, c) \in Nat
  <1> DEFINE t == Allocated(table, b)
  <1>1. /\ DOMAIN t = DOMAIN table \cup {b} /\ t[b] = 1
        /\ \A c \in DOMAIN table : t[c] = table[c]
    BY DEF Allocated, With
  <1> HIDE DEF t
  <1>2. Counters(t)
    BY <1>1 DEF Counters
  <1>3. ASSUME NEW c PROVE Refs(t, c) = Refs(table, c) + One(c = b)
    BY <1>1 DEF Refs, Counters, One
  <1> QED
    BY <1>2, <1>3 DEF t, Refs, Counters

LEMMA ReleasedRefs ==
    ASSUME NEW table, Counters(table), NEW v
    PROVE  /\ Counters(Released(table, v))
           /\ \A c : Refs(Released(table, v), c)
                       = Refs(table, c) - One(c = v /\ v \in DOMAIN table)
  <1> DEFINE t == Released(table, v)
  <1>1. CASE v \notin DOMAIN table
    <2>1. t = table
      BY <1>1 DEF Released
    <2>2. \A c : Refs(table, c) \in Int
      BY DEF Refs, Counters
    <2> HIDE DEF t
    <2>3. \A c : Refs(t, c) = Refs(table, c) - One(c = v /\ v \in DOMAIN table)
      BY <1>1, <2>1, <2>2 DEF One
    <2> QED
      BY <2>1, <2>3 DEF t
  <1>2. CASE v \in DOMAIN table /\ table[v] = 1
    <2>1. /\ DOMAIN t = DOMAIN table \ {v}
          /\ \A c \in DOMAIN table : c # v => t[c] = table[c]
      BY <1>2 DEF Released, Without
    <2> HIDE DEF t
    <2>2. Counters(t)
      BY <2>1 DEF Counters
    <2>3. \A c : Refs(t, c) = Refs(table, c) - One(c = v /\ v \in DOMAIN table)
      BY <1>2, <2>1 DEF Refs, Counters, One
    <2> QED
      BY <2>2, <2>3 DEF t
  <1>3. CASE v \in DOMAIN table /\ table[v] # 1
    <2>1. /\ DOMAIN t = DOMAIN table /\ t[v] = table[v] - 1
          /\ \A c \in DOMAIN table : c # v => t[c] = table[c]
      BY <1>3 DEF Released
    <2>2. t[v] \in Nat \ {0}
      BY <1>3, <2>1 DEF Counters
    <2> HIDE DEF t
    <2>3. Counters(t)
      BY <2>1, <2>2 DEF Counters
    <2>4. \A c : Refs(t, c) = Refs(table, c) - One(c = v /\ v \in DOMAIN table)
      BY <1>3, <2>1 DEF Refs, Counters, One
    <2> QED
      BY <2>3, <2>4 DEF t
  <1> QED
    BY <1>1, <1>2, <1>3

-----------------------------------------------------------------------------
(* The messages f, the queue q and the counters of table agree.              *)
Messages(f) == IsFiniteSet(DOMAIN f) /\ \A x \in DOMAIN f : f[x] \in Buffers \cup {Empty, Closed}

Items(q) == (\E S : q \in Seq(S)) /\ \A i \in DOMAIN q : q[i].buffer \in Buffers

Even(f, q, table, b) == Holders(f, b) + InQueue(q, b) = Refs(table, b)

Balanced(f, q, table) ==
    /\ Messages(f) /\ Items(q) /\ Counters(table)
    /\ \A b \in Buffers : Even(f, q, table, b)

(* All three numbers are numbers, and what is held is counted.               *)
LEMMA BalancedType ==
    ASSUME NEW f, NEW q, NEW table, Balanced(f, q, table), NEW b \in Buffers
    PROVE  /\ Holders(f, b) \in Nat /\ InQueue(q, b) \in Nat /\ Refs(table, b) \in Nat
           /\ (\E x \in DOMAIN f : f[x] = b) => b \in DOMAIN table
           /\ (\E i \in DOMAIN q : q[i].buffer = b) => b \in DOMAIN table
  <1>1. Holders(f, b) \in Nat /\ IsFiniteSet({x \in DOMAIN f : f[x] = b})
    BY HoldersType DEF Balanced, Messages
  <1>2. InQueue(q, b) \in Nat /\ IsFiniteSet({i \in DOMAIN q : q[i].buffer = b})
    BY InQueueType DEF Balanced, Items
  <1>3. Refs(table, b) \in Nat /\ Holders(f, b) + InQueue(q, b) = Refs(table, b)
    BY DEF Balanced, Counters, Refs, Even
  <1>4. ASSUME NEW x \in DOMAIN f, f[x] = b PROVE Holders(f, b) # 0
    <2>1. x \in {y \in DOMAIN f : f[y] = b}
      BY <1>4
    <2> QED
      BY <1>1, <2>1, FS_EmptySet DEF Holders
  <1>5. ASSUME NEW i \in DOMAIN q, q[i].buffer = b PROVE InQueue(q, b) # 0
    <2>1. i \in {j \in DOMAIN q : q[j].buffer = b}
      BY <1>5
    <2> QED
      BY <1>2, <2>1, FS_EmptySet DEF InQueue
  <1>6. Refs(table, b) # 0 => b \in DOMAIN table
    BY DEF Refs
  <1> QED
    BY <1>1, <1>2, <1>3, <1>4, <1>5, <1>6

(* Counters that say the same serve as well.                                 *)
LEMMA BalancedSame ==
    ASSUME NEW f, NEW q, NEW table, Balanced(f, q, table), NEW other,
           DOMAIN other = DOMAIN table, \A b \in DOMAIN table : other[b] = table[b]
    PROVE  Balanced(f, q, other)
  <1>1. Counters(other) /\ \A b : Refs(other, b) = Refs(table, b)
    BY DEF Balanced, Counters, Refs
  <1> QED
    BY <1>1 DEF Balanced, Even

(* A new message is empty, or the only holder of a new buffer.               *)
LEMMA BalancedNew ==
    ASSUME NEW f, NEW q, NEW table, Balanced(f, q, table), NEW x, x \notin DOMAIN f
    PROVE  Balanced(With(f, x, Empty), q, table)
  <1> DEFINE g == With(f, x, Empty)
  <1>1. /\ DOMAIN g = DOMAIN f \cup {x} /\ g[x] = Empty
        /\ \A y \in DOMAIN f : g[y] = f[y]
    BY DEF With
  <1>2. IsFiniteSet(DOMAIN g) /\ \A b : Holders(g, b) = Holders(f, b) + One(Empty = b)
    BY HoldersWith DEF Balanced, Messages
  <1> HIDE DEF g
  <1>3. Messages(g)
    BY <1>1, <1>2 DEF Balanced, Messages
  <1>4. ASSUME NEW b \in Buffers PROVE Even(g, q, table, b)
    <2>1. Holders(f, b) \in Nat /\ Empty # b
      BY BalancedType, CppZmqAssumption
    <2>2. Holders(g, b) = Holders(f, b)
      BY <1>2, <2>1 DEF One
    <2> QED
      BY <2>2 DEF Balanced, Even
  <1> QED
    BY <1>3, <1>4 DEF Balanced, g

LEMMA BalancedFrom ==
    ASSUME NEW f, NEW q, NEW table, Balanced(f, q, table), NEW x, x \notin DOMAIN f,
           NEW v \in Buffers \ DOMAIN table
    PROVE  Balanced(With(f, x, v), q, Allocated(table, v))
  <1> DEFINE g == With(f, x, v)
             t == Allocated(table, v)
  <1>1. /\ DOMAIN g = DOMAIN f \cup {x} /\ g[x] = v
        /\ \A y \in DOMAIN f : g[y] = f[y]
    BY DEF With
  <1>2. IsFiniteSet(DOMAIN g) /\ \A b : Holders(g, b) = Holders(f, b) + One(v = b)
    BY HoldersWith DEF Balanced, Messages
  <1>3. Counters(t) /\ \A b : Refs(t, b) = Refs(table, b) + One(b = v)
    BY AllocatedRefs DEF Balanced
  <1> HIDE DEF g, t
  <1>4. Messages(g)
    BY <1>1, <1>2 DEF Balanced, Messages
  <1>5. ASSUME NEW b \in Buffers PROVE Even(g, q, t, b)
    <2>1. /\ Holders(f, b) \in Nat /\ InQueue(q, b) \in Nat /\ Refs(table, b) \in Nat
          /\ Even(f, q, table, b)
      BY BalancedType DEF Balanced
    <2>2. /\ Holders(g, b) = Holders(f, b) + One(v = b)
          /\ Refs(t, b) = Refs(table, b) + One(v = b)
          /\ One(v = b) \in Nat
      BY <1>2, <1>3 DEF One
    <2> QED
      BY <2>1, <2>2 DEF Even
  <1> QED
    BY <1>3, <1>4, <1>5 DEF Balanced, g, t

(* Messages that say the same serve as well.                                 *)
LEMMA BalancedAlike ==
    ASSUME NEW f, NEW q, NEW table, Balanced(f, q, table), NEW g,
           DOMAIN g = DOMAIN f, \A x \in DOMAIN f : g[x] = f[x]
    PROVE  Balanced(g, q, table)
  <1>1. Messages(g)
    BY DEF Balanced, Messages
  <1>2. ASSUME NEW b PROVE Holders(g, b) = Holders(f, b)
    BY HoldersSame
  <1> QED
    BY <1>1, <1>2 DEF Balanced, Even

(* A message that changes its content is balanced by the counters.           *)
LEMMA BalancedChange ==
    ASSUME NEW f, NEW q, NEW table, Balanced(f, q, table), NEW x \in DOMAIN f,
           NEW v \in Buffers \cup {Empty, Closed}, NEW t, Counters(t),
           \A b \in Buffers : Refs(t, b) = Refs(table, b) + One(v = b) - One(f[x] = b)
    PROVE  Balanced([f EXCEPT ![x] = v], q, t)
  <1> DEFINE g == [f EXCEPT ![x] = v]
  <1>1. /\ DOMAIN g = DOMAIN f /\ g[x] = v
        /\ \A y \in DOMAIN f : y # x => g[y] = f[y]
    OBVIOUS
  <1>2. \A b : Holders(g, b) = Holders(f, b) + One(v = b) - One(f[x] = b)
    BY HoldersExcept DEF Balanced, Messages
  <1> HIDE DEF g
  <1>3. Messages(g)
    BY <1>1 DEF Balanced, Messages
  <1>4. ASSUME NEW b \in Buffers PROVE Even(g, q, t, b)
    <2>1. /\ Holders(f, b) \in Nat /\ InQueue(q, b) \in Nat /\ Refs(table, b) \in Nat
          /\ Even(f, q, table, b)
      BY BalancedType DEF Balanced
    <2>2. /\ Holders(g, b) = Holders(f, b) + One(v = b) - One(f[x] = b)
          /\ Refs(t, b) = Refs(table, b) + One(v = b) - One(f[x] = b)
          /\ One(v = b) \in Nat /\ One(f[x] = b) \in Nat
      BY <1>2 DEF One
    <2> QED
      BY <2>1, <2>2 DEF Even
  <1> QED
    BY <1>3, <1>4 DEF Balanced, g

(* zmq_msg_close, with the message empty or closed afterwards.               *)
LEMMA BalancedRelease ==
    ASSUME NEW f, NEW q, NEW table, Balanced(f, q, table), NEW x \in DOMAIN f,
           NEW v \in {Empty, Closed}
    PROVE  Balanced([f EXCEPT ![x] = v], q, Released(table, f[x]))
  <1> DEFINE t == Released(table, f[x])
  <1>1. Counters(t) /\ \A b : Refs(t, b) = Refs(table, b) - One(b = f[x] /\ f[x] \in DOMAIN table)
    BY ReleasedRefs DEF Balanced
  <1> HIDE DEF t
  <1>2. ASSUME NEW b \in Buffers
        PROVE  Refs(t, b) = Refs(table, b) + One(v = b) - One(f[x] = b)
    <2>1. Refs(table, b) \in Nat /\ (f[x] = b => b \in DOMAIN table) /\ v # b
      BY BalancedType, CppZmqAssumption
    <2>2. Refs(t, b) = Refs(table, b) - One(b = f[x] /\ f[x] \in DOMAIN table)
      BY <1>1
    <2> QED
      BY <2>1, <2>2 DEF One
  <1>3. Balanced([f EXCEPT ![x] = v], q, t)
    BY <1>1, <1>2, BalancedChange
  <1> QED
    BY <1>3 DEF t

(* A message without content gets a new buffer, ...                          *)
LEMMA BalancedAllocate ==
    ASSUME NEW f, NEW q, NEW table, Balanced(f, q, table), NEW x \in DOMAIN f,
           f[x] \notin Buffers, NEW v \in Buffers \ DOMAIN table
    PROVE  Balanced([f EXCEPT ![x] = v], q, Allocated(table, v))
  <1> DEFINE t == Allocated(table, v)
  <1>1. Counters(t) /\ \A b : Refs(t, b) = Refs(table, b) + One(b = v)
    BY AllocatedRefs DEF Balanced
  <1> HIDE DEF t
  <1>2. ASSUME NEW b \in Buffers
        PROVE  Refs(t, b) = Refs(table, b) + One(v = b) - One(f[x] = b)
    <2>1. Refs(table, b) \in Nat /\ f[x] # b
      BY BalancedType
    <2>2. Refs(t, b) = Refs(table, b) + One(b = v)
      BY <1>1
    <2> QED
      BY <2>1, <2>2 DEF One
  <1>3. Balanced([f EXCEPT ![x] = v], q, t)
    BY <1>1, <1>2, BalancedChange
  <1> QED
    BY <1>3 DEF t

(* ... or shares that of another.                                            *)
LEMMA BalancedShare ==
    ASSUME NEW f, NEW q, NEW table, Balanced(f, q, table), NEW x \in DOMAIN f,
           f[x] \notin Buffers, NEW y \in DOMAIN f, f[y] \in Buffers,
           NEW t, DOMAIN t = DOMAIN table, t[f[y]] = table[f[y]] + 1,
           \A b \in DOMAIN table : b # f[y] => t[b] = table[b]
    PROVE  Balanced([f EXCEPT ![x] = f[y]], q, t)
  <1>1. f[y] \in DOMAIN table
    BY BalancedType
  <1>2. Counters(table)
    BY DEF Balanced
  <1>3. Counters(t)
    BY <1>1, <1>2 DEF Counters
  <1>4. ASSUME NEW b \in Buffers
        PROVE  Refs(t, b) = Refs(table, b) + One(f[y] = b) - One(f[x] = b)
    <2>1. f[x] # b
      OBVIOUS
    <2> QED
      BY <1>1, <1>2, <2>1 DEF Counters, Refs, One
  <1> QED
    BY <1>3, <1>4, BalancedChange

(* A message that ends.                                                      *)
LEMMA BalancedDestroy ==
    ASSUME NEW f, NEW q, NEW table, Balanced(f, q, table), NEW x \in DOMAIN f
    PROVE  Balanced(Without(f, x), q, Released(table, f[x]))
  <1> DEFINE g == Without(f, x)
             t == Released(table, f[x])
  <1>1. DOMAIN g = DOMAIN f \ {x} /\ \A y \in DOMAIN g : g[y] = f[y]
    BY DEF Without
  <1>2. IsFiniteSet(DOMAIN g) /\ \A b : Holders(g, b) = Holders(f, b) - One(f[x] = b)
    BY HoldersWithout DEF Balanced, Messages
  <1>3. Counters(t) /\ \A b : Refs(t, b) = Refs(table, b) - One(b = f[x] /\ f[x] \in DOMAIN table)
    BY ReleasedRefs DEF Balanced
  <1> HIDE DEF g, t
  <1>4. Messages(g)
    BY <1>1, <1>2 DEF Balanced, Messages
  <1>5. ASSUME NEW b \in Buffers PROVE Even(g, q, t, b)
    <2>1. /\ Holders(f, b) \in Nat /\ InQueue(q, b) \in Nat /\ Refs(table, b) \in Nat
          /\ Even(f, q, table, b) /\ (f[x] = b => b \in DOMAIN table)
      BY BalancedType DEF Balanced
    <2>2. /\ Holders(g, b) = Holders(f, b) - One(f[x] = b)
          /\ Refs(t, b) = Refs(table, b) - One(f[x] = b)
          /\ One(f[x] = b) \in Nat
      BY <1>2, <1>3, <2>1 DEF One
    <2> QED
      BY <2>1, <2>2 DEF Even
  <1> QED
    BY <1>3, <1>4, <1>5 DEF Balanced, g, t

(* Two messages exchange their contents.                                     *)
LEMMA BalancedSwap ==
    ASSUME NEW f, NEW q, NEW table, Balanced(f, q, table),
           NEW x \in DOMAIN f, NEW y \in DOMAIN f
    PROVE  Balanced(Swapped(f, x, y), q, table)
  <1> DEFINE g == [f EXCEPT ![x] = f[y]]
             r == [g EXCEPT ![y] = f[x]]
  <1>1. DOMAIN g = DOMAIN f /\ g[y] = f[y]
    OBVIOUS
  <1>2. /\ DOMAIN r = DOMAIN f /\ r[x] = f[y] /\ r[y] = f[x]
        /\ \A z \in DOMAIN f : z # x /\ z # y => r[z] = f[z]
    OBVIOUS
  <1>3. \A b : Holders(g, b) = Holders(f, b) + One(f[y] = b) - One(f[x] = b)
    BY HoldersExcept DEF Balanced, Messages
  <1> HIDE DEF g
  <1>4. \A b : Holders(r, b) = Holders(g, b) + One(f[x] = b) - One(g[y] = b)
    <2>1. IsFiniteSet(DOMAIN g) /\ y \in DOMAIN g
      BY <1>1 DEF Balanced, Messages
    <2> QED
      BY <2>1, HoldersExcept
  <1> HIDE DEF r
  <1>5. Messages(r)
    BY <1>2 DEF Balanced, Messages
  <1>6. ASSUME NEW b \in Buffers PROVE Even(r, q, table, b)
    <2>1. Holders(f, b) \in Nat /\ Even(f, q, table, b)
      BY BalancedType DEF Balanced
    <2>2. /\ Holders(g, b) = Holders(f, b) + One(f[y] = b) - One(f[x] = b)
          /\ Holders(r, b) = Holders(g, b) + One(f[x] = b) - One(f[y] = b)
          /\ One(f[x] = b) \in Nat /\ One(f[y] = b) \in Nat
      BY <1>1, <1>3, <1>4 DEF One
    <2>3. Holders(r, b) = Holders(f, b)
      BY <2>1, <2>2
    <2> QED
      BY <2>1, <2>3 DEF Even
  <1>7. Balanced(r, q, table)
    BY <1>5, <1>6 DEF Balanced
  <1>8. /\ DOMAIN Swapped(f, x, y) = DOMAIN r
        /\ \A z \in DOMAIN r : Swapped(f, x, y)[z] = r[z]
    BY <1>2 DEF Swapped
  <1> QED
    BY <1>7, <1>8, BalancedAlike

(* A message moved into a new one, which is empty for a moment.              *)
LEMMA BalancedMove ==
    ASSUME NEW f, NEW q, NEW table, Balanced(f, q, table), NEW x, x \notin DOMAIN f,
           NEW y \in DOMAIN f
    PROVE  Balanced([With(f, x, f[y]) EXCEPT ![y] = Empty], q, table)
  <1> DEFINE g == With(f, x, Empty)
             h == With(f, x, f[y])
             r == [h EXCEPT ![y] = Empty]
  <1>1. /\ DOMAIN g = DOMAIN f \cup {x} /\ g[x] = Empty
        /\ \A z \in DOMAIN f : g[z] = f[z]
    BY DEF With
  <1>2. /\ DOMAIN h = DOMAIN f \cup {x} /\ h[x] = f[y]
        /\ \A z \in DOMAIN f : h[z] = f[z]
    BY DEF With
  <1>3. Balanced(g, q, table)
    BY BalancedNew
  <1> HIDE DEF g, h
  <1>4. /\ DOMAIN r = DOMAIN f \cup {x} /\ r[x] = f[y] /\ r[y] = Empty
        /\ \A z \in DOMAIN f : z # y => r[z] = f[z]
    BY <1>2
  <1> HIDE DEF r
  <1>5. Balanced(Swapped(g, x, y), q, table)
    BY <1>1, <1>3, BalancedSwap
  <1>6. /\ DOMAIN r = DOMAIN Swapped(g, x, y)
        /\ \A z \in DOMAIN Swapped(g, x, y) : r[z] = Swapped(g, x, y)[z]
    BY <1>1, <1>4 DEF Swapped
  <1>7. Balanced(r, q, table)
    BY <1>5, <1>6, BalancedAlike
  <1> QED
    BY <1>7 DEF r, h

(* Content that goes from one message to another, which loses its own.       *)
LEMMA BalancedMoveFrom ==
    ASSUME NEW f, NEW q, NEW table, Balanced(f, q, table),
           NEW x \in DOMAIN f, NEW y \in DOMAIN f, x # y
    PROVE  Balanced([f EXCEPT ![x] = f[y], ![y] = Empty], q, Released(table, f[x]))
  <1> DEFINE g == [f EXCEPT ![x] = Empty]
             r == [f EXCEPT ![x] = f[y], ![y] = Empty]
             t == Released(table, f[x])
  <1>1. Balanced(g, q, t)
    BY BalancedRelease
  <1>2. /\ DOMAIN g = DOMAIN f /\ g[x] = Empty
        /\ \A z \in DOMAIN f : z # x => g[z] = f[z]
    OBVIOUS
  <1>3. /\ DOMAIN r = DOMAIN f /\ r[x] = f[y] /\ r[y] = Empty
        /\ \A z \in DOMAIN f : z # x /\ z # y => r[z] = f[z]
    OBVIOUS
  <1> HIDE DEF g, r, t
  <1>4. Balanced(Swapped(g, x, y), q, t)
    BY <1>1, <1>2, BalancedSwap
  <1>5. /\ DOMAIN r = DOMAIN Swapped(g, x, y)
        /\ \A z \in DOMAIN Swapped(g, x, y) : r[z] = Swapped(g, x, y)[z]
    BY <1>2, <1>3 DEF Swapped
  <1>6. Balanced(r, q, t)
    BY <1>4, <1>5, BalancedAlike
  <1> QED
    BY <1>6 DEF r, t

(* A message that gets a new buffer for what it held.                        *)
LEMMA BalancedRefill ==
    ASSUME NEW f, NEW q, NEW table, Balanced(f, q, table), NEW x \in DOMAIN f,
           NEW v \in Buffers \ DOMAIN Released(table, f[x])
    PROVE  Balanced([f EXCEPT ![x] = v], q, Allocated(Released(table, f[x]), v))
  <1> DEFINE g == [f EXCEPT ![x] = Empty]
             t == Released(table, f[x])
  <1>1. Balanced(g, q, t)
    BY BalancedRelease
  <1>2. x \in DOMAIN g /\ g[x] \notin Buffers
    BY CppZmqAssumption
  <1>3. [g EXCEPT ![x] = v] = [f EXCEPT ![x] = v]
    OBVIOUS
  <1> HIDE DEF g, t
  <1>4. Balanced([g EXCEPT ![x] = v], q, Allocated(t, v))
    BY <1>1, <1>2, BalancedAllocate DEF t
  <1> QED
    BY <1>3, <1>4 DEF t

(* zmq_msg_copy: the message closes its own content and shares the other's,  *)
(* which may be the same.                                                    *)
LEMMA BalancedCopy ==
    ASSUME NEW f, NEW q, NEW table, Balanced(f, q, table),
           NEW x \in DOMAIN f, NEW y \in DOMAIN f, x # y, f[y] \in Buffers
    PROVE  Balanced([f EXCEPT ![x] = f[y]], q,
                    [With(Released(table, f[x]), f[y], table[f[y]]) EXCEPT ![f[y]] =
                         IF f[x] = f[y] THEN @ ELSE @ + 1])
  <1> DEFINE g == [f EXCEPT ![x] = Empty]
             t == Released(table, f[x])
             w == With(t, f[y], table[f[y]])
             u == [w EXCEPT ![f[y]] = IF f[x] = f[y] THEN @ ELSE @ + 1]
  <1>1. Balanced(g, q, t)
    BY BalancedRelease
  <1>2. /\ x \in DOMAIN g /\ g[x] \notin Buffers /\ y \in DOMAIN g /\ g[y] = f[y]
        /\ [g EXCEPT ![x] = f[y]] = [f EXCEPT ![x] = f[y]]
    BY CppZmqAssumption
  <1>3. Refs(t, f[y]) = Refs(table, f[y]) - One(f[y] = f[x] /\ f[x] \in DOMAIN table)
    BY ReleasedRefs DEF Balanced
  <1> HIDE DEF g, t
  <1>4. f[y] \in DOMAIN t /\ f[y] \in DOMAIN table
    BY <1>1, <1>2, BalancedType
  <1>5. table[f[y]] \in Nat /\ t[f[y]] \in Nat
    BY <1>1, <1>4 DEF Balanced, Counters
  <1>6. t[f[y]] = table[f[y]] - One(f[y] = f[x])
    BY <1>3, <1>4 DEF Refs, One
  <1>7. /\ DOMAIN w = DOMAIN t /\ w[f[y]] = table[f[y]]
        /\ \A b \in DOMAIN t : b # f[y] => w[b] = t[b]
    BY <1>4 DEF With
  <1> HIDE DEF w
  <1>8. /\ DOMAIN u = DOMAIN t
        /\ u[f[y]] = IF f[x] = f[y] THEN table[f[y]] ELSE table[f[y]] + 1
        /\ \A b \in DOMAIN t : b # f[y] => u[b] = t[b]
    BY <1>4, <1>7
  <1> HIDE DEF u
  <1>9. u[f[y]] = t[f[y]] + 1
    BY <1>5, <1>6, <1>8 DEF One
  <1>10. Balanced([g EXCEPT ![x] = g[y]], q, u)
    BY <1>1, <1>2, <1>8, <1>9, BalancedShare
  <1> QED
    BY <1>2, <1>10 DEF u, w, t

(* An item that is queued, with a buffer that is in nobody's hands or leaves *)
(* those of a message.                                                       *)
LEMMA ItemsAppend ==
    ASSUME NEW q, Items(q), NEW c, NEW v \in Buffers
    PROVE  /\ Items(Append(q, [context |-> c, buffer |-> v]))
           /\ \A b : InQueue(Append(q, [context |-> c, buffer |-> v]), b)
                       = InQueue(q, b) + One(v = b)
  <1>1. PICK e : e = [context |-> c, buffer |-> v]
    OBVIOUS
  <1>2. PICK S : q \in Seq(S)
    BY DEF Items
  <1>3. PICK T : T = S \cup {e}
    OBVIOUS
  <1>4. q \in Seq(T) /\ e \in T
    BY <1>2, <1>3
  <1>5. e.buffer = v
    BY <1>1
  <1>6. \A b : InQueue(Append(q, e), b) = InQueue(q, b) + One(v = b)
    BY <1>4, <1>5, InQueueAppend
  <1>7. Append(q, e) \in Seq(T)
    BY <1>4
  <1>8. \A i \in DOMAIN Append(q, e) : Append(q, e)[i].buffer \in Buffers
    BY <1>4, <1>5 DEF Items
  <1>9. Items(Append(q, e))
    BY <1>7, <1>8 DEF Items
  <1> QED
    BY <1>1, <1>6, <1>9

LEMMA BalancedSend ==
    ASSUME NEW f, NEW q, NEW table, Balanced(f, q, table), NEW x \in DOMAIN f,
           f[x] \in Buffers, NEW c
    PROVE  Balanced([f EXCEPT ![x] = Empty], Append(q, [context |-> c, buffer |-> f[x]]), table)
  <1> DEFINE g == [f EXCEPT ![x] = Empty]
             r == Append(q, [context |-> c, buffer |-> f[x]])
  <1>1. /\ DOMAIN g = DOMAIN f /\ g[x] = Empty
        /\ \A y \in DOMAIN f : y # x => g[y] = f[y]
    OBVIOUS
  <1>2. \A b : Holders(g, b) = Holders(f, b) + One(Empty = b) - One(f[x] = b)
    BY HoldersExcept DEF Balanced, Messages
  <1>3. Items(r) /\ \A b : InQueue(r, b) = InQueue(q, b) + One(f[x] = b)
    BY ItemsAppend DEF Balanced
  <1> HIDE DEF g, r
  <1>4. Messages(g)
    BY <1>1 DEF Balanced, Messages
  <1>5. ASSUME NEW b \in Buffers PROVE Even(g, r, table, b)
    <2>1. /\ Holders(f, b) \in Nat /\ InQueue(q, b) \in Nat
          /\ Even(f, q, table, b) /\ Empty # b
      BY BalancedType, CppZmqAssumption DEF Balanced
    <2>2. /\ Holders(g, b) = Holders(f, b) - One(f[x] = b)
          /\ InQueue(r, b) = InQueue(q, b) + One(f[x] = b)
          /\ One(f[x] = b) \in Nat
      BY <1>2, <1>3, <2>1 DEF One
    <2> QED
      BY <2>1, <2>2 DEF Even
  <1> QED
    BY <1>3, <1>4, <1>5 DEF Balanced, g, r

LEMMA BalancedSendBuffer ==
    ASSUME NEW f, NEW q, NEW table, Balanced(f, q, table), NEW v \in Buffers \ DOMAIN table, NEW c
    PROVE  Balanced(f, Append(q, [context |-> c, buffer |-> v]), Allocated(table, v))
  <1> DEFINE r == Append(q, [context |-> c, buffer |-> v])
             t == Allocated(table, v)
  <1>1. Items(r) /\ \A b : InQueue(r, b) = InQueue(q, b) + One(v = b)
    BY ItemsAppend DEF Balanced
  <1>2. Counters(t) /\ \A b : Refs(t, b) = Refs(table, b) + One(b = v)
    BY AllocatedRefs DEF Balanced
  <1> HIDE DEF r, t
  <1>3. ASSUME NEW b \in Buffers PROVE Even(f, r, t, b)
    <2>1. /\ Holders(f, b) \in Nat /\ InQueue(q, b) \in Nat /\ Refs(table, b) \in Nat
          /\ Even(f, q, table, b)
      BY BalancedType DEF Balanced
    <2>2. /\ InQueue(r, b) = InQueue(q, b) + One(v = b)
          /\ Refs(t, b) = Refs(table, b) + One(v = b)
          /\ One(v = b) \in Nat
      BY <1>1, <1>2 DEF One
    <2> QED
      BY <2>1, <2>2 DEF Even
  <1> QED
    BY <1>1, <1>2, <1>3 DEF Balanced, r, t

(* The oldest item is written to the network.                                *)
LEMMA BalancedTransmit ==
    ASSUME NEW f, NEW q, NEW table, Balanced(f, q, table), q # <<>>
    PROVE  Balanced(f, Tail(q), Released(table, Head(q).buffer))
  <1>1. PICK v : v = Head(q).buffer
    OBVIOUS
  <1>2. PICK S : q \in Seq(S)
    BY DEF Balanced, Items
  <1>3. 1 \in DOMAIN q /\ q[1].buffer = v
    BY <1>1, <1>2
  <1>4. v \in Buffers /\ v \in DOMAIN table
    BY <1>3, BalancedType DEF Balanced, Items
  <1> DEFINE r == Tail(q)
             t == Released(table, v)
  <1>5. Items(r)
    <2>1. r \in Seq(S) /\ \A i \in DOMAIN r : r[i] = q[i + 1] /\ i + 1 \in DOMAIN q
      BY <1>2
    <2> QED
      BY <2>1 DEF Balanced, Items
  <1>6. \A b : InQueue(r, b) = InQueue(q, b) - One(v = b)
    BY <1>1, <1>2, InQueueTail
  <1>7. Counters(t) /\ \A b : Refs(t, b) = Refs(table, b) - One(b = v /\ v \in DOMAIN table)
    BY ReleasedRefs DEF Balanced
  <1> HIDE DEF r, t
  <1>8. ASSUME NEW b \in Buffers PROVE Even(f, r, t, b)
    <2>1. /\ Holders(f, b) \in Nat /\ InQueue(q, b) \in Nat /\ Refs(table, b) \in Nat
          /\ Even(f, q, table, b)
      BY BalancedType DEF Balanced
    <2>2. /\ InQueue(r, b) = InQueue(q, b) - One(v = b)
          /\ Refs(t, b) = Refs(table, b) - One(v = b)
          /\ One(v = b) \in Nat
      BY <1>4, <1>6, <1>7 DEF One
    <2> QED
      BY <2>1, <2>2 DEF Even
  <1> QED
    BY <1>1, <1>5, <1>7, <1>8 DEF Balanced, r, t

-----------------------------------------------------------------------------
CountInv == Balanced(msg, queued, refs)

LEMMA CountUnchanged ==
    ASSUME CountInv, UNCHANGED messageVars
    PROVE  CountInv'
  BY DEF CountInv, messageVars

LEMMA CountHolds ==
    ASSUME NEW f, NEW t, Holds(f, t), Balanced(f, queued, t)
    PROVE  CountInv'
  BY DEF CountInv, Holds

(* The calls of message_t.                                                   *)
LEMMA MessageNewCounts ==
    ASSUME CountInv, NEW m, MessageNew(m) \/ MessageFrom(m)
    PROVE  CountInv'
  <1>1. CASE MessageNew(m)
    <2>1. Balanced(With(msg, m, Empty), queued, refs)
      BY <1>1, BalancedNew DEF CountInv, MessageNew
    <2> QED
      BY <1>1, <2>1, CountHolds DEF MessageNew
  <1>2. CASE MessageFrom(m) /\ Throws
    BY <1>2, ThrowsUnchanged, CountUnchanged
  <1>3. CASE MessageFrom(m) /\ ~Throws
    <2>1. m \notin DOMAIN msg
      BY <1>3 DEF MessageFrom
    <2>2. PICK b \in Buffers \ DOMAIN refs : Holds(With(msg, m, b), Allocated(refs, b))
      BY <1>3 DEF MessageFrom
    <2>3. Balanced(With(msg, m, b), queued, Allocated(refs, b))
      BY <2>1, BalancedFrom DEF CountInv
    <2> QED
      BY <2>2, <2>3, CountHolds
  <1> QED
    BY <1>1, <1>2, <1>3

LEMMA MessageMoveCounts ==
    ASSUME CountInv, NEW m, NEW rhs \in DOMAIN msg, MessageMove(m, rhs)
    PROVE  CountInv'
  <1>1. m \notin DOMAIN msg
    BY DEF MessageMove
  <1>2. Balanced([With(msg, m, msg[rhs]) EXCEPT ![rhs] = Empty], queued, refs)
    BY <1>1, BalancedMove DEF CountInv
  <1> QED
    BY <1>2, CountHolds DEF MessageMove

LEMMA MessageAssignCounts ==
    ASSUME CountInv, NEW m \in DOMAIN msg, NEW rhs \in DOMAIN msg, MessageAssign(m, rhs)
    PROVE  CountInv'
  <1>1. Balanced(Swapped(msg, m, rhs), queued, refs)
    BY BalancedSwap DEF CountInv
  <1> QED
    BY <1>1, CountHolds DEF MessageAssign, MessageSwap

LEMMA MessageDestroyCounts ==
    ASSUME CountInv, NEW m \in DOMAIN msg, MessageDestroy(m)
    PROVE  CountInv'
  <1>1. Balanced(Without(msg, m), queued, Released(refs, msg[m]))
    BY BalancedDestroy DEF CountInv
  <1> QED
    BY <1>1, CountHolds DEF MessageDestroy

LEMMA MessageRebuildCounts ==
    ASSUME CountInv, NEW m \in DOMAIN msg, MessageRebuild(m)
    PROVE  CountInv'
  <1>1. PICK released : released = Released(refs, msg[m])
    OBVIOUS
  <1>2. CASE Holds([msg EXCEPT ![m] = Empty], released)
    <2>1. Balanced([msg EXCEPT ![m] = Empty], queued, released)
      BY <1>1, BalancedRelease DEF CountInv
    <2> QED
      BY <1>2, <2>1, CountHolds
  <1>3. CASE \E b \in Buffers \ DOMAIN released :
               Holds([msg EXCEPT ![m] = b], Allocated(released, b))
    <2>1. PICK b \in Buffers \ DOMAIN released :
            Holds([msg EXCEPT ![m] = b], Allocated(released, b))
      BY <1>3
    <2>2. Balanced([msg EXCEPT ![m] = b], queued, Allocated(released, b))
      BY <1>1, BalancedRefill DEF CountInv
    <2> QED
      BY <2>1, <2>2, CountHolds
  <1>4. CASE msg' = [msg EXCEPT ![m] = Closed] /\ refs' = released /\ queued' = queued
    <2>1. Balanced([msg EXCEPT ![m] = Closed], queued, released)
      BY <1>1, BalancedRelease DEF CountInv
    <2> QED
      BY <1>4, <2>1 DEF CountInv
  <1> QED
    BY <1>1, <1>2, <1>3, <1>4 DEF MessageRebuild

LEMMA MessageMoveFromCounts ==
    ASSUME CountInv, NEW m \in DOMAIN msg, NEW other \in DOMAIN msg, m # other,
           MessageMoveFrom(m, other)
    PROVE  CountInv'
  <1>1. CASE Throws
    BY <1>1, ThrowsUnchanged, CountUnchanged
  <1>2. CASE ~Throws
    <2>1. Balanced([msg EXCEPT ![m] = msg[other], ![other] = Empty], queued,
                   Released(refs, msg[m]))
      BY BalancedMoveFrom DEF CountInv
    <2> QED
      BY <1>2, <2>1, CountHolds DEF MessageMoveFrom
  <1> QED
    BY <1>1, <1>2

LEMMA MessageCopyFromCounts ==
    ASSUME CountInv, NEW m \in DOMAIN msg, NEW other \in DOMAIN msg, m # other,
           MessageCopyFrom(m, other)
    PROVE  CountInv'
  <1> DEFINE released == Released(refs, msg[m])
             shared == [With(released, msg[other], refs[msg[other]]) EXCEPT ![msg[other]] =
                           IF msg[m] = msg[other] THEN @ ELSE @ + 1]
  <1>1. CASE Throws
    BY <1>1, ThrowsUnchanged, CountUnchanged
  <1>2. CASE ~Throws /\ msg[other] = Empty
    <2>1. Holds([msg EXCEPT ![m] = Empty], released)
      BY <1>2 DEF MessageCopyFrom
    <2>2. Balanced([msg EXCEPT ![m] = Empty], queued, released)
      BY BalancedRelease DEF CountInv
    <2> QED
      BY <2>1, <2>2, CountHolds
  <1>3. CASE ~Throws /\ msg[other] # Empty
    <2>1. msg[other] # Closed /\ Holds([msg EXCEPT ![m] = msg[other]], shared)
      BY <1>3 DEF MessageCopyFrom
    <2>2. msg[other] \in Buffers
      BY <1>3, <2>1 DEF CountInv, Balanced, Messages
    <2>3. Balanced([msg EXCEPT ![m] = msg[other]], queued, shared)
      BY <2>2, BalancedCopy DEF CountInv
    <2> HIDE DEF shared
    <2> QED
      BY <2>1, <2>3, CountHolds
  <1> QED
    BY <1>1, <1>2, <1>3

LEMMA SendCounts ==
    ASSUME CountInv, NEW s, NEW m \in DOMAIN msg, Send(s, m)
    PROVE  CountInv'
  <1>1. CASE Throws \/ WouldBlock
    BY <1>1, ThrowsUnchanged, CountUnchanged DEF WouldBlock
  <1>2. CASE ~(Throws \/ WouldBlock)
    <2>1. /\ msg[m] # Closed /\ msg' = [msg EXCEPT ![m] = Empty] /\ refs' = refs
          /\ queued' = IF msg[m] = Empty THEN queued ELSE Queue(s, msg[m])
      BY <1>2 DEF Send
    <2>2. CASE msg[m] = Empty
      <3>1. DOMAIN msg' = DOMAIN msg /\ \A x \in DOMAIN msg : msg'[x] = msg[x]
        BY <2>1, <2>2
      <3>2. Balanced(msg', queued, refs)
        BY <3>1, BalancedAlike DEF CountInv
      <3> QED
        BY <2>1, <2>2, <3>2 DEF CountInv
    <2>3. CASE msg[m] # Empty
      <3>1. msg[m] \in Buffers
        BY <2>1, <2>3 DEF CountInv, Balanced, Messages
      <3>2. Balanced([msg EXCEPT ![m] = Empty], Queue(s, msg[m]), refs)
        BY <3>1, BalancedSend DEF CountInv, Queue
      <3> QED
        BY <2>1, <2>3, <3>2 DEF CountInv
    <2> QED
      BY <2>2, <2>3
  <1> QED
    BY <1>1, <1>2

LEMMA SendBufferCounts ==
    ASSUME CountInv, NEW s, SendBuffer(s)
    PROVE  CountInv'
  <1>1. CASE Throws \/ WouldBlock
    BY <1>1, ThrowsUnchanged, CountUnchanged DEF WouldBlock
  <1>2. CASE ~(Throws \/ WouldBlock)
    <2>1. msg' = msg
      BY <1>2 DEF SendBuffer
    <2>2. PICK b \in Buffers \ DOMAIN refs : queued' = Queue(s, b) /\ refs' = Allocated(refs, b)
      BY <1>2 DEF SendBuffer
    <2>3. Balanced(msg, Queue(s, b), Allocated(refs, b))
      BY BalancedSendBuffer DEF CountInv, Queue
    <2> QED
      BY <2>1, <2>2, <2>3 DEF CountInv
  <1> QED
    BY <1>1, <1>2

LEMMA RecvCounts ==
    ASSUME CountInv, NEW s, NEW m \in DOMAIN msg, Recv(s, m)
    PROVE  CountInv'
  <1>1. CASE Throws \/ WouldBlock
    BY <1>1, ThrowsUnchanged, CountUnchanged DEF WouldBlock
  <1>2. CASE ~(Throws \/ WouldBlock)
    <2>1. PICK released : released = Released(refs, msg[m])
      OBVIOUS
    <2>2. PICK b \in Buffers \ DOMAIN released :
            Holds([msg EXCEPT ![m] = b], Allocated(released, b))
      BY <1>2, <2>1 DEF Recv
    <2>3. Balanced([msg EXCEPT ![m] = b], queued, Allocated(released, b))
      BY <2>1, BalancedRefill DEF CountInv
    <2> QED
      BY <2>2, <2>3, CountHolds
  <1> QED
    BY <1>1, <1>2

LEMMA TransmitCounts ==
    ASSUME CountInv, Transmit
    PROVE  CountInv'
  <1>1. Balanced(msg, Tail(queued), Released(refs, Head(queued).buffer))
    BY BalancedTransmit DEF CountInv, Transmit
  <1> QED
    BY <1>1 DEF CountInv, Transmit

(* The other calls leave the messages alone.                                 *)
LEMMA ContextsCount ==
    ASSUME NEW c,
           \/ ContextNew(c) \/ ContextClose(c) \/ ContextCloseWaits(c) \/ ContextDestroy(c)
           \/ ContextShutdown(c) \/ ContextOption(c)
           \/ \E rhs : ContextMove(c, rhs) \/ ContextAssign(c, rhs) \/ ContextSwap(c, rhs)
    PROVE  UNCHANGED messageVars
  BY ThrowsUnchanged
     DEF ContextNew, ContextClose, ContextCloseWaits, ContextDestroy, ContextShutdown,
         ContextOption, ContextMove, ContextAssign, ContextSwap, ContextClosed

LEMMA SocketsCount ==
    ASSUME NEW s,
           \/ SocketDefault(s) \/ SocketClose(s) \/ SocketDestroy(s) \/ RecvBuffer(s)
           \/ GetOption(s) \/ MonitorAbort(s) \/ CheckEvent(s)
           \/ \E x : SocketNew(s, x) \/ SocketMove(s, x) \/ SocketAssign(s, x) \/ SocketSwap(s, x)
           \/ \E x : SetOption(s, x) \/ Connect(s, x) \/ Bind(s, x)
           \/ \E x : Disconnect(s, x) \/ Unbind(s, x) \/ MonitorInit(s, x)
    PROVE  UNCHANGED messageVars
  <1>1. ASSUME NEW new, SocketCall(s, new) PROVE UNCHANGED messageVars
    BY <1>1, ThrowsUnchanged DEF SocketCall
  <1>2. CASE SocketDefault(s) \/ SocketClose(s) \/ SocketDestroy(s)
    BY <1>2 DEF SocketDefault, SocketClose, SocketDestroy, SocketClosed
  <1>3. CASE RecvBuffer(s) \/ GetOption(s)
    BY <1>1, <1>3 DEF RecvBuffer, GetOption, WouldBlock
  <1>4. CASE MonitorAbort(s) \/ CheckEvent(s)
    BY <1>4, ThrowsUnchanged DEF MonitorAbort, CheckEvent, Poll
  <1>5. CASE \E x : SocketNew(s, x) \/ SocketMove(s, x) \/ SocketAssign(s, x) \/ SocketSwap(s, x)
    BY <1>5, ThrowsUnchanged DEF SocketNew, SocketMove, SocketAssign, SocketSwap, SocketClosed
  <1>6. CASE \E x : SetOption(s, x) \/ Connect(s, x) \/ Bind(s, x)
    BY <1>1, <1>6, ThrowsUnchanged DEF SetOption, Connect, Bind
  <1>7. CASE \E x : Disconnect(s, x) \/ Unbind(s, x) \/ MonitorInit(s, x)
    BY <1>1, <1>7, ThrowsUnchanged DEF Disconnect, Unbind, MonitorInit
  <1> QED
    BY <1>2, <1>3, <1>4, <1>5, <1>6, <1>7

LEMMA ExecuteCounts ==
    ASSUME CountInv, ObjectsAlive, Execute
    PROVE  CountInv'
  <1>1. PICK e : e = Head(script)
    OBVIOUS
  <1>2. StepFits(e) /\ (ZmqStep(e) \/ OtherStep(e))
    BY <1>1 DEF Execute, ObjectsAlive
  <1>3. CASE OtherStep(e)
    <2>1. UNCHANGED <<contextVars, socketVars, messageVars>>
      BY <1>3, Zenon DEF OtherStep
    <2> QED
      BY <2>1, CountUnchanged
  <1>4. CASE ContextNew(e.x) \/ ContextMove(e.x, e.y) \/ ContextDestroy(e.x)
    BY <1>4, ContextsCount, CountUnchanged
  <1>5. CASE SetOption(e.x, e.y) \/ Bind(e.x, e.y) \/ Connect(e.x, e.y)
    BY <1>5, SocketsCount, CountUnchanged
  <1>6. CASE SocketNew(e.x, e.y) \/ SocketMove(e.x, e.y) \/ SocketDestroy(e.x)
    BY <1>6, SocketsCount, CountUnchanged
  <1>7. CASE Poll(pollItems)
    BY <1>7, ThrowsUnchanged, CountUnchanged DEF Poll
  <1>8. CASE MessageNew(e.x) \/ MessageFrom(e.x)
    BY <1>8, MessageNewCounts
  <1>9. CASE MessageRead(e.x)
    BY <1>9, CountUnchanged DEF MessageRead
  <1>10. CASE e.do = "destroy_message" /\ MessageDestroy(e.x)
    <2>1. e.x \in DOMAIN msg
      BY <1>2, <1>10 DEF StepFits
    <2> QED
      BY <1>10, <2>1, MessageDestroyCounts
  <1>11. CASE e.do = "recv" /\ Recv(e.x, e.y)
    BY <1>2, <1>11, RecvCounts DEF StepFits
  <1>12. CASE e.do = "send" /\ Send(e.x, e.y)
    BY <1>2, <1>12, SendCounts DEF StepFits
  <1> QED
    BY <1>2, <1>3, <1>4, <1>5, <1>6, <1>7, <1>8, <1>9, <1>10, <1>11, <1>12, Zenon DEF ZmqStep

LEMMA AnyCallCounts ==
    ASSUME CountInv, AnyCall
    PROVE  CountInv'
  <1>1. CASE AnyContextCall
    <2>1. UNCHANGED messageVars
      BY <1>1, ContextsCount DEF AnyContextCall
    <2> QED
      BY <2>1, CountUnchanged
  <1>2. CASE AnySocketCall /\ \E s \in DOMAIN handle : SendBuffer(s)
    BY <1>2, SendBufferCounts
  <1>3. CASE AnySocketCall /\ ~\E s \in DOMAIN handle : SendBuffer(s)
    <2>1. UNCHANGED messageVars
      BY <1>3, SocketsCount DEF AnySocketCall
    <2> QED
      BY <2>1, CountUnchanged
  <1>4. CASE AnyMessageCall
    <2>1. CASE \E m \in DOMAIN msg : MessageRead(m)
      BY <2>1, CountUnchanged DEF MessageRead
    <2> QED
      BY <1>4, <2>1, MessageNewCounts, MessageMoveCounts, MessageDestroyCounts,
         MessageRebuildCounts, MessageAssignCounts, MessageMoveFromCounts,
         MessageCopyFromCounts, SendCounts, RecvCounts DEF AnyMessageCall
  <1> QED
    BY <1>1, <1>2, <1>3, <1>4 DEF AnyCall

LEMMA MonitorCallCounts ==
    ASSUME CountInv, MonitorCall
    PROVE  CountInv'
  <1>1. UNCHANGED messageVars
    BY ContextsCount, SocketsCount
       DEF MonitorCall, MonitorNew, MonitorMove, MonitorAssign, MonitorDestroy
  <1> QED
    BY <1>1, CountUnchanged

(* Every step keeps the counts.                                              *)
LEMMA CountStep ==
    ASSUME CountInv, ObjectsAlive, [Next]_vars
    PROVE  CountInv'
  <1>1. CASE Execute
    BY <1>1, ExecuteCounts
  <1>2. CASE NextRound \/ Calculated \/ UNCHANGED vars
    BY <1>2, CountUnchanged DEF NextRound, Calculated, vars, zmqVars, messageVars
  <1>3. CASE AnyCall
    BY <1>3, AnyCallCounts
  <1>4. CASE MonitorCall
    BY <1>4, MonitorCallCounts
  <1>5. CASE Transmit
    BY <1>5, TransmitCounts
  <1> QED
    BY <1>1, <1>2, <1>3, <1>4, <1>5 DEF Next

LEMMA CountInit == Init => CountInv
  <1> SUFFICES ASSUME Init PROVE CountInv
    OBVIOUS
  <1>1. DOMAIN msg = {} /\ queued = <<>> /\ DOMAIN refs = {}
    BY DEF Init, ZmqInit
  <1>2. Messages(msg) /\ Counters(refs)
    BY <1>1, FS_EmptySet DEF Messages, Counters
  <1>3. queued \in Seq({}) /\ DOMAIN queued = {}
    BY <1>1
  <1>4. Items(queued)
    BY <1>3 DEF Items
  <1>5. ASSUME NEW b \in Buffers PROVE Even(msg, queued, refs, b)
    <2>1. {x \in DOMAIN msg : msg[x] = b} = {} /\ {i \in DOMAIN queued : queued[i].buffer = b} = {}
      BY <1>1, <1>3
    <2>2. Holders(msg, b) = 0 /\ InQueue(queued, b) = 0 /\ Refs(refs, b) = 0
      BY <1>1, <2>1, FS_EmptySet DEF Holders, InQueue, Refs
    <2> QED
      BY <2>2 DEF Even
  <1> QED
    BY <1>2, <1>4, <1>5 DEF CountInv, Balanced

LEMMA CountInvImplies == CountInv => BuffersCounted
  BY DEF CountInv, Balanced, Even, BuffersCounted, InQueue, Refs

-----------------------------------------------------------------------------
(* The scripts.  The objects that live, each with the table it is in, and    *)
(* the one a step of a script is about.                                      *)
Alive ==
    {<<"ptr", c>> : c \in DOMAIN ptr} \cup {<<"handle", s>> : s \in DOMAIN handle}
      \cup {<<"msg", m>> : m \in DOMAIN msg}

Object(x) == <<IF IsContext(x) THEN "ptr" ELSE "handle", x>>

(* What a step needs alive, constructs and destroys.                         *)
Needs(e) ==
    CASE e.do = "new_socket" -> {<<"ptr", e.y>>}
      [] e.do \in {"set", "bind", "connect"} -> {<<"handle", e.x>>}
      [] e.do = "move" -> {<<IF IsContext(e.x) THEN "ptr" ELSE "handle", e.y>>}
      [] e.do = "destroy" -> {Object(e.x)}
      [] e.do = "poll_item" -> {<<"handle", e.y>>}
      [] e.do \in {"recv", "send"} -> {<<"handle", e.x>>, <<"msg", e.y>>}
      [] e.do \in {"read", "destroy_message"} -> {<<"msg", e.x>>}
      [] OTHER -> {}

Makes(e) ==
    CASE e.do = "new_context" -> {<<"ptr", e.x>>}
      [] e.do = "new_socket" -> {<<"handle", e.x>>}
      [] e.do = "move" -> {Object(e.x)}
      [] e.do \in {"message", "message_from"} -> {<<"msg", e.x>>}
      [] OTHER -> {}

Ends(e) ==
    CASE e.do = "destroy" -> {Object(e.x)}
      [] e.do = "destroy_message" -> {<<"msg", e.x>>}
      [] OTHER -> {}

(* A step that fits where A is alive leaves B alive, ...                     *)
Advances(e, A, B) ==
    /\ Needs(e) \subseteq A
    /\ Makes(e) \cap A = {}
    /\ B = (A \ Ends(e)) \cup Makes(e)

(* ... and a script does so step by step.                                    *)
Path(s, A, B, path) ==
    /\ path[1] = A
    /\ path[Len(s) + 1] = B
    /\ \A i \in 1..Len(s) : Advances(s[i], path[i], path[i + 1])

Runs(s, A, B) == (\E S : s \in Seq(S)) /\ \E path : Path(s, A, B, path)

LEMMA RunsEmpty ==
    ASSUME NEW A
    PROVE  Runs(<<>>, A, A)
  <1>1. <<>> \in Seq({}) /\ Len(<<>>) = 0
    OBVIOUS
  <1>2. Path(<<>>, A, A, [i \in {1} |-> A])
    BY <1>1 DEF Path
  <1> QED
    BY <1>1, <1>2 DEF Runs

LEMMA RunsNothing ==
    ASSUME NEW A, NEW B, Runs(<<>>, A, B)
    PROVE  A = B
  BY DEF Runs, Path

(* The first step of a script, and the rest of it.                           *)
LEMMA RunsFirst ==
    ASSUME NEW s, s # <<>>, NEW A, NEW C, Runs(s, A, C)
    PROVE  \E B : Advances(Head(s), A, B) /\ Runs(Tail(s), B, C)
  <1>1. PICK S : s \in Seq(S)
    BY DEF Runs
  <1>2. PICK path : Path(s, A, C, path)
    BY DEF Runs
  <1>3. /\ Len(s) \in Nat \ {0} /\ Head(s) = s[1]
        /\ Tail(s) \in Seq(S) /\ Len(Tail(s)) = Len(s) - 1
        /\ \A i \in 1..Len(Tail(s)) : Tail(s)[i] = s[i + 1]
    BY <1>1
  <1>4. PICK t : t = Tail(s)
    OBVIOUS
  <1> DEFINE rest == [i \in 1..Len(s) |-> path[i + 1]]
  <1>5. Advances(Head(s), A, path[2])
    <2>1. Advances(s[1], path[1], path[1 + 1])
      BY <1>2, <1>3 DEF Path
    <2> QED
      BY <1>2, <1>3, <2>1 DEF Path
  <1>6. rest[1] = path[2] /\ rest[Len(t) + 1] = C
    BY <1>2, <1>3, <1>4 DEF Path
  <1>7. ASSUME NEW i \in 1..Len(t) PROVE Advances(t[i], rest[i], rest[i + 1])
    <2>1. i + 1 \in 1..Len(s) /\ t[i] = s[i + 1] /\ rest[i] = path[i + 1]
      BY <1>3, <1>4
    <2>2. rest[i + 1] = path[(i + 1) + 1]
      BY <1>3, <1>4
    <2> QED
      BY <1>2, <2>1, <2>2 DEF Path
  <1>8. Path(t, path[2], C, rest)
    <2> HIDE DEF rest
    <2> QED
      BY <1>6, <1>7 DEF Path
  <1>9. Runs(t, path[2], C)
    BY <1>3, <1>4, <1>8 DEF Runs
  <1> QED
    BY <1>4, <1>5, <1>9

(* One script after another.                                                 *)
LEMMA RunsConcat ==
    ASSUME NEW s, NEW t, NEW A, NEW B, NEW C, Runs(s, A, B), Runs(t, B, C)
    PROVE  Runs(s \o t, A, C)
  <1>1. PICK S : s \in Seq(S)
    BY DEF Runs
  <1>2. PICK T : t \in Seq(T)
    BY DEF Runs
  <1>3. PICK U : U = S \cup T
    OBVIOUS
  <1>4. s \in Seq(U) /\ t \in Seq(U)
    BY <1>1, <1>2, <1>3
  <1>5. PICK u : u = s \o t
    OBVIOUS
  <1>6. /\ u \in Seq(U) /\ Len(s) \in Nat /\ Len(t) \in Nat /\ Len(u) = Len(s) + Len(t)
        /\ \A i \in 1..Len(s) : u[i] = s[i]
        /\ \A i \in 1..Len(t) : u[Len(s) + i] = t[i]
    BY <1>4, <1>5
  <1>7. PICK first : Path(s, A, B, first)
    BY DEF Runs
  <1>8. PICK second : Path(t, B, C, second)
    BY DEF Runs
  <1> DEFINE path == [i \in 1..(Len(u) + 1) |->
                         IF i <= Len(s) THEN first[i] ELSE second[i - Len(s)]]
  <1>9. path[1] = A /\ path[Len(u) + 1] = C
    <2>1. path[1] = IF 1 <= Len(s) THEN first[1] ELSE second[1 - Len(s)]
      BY <1>6
    <2>2. Len(s) = 0 => A = B /\ second[1 - Len(s)] = B
      BY <1>7, <1>8 DEF Path
    <2>3. path[Len(u) + 1] = second[Len(t) + 1]
      BY <1>6
    <2> QED
      BY <1>6, <1>7, <1>8, <2>1, <2>2, <2>3 DEF Path
  <1>10. ASSUME NEW i \in 1..Len(u) PROVE Advances(u[i], path[i], path[i + 1])
    <2>1. CASE i < Len(s)
      <3>1. u[i] = s[i] /\ path[i] = first[i] /\ path[i + 1] = first[i + 1] /\ i \in 1..Len(s)
        BY <1>6, <2>1
      <3> QED
        BY <1>7, <3>1 DEF Path
    <2>2. CASE i = Len(s)
      <3>1. u[i] = s[i] /\ path[i] = first[i] /\ path[i + 1] = second[1] /\ i \in 1..Len(s)
        BY <1>6, <2>2
      <3>2. second[1] = first[i + 1]
        BY <1>7, <1>8, <2>2 DEF Path
      <3> QED
        BY <1>7, <3>1, <3>2 DEF Path
    <2>3. CASE i > Len(s)
      <3>1. PICK k \in 1..Len(t) : i = Len(s) + k
        <4>1. i - Len(s) \in 1..Len(t) /\ i = Len(s) + (i - Len(s))
          BY <1>6, <2>3
        <4> QED
          BY <4>1
      <3>2. u[i] = t[k] /\ path[i] = second[k] /\ path[i + 1] = second[k + 1]
        BY <1>6, <3>1
      <3> QED
        BY <1>8, <3>2 DEF Path
    <2> QED
      BY <1>6, <2>1, <2>2, <2>3
  <1>11. Path(u, A, C, path)
    <2> HIDE DEF path
    <2> QED
      BY <1>9, <1>10 DEF Path
  <1>12. Runs(u, A, C)
    BY <1>6, <1>11 DEF Runs
  <1> QED
    BY <1>5, <1>12

(* Steps that construct and destroy nothing, ...                             *)
Uses1(e, A) == Needs(e) \subseteq A /\ Makes(e) = {} /\ Ends(e) = {}

LEMMA RunsIdle ==
    ASSUME NEW S, NEW s \in Seq(S), NEW A, \A i \in 1..Len(s) : Uses1(s[i], A)
    PROVE  Runs(s, A, A)
  <1> DEFINE path == [i \in 1..(Len(s) + 1) |-> A]
  <1>1. Len(s) \in Nat
    OBVIOUS
  <1>2. path[1] = A /\ path[Len(s) + 1] = A
    BY <1>1
  <1>3. \A i \in 1..Len(s) : path[i] = A /\ path[i + 1] = A
    BY <1>1
  <1> HIDE DEF path
  <1>4. \A i \in 1..Len(s) : Advances(s[i], path[i], path[i + 1])
    BY <1>3 DEF Advances, Uses1
  <1> QED
    BY <1>2, <1>4 DEF Path, Runs

(* ... and a single step.                                                    *)
LEMMA RunsOne ==
    ASSUME NEW e, NEW A, NEW B, Advances(e, A, B)
    PROVE  Runs(<<e>>, A, B)
  <1>1. PICK s : s = <<e>>
    OBVIOUS
  <1>2. s \in Seq({e}) /\ Len(s) = 1 /\ s[1] = e
    BY <1>1
  <1> DEFINE path == <<A, B>>
  <1>3. path[1] = A /\ path[2] = B
    OBVIOUS
  <1> HIDE DEF path
  <1>4. Path(s, A, B, path)
    BY <1>2, <1>3 DEF Path
  <1> QED
    BY <1>1, <1>2, <1>4 DEF Runs

-----------------------------------------------------------------------------
(* The objects of a scope with the given names.                              *)
Objects(scope, names) == {Object(<<scope, names[i]>>) : i \in DOMAIN names}

Distinct(names) ==
    /\ \E S : names \in Seq(S)
    /\ \A i, j \in DOMAIN names : names[i] = names[j] => i = j

(* A function on the positions of a sequence is one.                         *)
LEMMA MappedSeq ==
    ASSUME NEW T, NEW names \in Seq(T), NEW s, NEW S, s \in [DOMAIN names -> S]
    PROVE  s \in Seq(S) /\ Len(s) = Len(names)
  <1>1. Len(names) \in Nat /\ DOMAIN names = 1..Len(names)
    OBVIOUS
  <1> QED
    BY <1>1

LEMMA ObjectKind ==
    ASSUME NEW scope, NEW other, NEW name, NEW another
    PROVE  /\ Object(<<scope, name>>) = Object(<<other, another>>) => scope = other /\ name = another
           /\ Object(<<scope, name>>)
                = <<IF IsContext(<<other, name>>) THEN "ptr" ELSE "handle", <<scope, name>>>>
  BY DEF Object, IsContext

(* The first values of f.                                                    *)
Before(f, i) == {f[j] : j \in 1..(i - 1)}

Injective(f, n) == \A j, k \in 1..n : f[j] = f[k] => j = k

LEMMA BeforeNext ==
    ASSUME NEW f, NEW n \in Nat
    PROVE  /\ Before(f, 1) = {}
           /\ Before(f, n + 1) = {f[j] : j \in 1..n}
           /\ \A i \in 1..n : Before(f, i + 1) = Before(f, i) \cup {f[i]}
           /\ \A i \in 1..n : Injective(f, n) => f[i] \notin Before(f, i)
  <1>1. Before(f, 1) = {}
    BY DEF Before
  <1>2. (n + 1) - 1 = n
    OBVIOUS
  <1>3. Before(f, n + 1) = {f[j] : j \in 1..n}
    BY <1>2 DEF Before
  <1>4. ASSUME NEW i \in 1..n PROVE Before(f, i + 1) = Before(f, i) \cup {f[i]}
    <2>1. 1..((i + 1) - 1) = (1..(i - 1)) \cup {i}
      OBVIOUS
    <2>2. PICK T : T = 1..(i - 1)
      OBVIOUS
    <2>3. Before(f, i) = {f[j] : j \in T} /\ Before(f, i + 1) = {f[j] : j \in T \cup {i}}
      BY <2>1, <2>2 DEF Before
    <2> QED
      BY <2>3
  <1>5. ASSUME NEW i \in 1..n, Injective(f, n)
        PROVE  f[i] \notin Before(f, i)
    <2>1. \A j \in 1..(i - 1) : j \in 1..n /\ j # i
      OBVIOUS
    <2> QED
      BY <1>5, <2>1 DEF Before, Injective
  <1> QED
    BY <1>1, <1>3, <1>4, <1>5

MakesOne(e, x, A) == Needs(e) \subseteq A /\ x \notin A /\ Makes(e) = {x} /\ Ends(e) = {}

EndsOne(e, x, A) == Needs(e) = {x} /\ x \in A /\ Makes(e) = {} /\ Ends(e) = {x}

(* A script that constructs the objects f[1], f[2], ..., and one that        *)
(* destroys them.                                                            *)
LEMMA RunsMaking ==
    ASSUME NEW S, NEW s \in Seq(S), NEW A, NEW f,
           Injective(f, Len(s)), \A i \in 1..Len(s) : MakesOne(s[i], f[i], A)
    PROVE  Runs(s, A, A \cup {f[j] : j \in 1..Len(s)})
  <1> DEFINE n == Len(s)
             path == [i \in 1..(n + 1) |-> A \cup Before(f, i)]
  <1>1. n \in Nat
    OBVIOUS
  <1>2. \A i \in 1..n : path[i] = A \cup Before(f, i) /\ path[i + 1] = A \cup Before(f, i + 1)
    BY <1>1
  <1>3. path[1] = A \cup Before(f, 1) /\ path[n + 1] = A \cup Before(f, n + 1)
    BY <1>1
  <1> HIDE DEF path
  <1>4. path[1] = A /\ path[n + 1] = A \cup {f[j] : j \in 1..n}
    BY <1>1, <1>3, BeforeNext
  <1>5. ASSUME NEW i \in 1..n PROVE Advances(s[i], path[i], path[i + 1])
    <2>1. Before(f, i + 1) = Before(f, i) \cup {f[i]} /\ f[i] \notin Before(f, i)
      BY <1>1, BeforeNext
    <2>2. path[i] = A \cup Before(f, i) /\ path[i + 1] = A \cup Before(f, i + 1)
      BY <1>2
    <2>3. MakesOne(s[i], f[i], A)
      OBVIOUS
    <2> HIDE DEF n
    <2> QED
      BY <2>1, <2>2, <2>3 DEF Advances, MakesOne
  <1>6. Path(s, A, A \cup {f[j] : j \in 1..n}, path)
    BY <1>4, <1>5 DEF Path
  <1> QED
    BY <1>6 DEF Runs

LEMMA RunsEnding ==
    ASSUME NEW S, NEW s \in Seq(S), NEW A, NEW f,
           Injective(f, Len(s)), \A i \in 1..Len(s) : EndsOne(s[i], f[i], A)
    PROVE  Runs(s, A, A \ {f[j] : j \in 1..Len(s)})
  <1> DEFINE n == Len(s)
             path == [i \in 1..(n + 1) |-> A \ Before(f, i)]
  <1>1. n \in Nat
    OBVIOUS
  <1>2. \A i \in 1..n : path[i] = A \ Before(f, i) /\ path[i + 1] = A \ Before(f, i + 1)
    BY <1>1
  <1>3. path[1] = A \ Before(f, 1) /\ path[n + 1] = A \ Before(f, n + 1)
    BY <1>1
  <1> HIDE DEF path
  <1>4. path[1] = A /\ path[n + 1] = A \ {f[j] : j \in 1..n}
    BY <1>1, <1>3, BeforeNext
  <1>5. ASSUME NEW i \in 1..n PROVE Advances(s[i], path[i], path[i + 1])
    <2>1. Before(f, i + 1) = Before(f, i) \cup {f[i]} /\ f[i] \notin Before(f, i)
      BY <1>1, BeforeNext
    <2>2. path[i] = A \ Before(f, i) /\ path[i + 1] = A \ Before(f, i + 1)
      BY <1>2
    <2>3. EndsOne(s[i], f[i], A)
      OBVIOUS
    <2> HIDE DEF n
    <2> QED
      BY <2>1, <2>2, <2>3 DEF Advances, EndsOne
  <1>6. Path(s, A, A \ {f[j] : j \in 1..n}, path)
    BY <1>4, <1>5 DEF Path
  <1> QED
    BY <1>6 DEF Runs

(* Objects are moved one by one into new ones of the same names.             *)
LEMMA MoveAllRuns ==
    ASSUME NEW from, NEW to, NEW names, Distinct(names), NEW A,
           Objects(from, names) \subseteq A, Objects(to, names) \cap A = {}
    PROVE  Runs(MoveAll(from, to, names), A, A \cup Objects(to, names))
  <1>0. PICK T : names \in Seq(T)
    BY DEF Distinct
  <1>1. Len(names) \in Nat /\ DOMAIN names = 1..Len(names)
    BY <1>0
  <1>2. PICK s : s = MoveAll(from, to, names)
    OBVIOUS
  <1>3. /\ DOMAIN s = DOMAIN names
        /\ \A i \in DOMAIN names : s[i] = Step("move", <<to, names[i]>>, <<from, names[i]>>)
    BY <1>2 DEF MoveAll
  <1>4. PICK S : S = {s[i] : i \in DOMAIN names}
    OBVIOUS
  <1>5. s \in [DOMAIN names -> S]
    BY <1>2, <1>3, <1>4 DEF MoveAll
  <1>6. s \in Seq(S) /\ Len(s) = Len(names)
    BY <1>0, <1>5, MappedSeq
  <1>7. PICK f : f = [i \in DOMAIN names |-> Object(<<to, names[i]>>)]
    OBVIOUS
  <1>8. Injective(f, Len(s))
    <2>1. \A j \in 1..Len(s) : j \in DOMAIN names /\ f[j] = Object(<<to, names[j]>>)
      BY <1>1, <1>6, <1>7
    <2>2. ASSUME NEW j \in 1..Len(s), NEW k \in 1..Len(s), f[j] = f[k]
          PROVE  names[j] = names[k]
      <3>1. Object(<<to, names[j]>>) = Object(<<to, names[k]>>)
        BY <2>1, <2>2
      <3> QED
        BY <3>1 DEF Object
    <2> QED
      BY <2>1, <2>2 DEF Distinct, Injective
  <1>9. ASSUME NEW i \in 1..Len(s)
        PROVE  MakesOne(s[i], f[i], A)
    <2>1. i \in DOMAIN names /\ f[i] = Object(<<to, names[i]>>)
      BY <1>1, <1>6, <1>7
    <2>2. f[i] \notin A /\ Object(<<from, names[i]>>) \in A
      BY <2>1 DEF Objects
    <2>3. PICK e : e = s[i]
      OBVIOUS
    <2>4. e.do = "move" /\ e.x = <<to, names[i]>> /\ e.y = <<from, names[i]>>
      BY <1>3, <2>1, <2>3 DEF Step
    <2>5. Needs(e) = {Object(<<from, names[i]>>)}
      BY <2>4, ObjectKind DEF Needs
    <2>6. Makes(e) = {f[i]} /\ Ends(e) = {}
      BY <2>1, <2>4 DEF Makes, Ends
    <2> QED
      BY <2>2, <2>3, <2>5, <2>6 DEF MakesOne
  <1>10. Runs(s, A, A \cup {f[j] : j \in 1..Len(s)})
    BY <1>6, <1>8, <1>9, RunsMaking
  <1>11. {f[j] : j \in 1..Len(s)} = Objects(to, names)
    BY <1>1, <1>6, <1>7 DEF Objects
  <1> QED
    BY <1>2, <1>10, <1>11

(* They are destroyed in the reverse order of their names.                   *)
LEMMA DestroyAllRuns ==
    ASSUME NEW scope, NEW names, Distinct(names), NEW A, Objects(scope, names) \subseteq A
    PROVE  Runs(DestroyAll(scope, names), A, A \ Objects(scope, names))
  <1>0. PICK T : names \in Seq(T)
    BY DEF Distinct
  <1>1. Len(names) \in Nat /\ DOMAIN names = 1..Len(names)
    BY <1>0
  <1>2. PICK s : s = DestroyAll(scope, names)
    OBVIOUS
  <1>3. PICK name : name = [i \in DOMAIN names |-> names[Len(names) + 1 - i]]
    OBVIOUS
  <1>4. /\ \A i \in 1..Len(names) : \E k \in DOMAIN names : name[i] = names[k]
        /\ \A k \in DOMAIN names : \E i \in 1..Len(names) : name[i] = names[k]
        /\ \A i, j \in 1..Len(names) : name[i] = name[j] => i = j
    <2>1. ASSUME NEW i \in 1..Len(names)
          PROVE  /\ Len(names) + 1 - i \in DOMAIN names
                 /\ name[i] = names[Len(names) + 1 - i]
                 /\ name[Len(names) + 1 - i] = names[i]
      BY <1>1, <1>3
    <2>2. \A i, j \in 1..Len(names) : Len(names) + 1 - i = Len(names) + 1 - j => i = j
      BY <1>1
    <2>3. \A i, j \in DOMAIN names : names[i] = names[j] => i = j
      BY DEF Distinct
    <2>4. \A i, j \in 1..Len(names) : name[i] = name[j] => i = j
      BY <2>1, <2>2, <2>3
    <2> QED
      BY <1>1, <2>1, <2>4
  <1>5. /\ DOMAIN s = DOMAIN names
        /\ \A i \in DOMAIN names : s[i] = Step("destroy", <<scope, name[i]>>, "none")
    BY <1>2, <1>3 DEF DestroyAll
  <1>6. PICK S : S = {s[i] : i \in DOMAIN names}
    OBVIOUS
  <1>7. s \in [DOMAIN names -> S]
    BY <1>2, <1>5, <1>6 DEF DestroyAll
  <1>8. s \in Seq(S) /\ Len(s) = Len(names)
    BY <1>0, <1>7, MappedSeq
  <1>9. PICK f : f = [i \in DOMAIN names |-> Object(<<scope, name[i]>>)]
    OBVIOUS
  <1>10. Injective(f, Len(s))
    <2>1. \A j \in 1..Len(s) : f[j] = Object(<<scope, name[j]>>)
      BY <1>1, <1>8, <1>9
    <2>2. ASSUME NEW j \in 1..Len(s), NEW k \in 1..Len(s), f[j] = f[k]
          PROVE  name[j] = name[k]
      <3>1. Object(<<scope, name[j]>>) = Object(<<scope, name[k]>>)
        BY <2>1, <2>2
      <3> QED
        BY <3>1 DEF Object
    <2> QED
      BY <1>4, <1>8, <2>2 DEF Injective
  <1>11. ASSUME NEW i \in 1..Len(s)
         PROVE  EndsOne(s[i], f[i], A)
    <2>1. i \in DOMAIN names /\ f[i] = Object(<<scope, name[i]>>)
      BY <1>1, <1>8, <1>9
    <2>2. f[i] \in A
      BY <1>1, <1>4, <2>1 DEF Objects
    <2>3. PICK e : e = s[i]
      OBVIOUS
    <2>4. e.do = "destroy" /\ e.x = <<scope, name[i]>>
      BY <1>5, <2>1, <2>3 DEF Step
    <2>5. Needs(e) = {f[i]} /\ Makes(e) = {} /\ Ends(e) = {f[i]}
      BY <2>1, <2>4 DEF Needs, Makes, Ends
    <2> QED
      BY <2>2, <2>3, <2>5 DEF EndsOne
  <1>12. Runs(s, A, A \ {f[j] : j \in 1..Len(s)})
    BY <1>8, <1>10, <1>11, RunsEnding
  <1>13. {f[j] : j \in 1..Len(s)} = Objects(scope, names)
    <2>1. ASSUME NEW j \in 1..Len(s) PROVE f[j] \in Objects(scope, names)
      <3>1. f[j] = Object(<<scope, name[j]>>)
        BY <1>1, <1>8, <1>9
      <3>2. PICK k \in DOMAIN names : name[j] = names[k]
        BY <1>4, <1>8
      <3> QED
        BY <3>1, <3>2 DEF Objects
    <2>2. \A k \in DOMAIN names : \E j \in 1..Len(s) : f[j] = Object(<<scope, names[k]>>)
      BY <1>1, <1>4, <1>8, <1>9
    <2> QED
      BY <2>1, <2>2 DEF Objects
  <1> QED
    BY <1>2, <1>12, <1>13

(* Short scripts.                                                            *)
LEMMA RunsThree ==
    ASSUME NEW e1, NEW e2, NEW e3, NEW A0, NEW A1, NEW A2, NEW A3,
           Advances(e1, A0, A1), Advances(e2, A1, A2), Advances(e3, A2, A3)
    PROVE  Runs(<<e1, e2, e3>>, A0, A3)
  <1>1. PICK s : s = <<e1, e2, e3>>
    OBVIOUS
  <1>2. s \in Seq({e1, e2, e3}) /\ Len(s) = 3 /\ s[1] = e1 /\ s[2] = e2 /\ s[3] = e3
    BY <1>1
  <1> DEFINE path == <<A0, A1, A2, A3>>
  <1>3. path[1] = A0 /\ path[2] = A1 /\ path[3] = A2 /\ path[4] = A3
    OBVIOUS
  <1> HIDE DEF path
  <1>4. \A i \in 1..3 : Advances(s[i], path[i], path[i + 1])
    BY <1>2, <1>3
  <1>5. Path(s, A0, A3, path)
    BY <1>2, <1>3, <1>4 DEF Path
  <1> QED
    BY <1>1, <1>2, <1>5 DEF Runs

LEMMA RunsFour ==
    ASSUME NEW e1, NEW e2, NEW e3, NEW e4, NEW A0, NEW A1, NEW A2, NEW A3, NEW A4,
           Advances(e1, A0, A1), Advances(e2, A1, A2), Advances(e3, A2, A3), Advances(e4, A3, A4)
    PROVE  Runs(<<e1, e2, e3, e4>>, A0, A4)
  <1>1. PICK s : s = <<e1, e2, e3, e4>>
    OBVIOUS
  <1>2. s \in Seq({e1, e2, e3, e4}) /\ Len(s) = 4 /\ s[1] = e1 /\ s[2] = e2 /\ s[3] = e3 /\ s[4] = e4
    BY <1>1
  <1> DEFINE path == <<A0, A1, A2, A3, A4>>
  <1>3. path[1] = A0 /\ path[2] = A1 /\ path[3] = A2 /\ path[4] = A3 /\ path[5] = A4
    OBVIOUS
  <1> HIDE DEF path
  <1>4. \A i \in 1..4 : Advances(s[i], path[i], path[i + 1])
    BY <1>2, <1>3
  <1>5. Path(s, A0, A4, path)
    BY <1>2, <1>3, <1>4 DEF Path
  <1> QED
    BY <1>1, <1>2, <1>5 DEF Runs

LEMMA RunsFive ==
    ASSUME NEW e1, NEW e2, NEW e3, NEW e4, NEW e5,
           NEW A0, NEW A1, NEW A2, NEW A3, NEW A4, NEW A5,
           Advances(e1, A0, A1), Advances(e2, A1, A2), Advances(e3, A2, A3),
           Advances(e4, A3, A4), Advances(e5, A4, A5)
    PROVE  Runs(<<e1, e2, e3, e4, e5>>, A0, A5)
  <1>1. PICK s : s = <<e1, e2, e3, e4, e5>>
    OBVIOUS
  <1>2. /\ s \in Seq({e1, e2, e3, e4, e5}) /\ Len(s) = 5
        /\ s[1] = e1 /\ s[2] = e2 /\ s[3] = e3 /\ s[4] = e4 /\ s[5] = e5
    BY <1>1
  <1> DEFINE path == <<A0, A1, A2, A3, A4, A5>>
  <1>3. /\ path[1] = A0 /\ path[2] = A1 /\ path[3] = A2
        /\ path[4] = A3 /\ path[5] = A4 /\ path[6] = A5
    OBVIOUS
  <1> HIDE DEF path
  <1>4. \A i \in 1..5 : Advances(s[i], path[i], path[i + 1])
    BY <1>2, <1>3
  <1>5. Path(s, A0, A5, path)
    BY <1>2, <1>3, <1>4 DEF Path
  <1> QED
    BY <1>1, <1>2, <1>5 DEF Runs

-----------------------------------------------------------------------------
(* The steps of the scripts.                                                 *)
Context(scope) == <<"ptr", <<scope, "context">>>>

Socket(scope, name) == <<"handle", <<scope, name>>>>

LEMMA NewContextAdvances == Advances(NewContext, {}, {Context("local")})
  <1>1. NewContext.do = "new_context" /\ NewContext.x = <<"local", "context">>
    BY DEF NewContext, Step
  <1>2. Needs(NewContext) = {} /\ Ends(NewContext) = {} /\ Makes(NewContext) = {Context("local")}
    BY <1>1 DEF Needs, Makes, Ends, Context
  <1> QED
    BY <1>2 DEF Advances

LEMMA NewSocketAdvances ==
    ASSUME NEW A, NEW name, Context("local") \in A, Socket("local", name) \notin A
    PROVE  Advances(NewSocket(name), A, A \cup {Socket("local", name)})
  <1>1. PICK e : e = NewSocket(name)
    OBVIOUS
  <1>2. e.do = "new_socket" /\ e.x = <<"local", name>> /\ e.y = <<"local", "context">>
    BY <1>1 DEF NewSocket, Step
  <1>3. Needs(e) = {Context("local")} /\ Ends(e) = {} /\ Makes(e) = {Socket("local", name)}
    BY <1>2 DEF Needs, Makes, Ends, Context, Socket
  <1> QED
    BY <1>1, <1>3 DEF Advances

LEMMA UsesSocket ==
    ASSUME NEW A, NEW name, NEW e,
           \/ /\ e = BindStep(name) \/ e = ConnectStep(name) \/ \E o : e = SetStep(name, o)
              /\ Socket("local", name) \in A
           \/ \E scope : e = PollItem(scope, name) /\ Socket(scope, name) \in A
    PROVE  Uses1(e, A)
  <1>1. CASE /\ e.do \in {"bind", "connect", "set"} /\ e.x = <<"local", name>>
             /\ Socket("local", name) \in A
    BY <1>1 DEF Uses1, Needs, Makes, Ends, Socket
  <1>2. CASE \E scope : e.do = "poll_item" /\ e.y = <<scope, name>> /\ Socket(scope, name) \in A
    BY <1>2 DEF Uses1, Needs, Makes, Ends, Socket
  <1>3. \/ /\ e.do \in {"bind", "connect", "set"} /\ e.x = <<"local", name>>
           /\ Socket("local", name) \in A
        \/ \E scope : e.do = "poll_item" /\ e.y = <<scope, name>> /\ Socket(scope, name) \in A
    BY DEF BindStep, ConnectStep, SetStep, PollItem, Step
  <1> QED
    BY <1>1, <1>2, <1>3

(* Steps that are not about objects of cppzmq.                               *)
LEMMA UsesNothing ==
    ASSUME NEW A, NEW e,
           e.do \in {"may_throw", "make", "start", "poll", "push_task"}
    PROVE  Uses1(e, A)
  BY DEF Uses1, Needs, Makes, Ends

LEMMA IdleSteps ==
    /\ MayThrow.do = "may_throw" /\ FromMessage.do = "may_throw"
    /\ \A x : Make(x).do = "make" /\ Start(x).do = "start"
  BY DEF MayThrow, FromMessage, Make, Start, Step

LEMMA UsesAdvances ==
    ASSUME NEW A, NEW e, Uses1(e, A)
    PROVE  Advances(e, A, A)
  BY DEF Uses1, Advances

(* Objects of different scopes, and what the scopes of the processes hold.   *)
LEMMA ScopesApart ==
    ASSUME NEW s, NEW t, s # t, NEW names
    PROVE  Objects(s, names) \cap Objects(t, names) = {}
  <1>1. \A n, m : Object(<<s, n>>) # Object(<<t, m>>)
    BY DEF Object
  <1> QED
    BY <1>1 DEF Objects

LEMMA MemberObjects ==
    ASSUME NEW scope
    PROVE  /\ Objects(scope, BrokerMembers)
                = {Context(scope), Socket(scope, "manager_connection"),
                   Socket(scope, "worker_pub"), Socket(scope, "worker_router")}
           /\ Objects(scope, WorkerMembers)
                = {Context(scope), Socket(scope, "subscriber"), Socket(scope, "dealer")}
           /\ Objects(scope, ConnectionMembers)
                = {Context(scope), Socket(scope, "broker_connection")}
  <1>1. Objects(scope, BrokerMembers)
          = {Object(<<scope, "context">>), Object(<<scope, "manager_connection">>),
             Object(<<scope, "worker_pub">>), Object(<<scope, "worker_router">>)}
    BY DEF Objects, BrokerMembers
  <1>2. Objects(scope, WorkerMembers)
          = {Object(<<scope, "context">>), Object(<<scope, "subscriber">>),
             Object(<<scope, "dealer">>)}
    BY DEF Objects, WorkerMembers
  <1>3. Objects(scope, ConnectionMembers)
          = {Object(<<scope, "context">>), Object(<<scope, "broker_connection">>)}
    BY DEF Objects, ConnectionMembers
  <1>4. /\ Object(<<scope, "context">>) = Context(scope)
        /\ \A name : name # "context" => Object(<<scope, name>>) = Socket(scope, name)
    BY DEF Object, IsContext, Context, Socket
  <1> QED
    BY <1>1, <1>2, <1>3, <1>4

LEMMA MembersDistinct ==
    Distinct(BrokerMembers) /\ Distinct(WorkerMembers) /\ Distinct(ConnectionMembers)
  <1>1. Distinct(BrokerMembers)
    <2>1. PICK n : n = BrokerMembers
      OBVIOUS
    <2>2. /\ DOMAIN n = 1..4 /\ n[1] = "context"
          /\ n[2] = "manager_connection" /\ n[3] = "worker_pub" /\ n[4] = "worker_router"
      BY <2>1 DEF BrokerMembers
    <2>3. \E S : n \in Seq(S)
      <3>1. n \in Seq({"context", "manager_connection", "worker_pub", "worker_router"})
        BY <2>1 DEF BrokerMembers
      <3> QED
        BY <3>1
    <2>4. \A i, j \in DOMAIN n : n[i] = n[j] => i = j
      BY <2>2
    <2> QED
      BY <2>1, <2>3, <2>4 DEF Distinct
  <1>2. Distinct(WorkerMembers)
    <2>1. PICK n : n = WorkerMembers
      OBVIOUS
    <2>2. DOMAIN n = 1..3 /\ n[1] = "context" /\ n[2] = "subscriber" /\ n[3] = "dealer"
      BY <2>1 DEF WorkerMembers
    <2>3. \E S : n \in Seq(S)
      <3>1. n \in Seq({"context", "subscriber", "dealer"})
        BY <2>1 DEF WorkerMembers
      <3> QED
        BY <3>1
    <2>4. \A i, j \in DOMAIN n : n[i] = n[j] => i = j
      BY <2>2
    <2> QED
      BY <2>1, <2>3, <2>4 DEF Distinct
  <1>3. Distinct(ConnectionMembers)
    <2>1. PICK n : n = ConnectionMembers
      OBVIOUS
    <2>2. DOMAIN n = 1..2 /\ n[1] = "context" /\ n[2] = "broker_connection"
      BY <2>1 DEF ConnectionMembers
    <2>3. \E S : n \in Seq(S)
      <3>1. n \in Seq({"context", "broker_connection"})
        BY <2>1 DEF ConnectionMembers
      <3> QED
        BY <3>1
    <2>4. \A i, j \in DOMAIN n : n[i] = n[j] => i = j
      BY <2>2
    <2> QED
      BY <2>1, <2>3, <2>4 DEF Distinct
  <1> QED
    BY <1>1, <1>2, <1>3

LEMMA SocketsApart ==
    ASSUME NEW scope, NEW name, NEW other
    PROVE  /\ Socket(scope, name) = Socket(scope, other) => name = other
           /\ Socket(scope, name) # Context(scope)
  BY DEF Socket, Context

LEMMA FreeSteps ==
    ASSUME NEW A
    PROVE  /\ Advances(MayThrow, A, A) /\ Advances(FromMessage, A, A)
           /\ \A x : Advances(Make(x), A, A) /\ Advances(Start(x), A, A)
  BY IdleSteps, UsesNothing, UsesAdvances

LEMMA SocketSteps ==
    ASSUME NEW A, NEW name, Socket("local", name) \in A
    PROVE  /\ Advances(BindStep(name), A, A) /\ Advances(ConnectStep(name), A, A)
           /\ \A o : Advances(SetStep(name, o), A, A)
  BY UsesSocket, UsesAdvances

LEMMA PollItemStep ==
    ASSUME NEW A, NEW scope, NEW name, Socket(scope, name) \in A
    PROVE  Advances(PollItem(scope, name), A, A)
  BY UsesSocket, UsesAdvances

-----------------------------------------------------------------------------
(* New() of the broker, the worker and the manager's connection.             *)
LEMMA BrokerNewRuns == Runs(BrokerNew, {}, Objects("local", BrokerMembers))
  <1> DEFINE c == Context("local")
             m == Socket("local", "manager_connection")
             p == Socket("local", "worker_pub")
             r == Socket("local", "worker_router")
  <1>1. c # m /\ c # p /\ c # r /\ m # p /\ m # r /\ p # r
    BY SocketsApart
  <1>2. Objects("local", BrokerMembers) = {c, m, p, r}
    BY MemberObjects
  <1> HIDE DEF c, m, p, r
  <1>3. /\ Advances(NewSocket("manager_connection"), {c}, {c} \cup {m})
        /\ Advances(NewSocket("worker_pub"), {c, m}, {c, m} \cup {p})
        /\ Advances(NewSocket("worker_router"), {c, m, p}, {c, m, p} \cup {r})
    BY <1>1, NewSocketAdvances DEF c, m, p, r
  <1>4. {c} \cup {m} = {c, m} /\ {c, m} \cup {p} = {c, m, p} /\ {c, m, p} \cup {r} = {c, m, p, r}
    OBVIOUS
  <1>5. /\ Advances(BindStep("manager_connection"), {c, m}, {c, m})
        /\ Advances(BindStep("worker_pub"), {c, m, p}, {c, m, p})
        /\ Advances(BindStep("worker_router"), {c, m, p, r}, {c, m, p, r})
    <2>1. m \in {c, m} /\ p \in {c, m, p} /\ r \in {c, m, p, r}
      OBVIOUS
    <2> QED
      BY <2>1, SocketSteps DEF m, p, r
  <1>6. Advances(NewContext, {}, {c}) /\ Advances(MayThrow, {c}, {c})
    BY NewContextAdvances, FreeSteps DEF c
  <1>7. Runs(<<NewContext, MayThrow, NewSocket("manager_connection"),
               BindStep("manager_connection")>>, {}, {c, m})
    BY <1>3, <1>4, <1>5, <1>6, RunsFour
  <1>8. Runs(<<NewSocket("worker_pub"), BindStep("worker_pub"), NewSocket("worker_router"),
               BindStep("worker_router")>>, {c, m}, {c, m, p, r})
    BY <1>3, <1>4, <1>5, RunsFour
  <1>9. BrokerNew = <<NewContext, MayThrow, NewSocket("manager_connection"),
                      BindStep("manager_connection")>>
                 \o <<NewSocket("worker_pub"), BindStep("worker_pub"),
                      NewSocket("worker_router"), BindStep("worker_router")>>
    BY DEF BrokerNew
  <1> QED
    BY <1>2, <1>7, <1>8, <1>9, RunsConcat

LEMMA WorkerNewRuns == Runs(WorkerNew, {}, Objects("local", WorkerMembers))
  <1> DEFINE c == Context("local")
             s == Socket("local", "subscriber")
             d == Socket("local", "dealer")
  <1>1. c # s /\ c # d /\ s # d
    BY SocketsApart
  <1>2. Objects("local", WorkerMembers) = {c, s, d}
    BY MemberObjects
  <1> HIDE DEF c, s, d
  <1>3. /\ Advances(NewSocket("subscriber"), {c}, {c} \cup {s})
        /\ Advances(NewSocket("dealer"), {c, s}, {c, s} \cup {d})
    BY <1>1, NewSocketAdvances DEF c, s, d
  <1>4. {c} \cup {s} = {c, s} /\ {c, s} \cup {d} = {c, s, d}
    OBVIOUS
  <1>5. /\ Advances(SetStep("subscriber", "subscribe"), {c, s}, {c, s})
        /\ Advances(ConnectStep("subscriber"), {c, s}, {c, s})
        /\ Advances(SetStep("dealer", "routing_id"), {c, s, d}, {c, s, d})
        /\ Advances(ConnectStep("dealer"), {c, s, d}, {c, s, d})
    <2>1. s \in {c, s} /\ d \in {c, s, d}
      OBVIOUS
    <2> QED
      BY <2>1, SocketSteps DEF s, d
  <1>6. Advances(NewContext, {}, {c}) /\ Advances(MayThrow, {c}, {c})
    BY NewContextAdvances, FreeSteps DEF c
  <1>7. Runs(<<NewContext, MayThrow, NewSocket("subscriber"),
               SetStep("subscriber", "subscribe")>>, {}, {c, s})
    BY <1>3, <1>4, <1>5, <1>6, RunsFour
  <1>8. Runs(<<ConnectStep("subscriber"), NewSocket("dealer"), SetStep("dealer", "routing_id"),
               ConnectStep("dealer")>>, {c, s}, {c, s, d})
    BY <1>3, <1>4, <1>5, RunsFour
  <1>9. WorkerNew = <<NewContext, MayThrow, NewSocket("subscriber"),
                      SetStep("subscriber", "subscribe")>>
                 \o <<ConnectStep("subscriber"), NewSocket("dealer"),
                      SetStep("dealer", "routing_id"), ConnectStep("dealer")>>
    BY DEF WorkerNew
  <1> QED
    BY <1>2, <1>7, <1>8, <1>9, RunsConcat

LEMMA BrokerConnectionNewRuns ==
    Runs(BrokerConnectionNew, {}, Objects("local", ConnectionMembers))
  <1> DEFINE c == Context("local")
             b == Socket("local", "broker_connection")
  <1>1. c # b
    BY SocketsApart
  <1>2. Objects("local", ConnectionMembers) = {c, b}
    BY MemberObjects
  <1> HIDE DEF c, b
  <1>3. Advances(NewSocket("broker_connection"), {c}, {c} \cup {b})
    BY <1>1, NewSocketAdvances DEF c, b
  <1>4. {c} \cup {b} = {c, b} /\ b \in {c, b}
    OBVIOUS
  <1>5. /\ Advances(ConnectStep("broker_connection"), {c, b}, {c, b})
        /\ Advances(NewContext, {}, {c}) /\ Advances(MayThrow, {c, b}, {c, b})
    BY <1>4, SocketSteps, NewContextAdvances, FreeSteps DEF c, b
  <1>6. Runs(<<NewContext, NewSocket("broker_connection"), MayThrow,
               ConnectStep("broker_connection")>>, {}, {c, b})
    BY <1>3, <1>4, <1>5, RunsFour
  <1> QED
    BY <1>2, <1>6 DEF BrokerConnectionNew

-----------------------------------------------------------------------------
(* New() and the constructor: locals are moved to parameters and from there  *)
(* into the object that is built, and destroyed when nothing holds a socket. *)
LEMMA BuildRuns ==
    ASSUME NEW names, Distinct(names), NEW scope, scope \notin {"local", "param"},
           NEW new, Runs(new, {}, Objects("local", names)),
           NEW ctor,
           \A A : Objects("param", names) \subseteq A /\ Objects(scope, names) \cap A = {}
                    => Runs(ctor, A, A \cup Objects(scope, names))
    PROVE  Runs(new \o MoveAll("local", "param", names) \o ctor
                  \o DestroyAll("param", names) \o DestroyAll("local", names),
                {}, Objects(scope, names))
  <1> DEFINE L == Objects("local", names)
             P == Objects("param", names)
             M == Objects(scope, names)
  <1>1. L \cap P = {} /\ L \cap M = {} /\ P \cap M = {}
    BY ScopesApart
  <1> HIDE DEF L, P, M
  <1>2. Runs(new, {}, L)
    BY DEF L
  <1>3. Runs(MoveAll("local", "param", names), L, L \cup P)
    BY <1>1, MoveAllRuns DEF L, P
  <1>4. Runs(ctor, L \cup P, (L \cup P) \cup M)
    <2>1. P \subseteq L \cup P /\ M \cap (L \cup P) = {}
      BY <1>1
    <2> QED
      BY <2>1 DEF P, M
  <1>5. Runs(DestroyAll("param", names), (L \cup P) \cup M, ((L \cup P) \cup M) \ P)
    BY DestroyAllRuns DEF P
  <1>6. Runs(DestroyAll("local", names), ((L \cup P) \cup M) \ P, (((L \cup P) \cup M) \ P) \ L)
    BY <1>1, DestroyAllRuns DEF L
  <1>7. (((L \cup P) \cup M) \ P) \ L = M
    BY <1>1
  <1>8. Runs(new \o MoveAll("local", "param", names), {}, L \cup P)
    BY <1>2, <1>3, RunsConcat
  <1>9. Runs(new \o MoveAll("local", "param", names) \o ctor, {}, (L \cup P) \cup M)
    BY <1>4, <1>8, RunsConcat
  <1>10. Runs(new \o MoveAll("local", "param", names) \o ctor \o DestroyAll("param", names), {},
              ((L \cup P) \cup M) \ P)
    BY <1>5, <1>9, RunsConcat
  <1> QED
    BY <1>6, <1>7, <1>10, RunsConcat DEF M

(* What a process has built when its script is at its end: its members.      *)
LEMMA BrokerRuns == Runs(BrokerStart, {}, Objects("member", BrokerMembers))
  <1> DEFINE M == Objects("member", BrokerMembers)
             first == PollItem("member", "worker_router")
             second == PollItem("member", "manager_connection")
  <1>1. Socket("member", "worker_router") \in M /\ Socket("member", "manager_connection") \in M
    BY MemberObjects
  <1>2. ASSUME NEW A, Objects("param", BrokerMembers) \subseteq A, M \cap A = {}
        PROVE  Runs(BrokerCtor, A, A \cup M)
    <2>1. Runs(MoveAll("param", "member", BrokerMembers), A, A \cup M)
      BY <1>2, MoveAllRuns, MembersDistinct
    <2> HIDE DEF M
    <2>2. Advances(first, A \cup M, A \cup M) /\ Advances(second, A \cup M, A \cup M)
      BY <1>1, PollItemStep
    <2>3. <<first, second>> = <<first>> \o <<second>>
      OBVIOUS
    <2> HIDE DEF first, second
    <2>4. Runs(<<first>>, A \cup M, A \cup M) /\ Runs(<<second>>, A \cup M, A \cup M)
      BY <2>2, RunsOne
    <2>5. Runs(<<first, second>>, A \cup M, A \cup M)
      BY <2>3, <2>4, RunsConcat
    <2> QED
      BY <2>1, <2>5, RunsConcat DEF BrokerCtor, first, second
  <1>3. Runs(BrokerNew \o MoveAll("local", "param", BrokerMembers) \o BrokerCtor
               \o DestroyAll("param", BrokerMembers) \o DestroyAll("local", BrokerMembers), {}, M)
    BY <1>2, BrokerNewRuns, BuildRuns, MembersDistinct
  <1>4. Runs(<<Start("main")>>, M, M)
    BY FreeSteps, RunsOne
  <1> QED
    BY <1>3, <1>4, RunsConcat DEF BrokerStart

LEMMA WorkerRuns == Runs(WorkerStart, {}, Objects("member", WorkerMembers))
  <1> DEFINE M == Objects("member", WorkerMembers)
             item == PollItem("member", "subscriber")
  <1>1. Socket("member", "subscriber") \in M
    BY MemberObjects
  <1>2. ASSUME NEW A, Objects("param", WorkerMembers) \subseteq A, M \cap A = {}
        PROVE  Runs(WorkerCtor, A, A \cup M)
    <2>1. Runs(MoveAll("param", "member", WorkerMembers), A, A \cup M)
      BY <1>2, MoveAllRuns, MembersDistinct
    <2> HIDE DEF M
    <2>2. PICK B : B = A \cup M
      OBVIOUS
    <2>3. Runs(<<MayThrow>>, B, B)
      BY FreeSteps, RunsOne
    <2>4. Runs(ThreadPoolCtor, B, B)
      <3>1. /\ Runs(<<Make("pool_tasks_"), Make("pool_tasks_m_"), Make("condition")>>, B, B)
            /\ Runs(<<MayThrow, Make("db_client_"), Start("pool")>>, B, B)
        BY FreeSteps, RunsThree
      <3>2. ThreadPoolCtor = <<Make("pool_tasks_"), Make("pool_tasks_m_"), Make("condition")>>
                               \o <<MayThrow, Make("db_client_"), Start("pool")>>
        BY DEF ThreadPoolCtor
      <3> QED
        BY <3>1, <3>2, RunsConcat
    <2>5. Advances(item, B, B)
      BY <1>1, <2>2, PollItemStep
    <2> HIDE DEF item
    <2>6. Runs(<<Make("finished_tasks_"), Make("tasks_m_"), item>>, B, B)
      BY <2>5, FreeSteps, RunsThree
    <2>7. Runs(MoveAll("param", "member", WorkerMembers) \o <<MayThrow>>, A, B)
      BY <2>1, <2>2, <2>3, RunsConcat
    <2>8. Runs(MoveAll("param", "member", WorkerMembers) \o <<MayThrow>> \o ThreadPoolCtor, A, B)
      BY <2>4, <2>7, RunsConcat
    <2> QED
      BY <2>2, <2>6, <2>8, RunsConcat DEF WorkerCtor, item
  <1>3. Runs(WorkerNew \o MoveAll("local", "param", WorkerMembers) \o WorkerCtor
               \o DestroyAll("param", WorkerMembers) \o DestroyAll("local", WorkerMembers), {}, M)
    BY <1>2, WorkerNewRuns, BuildRuns, MembersDistinct
  <1>4. Runs(<<Start("main")>>, M, M)
    BY FreeSteps, RunsOne
  <1> QED
    BY <1>3, <1>4, RunsConcat DEF WorkerStart

LEMMA DispatcherCtorRuns ==
    ASSUME NEW A, Objects("requester", ConnectionMembers) \subseteq A,
           Objects("member", ConnectionMembers) \cap A = {}
    PROVE  Runs(DispatcherCtor, A,
                (A \cup Objects("member", ConnectionMembers))
                  \ Objects("requester", ConnectionMembers))
  <1> DEFINE Q == Objects("requester", ConnectionMembers)
             M == Objects("member", ConnectionMembers)
  <1>1. Runs(<<Make("problems_and_m_")>>, A, A)
    BY FreeSteps, RunsOne
  <1>2. Runs(MoveAll("requester", "member", ConnectionMembers), A, A \cup M)
    BY MoveAllRuns, MembersDistinct
  <1>3. Runs(DestroyAll("requester", ConnectionMembers), A \cup M, (A \cup M) \ Q)
    BY DestroyAllRuns, MembersDistinct
  <1> HIDE DEF Q, M
  <1>4. Runs(<<Make("broker_connection_"), MayThrow, Make("db_client_")>>, A \cup M, A \cup M)
    BY FreeSteps, RunsThree
  <1>5. Runs(<<Make("problems_and_m_")>> \o MoveAll("requester", "member", ConnectionMembers),
             A, A \cup M)
    BY <1>1, <1>2, RunsConcat
  <1>6. Runs(<<Make("problems_and_m_")>> \o MoveAll("requester", "member", ConnectionMembers)
               \o <<Make("broker_connection_"), MayThrow, Make("db_client_")>>, A, A \cup M)
    BY <1>4, <1>5, RunsConcat
  <1>7. Runs(DispatcherCtor, A, (A \cup M) \ Q)
    BY <1>3, <1>6, RunsConcat DEF DispatcherCtor
  <1> QED
    BY <1>7 DEF M, Q

LEMMA ManagerRuns == Runs(RunServer, {}, Objects("member", ConnectionMembers))
  <1> DEFINE G == Objects("argument", ConnectionMembers)
             Q == Objects("requester", ConnectionMembers)
             M == Objects("member", ConnectionMembers)
             item == PollItem("argument", "broker_connection")
  <1>1. G \cap Q = {} /\ G \cap M = {} /\ Q \cap M = {}
    BY ScopesApart
  <1>2. Socket("argument", "broker_connection") \in G
    BY MemberObjects
  <1>3. ASSUME NEW A, Objects("param", ConnectionMembers) \subseteq A, G \cap A = {}
        PROVE  Runs(BrokerConnectionCtor, A, A \cup G)
    <2>1. Runs(MoveAll("param", "argument", ConnectionMembers), A, A \cup G)
      BY <1>3, MoveAllRuns, MembersDistinct
    <2> HIDE DEF G
    <2>2. Runs(<<item>>, A \cup G, A \cup G)
      BY <1>2, PollItemStep, RunsOne
    <2> QED
      BY <2>1, <2>2, RunsConcat DEF BrokerConnectionCtor
  <1>4. Runs(BrokerConnectionNew \o MoveAll("local", "param", ConnectionMembers)
               \o BrokerConnectionCtor \o DestroyAll("param", ConnectionMembers)
               \o DestroyAll("local", ConnectionMembers), {}, G)
    BY <1>3, BrokerConnectionNewRuns, BuildRuns, MembersDistinct
  <1>5. Runs(MoveAll("argument", "requester", ConnectionMembers), G, G \cup Q)
    BY <1>1, MoveAllRuns, MembersDistinct
  <1>6. Runs(DispatcherCtor, G \cup Q, ((G \cup Q) \cup M) \ Q)
    <2>1. Q \subseteq G \cup Q /\ M \cap (G \cup Q) = {}
      BY <1>1
    <2> QED
      BY <2>1, DispatcherCtorRuns
  <1>7. Runs(DestroyAll("argument", ConnectionMembers), G \cup M, (G \cup M) \ G)
    BY DestroyAllRuns, MembersDistinct
  <1> HIDE DEF G, Q, M
  <1>8. ((G \cup Q) \cup M) \ Q = G \cup M /\ (G \cup M) \ G = M
    BY <1>1
  <1>9. Runs(<<Start("dispatcher")>>, G \cup M, G \cup M)
    BY FreeSteps, RunsOne
  <1>10. Runs(MoveAll("argument", "requester", ConnectionMembers) \o DispatcherCtor, G, G \cup M)
    BY <1>5, <1>6, <1>8, RunsConcat
  <1>11. Runs(ServiceCtor, G, G \cup M)
    BY <1>9, <1>10, RunsConcat DEF ServiceCtor
  <1>12. Runs(<<Start("grpc"), MayThrow>>, M, M)
    <2>1. Runs(<<Start("grpc")>>, M, M) /\ Runs(<<MayThrow>>, M, M)
      BY FreeSteps, RunsOne
    <2>2. <<Start("grpc"), MayThrow>> = <<Start("grpc")>> \o <<MayThrow>>
      OBVIOUS
    <2> QED
      BY <2>1, <2>2, RunsConcat
  <1>13. Runs(BrokerConnectionNew \o MoveAll("local", "param", ConnectionMembers)
                \o BrokerConnectionCtor \o DestroyAll("param", ConnectionMembers)
                \o DestroyAll("local", ConnectionMembers) \o ServiceCtor, {}, G \cup M)
    BY <1>4, <1>11, RunsConcat
  <1>14. Runs(BrokerConnectionNew \o MoveAll("local", "param", ConnectionMembers)
                \o BrokerConnectionCtor \o DestroyAll("param", ConnectionMembers)
                \o DestroyAll("local", ConnectionMembers) \o ServiceCtor
                \o DestroyAll("argument", ConnectionMembers), {}, M)
    BY <1>7, <1>8, <1>13, RunsConcat
  <1>15. Runs(RunServer, {}, M)
    BY <1>12, <1>14, RunsConcat DEF RunServer
  <1> QED
    BY <1>15 DEF M

LEMMA DatabaseRuns == Runs(RunDatabaseServer, {}, {})
  BY FreeSteps, RunsFour DEF RunDatabaseServer

-----------------------------------------------------------------------------
(* One call in the main loop, between its members and a message of its own.  *)
LEMMA ReceiveRuns ==
    ASSUME NEW name, NEW A, Socket("member", name) \in A, <<"msg", "received">> \notin A
    PROVE  Runs(Receive(name), A, A)
  <1>1. PICK r : r = <<"msg", "received">>
    OBVIOUS
  <1>2. PICK e1, e2, e3, e4, e5 :
          /\ e1 = Step("message", "received", "none")
          /\ e2 = Step("recv", <<"member", name>>, "received")
          /\ e3 = Step("read", "received", "none")
          /\ e4 = FromMessage
          /\ e5 = Step("destroy_message", "received", "none")
    OBVIOUS
  <1>3. e1.do = "message" /\ e1.x = "received"
    BY <1>2 DEF Step
  <1>4. e2.do = "recv" /\ e2.x = <<"member", name>> /\ e2.y = "received"
    BY <1>2 DEF Step
  <1>5. e3.do = "read" /\ e3.x = "received" /\ e5.do = "destroy_message" /\ e5.x = "received"
    BY <1>2 DEF Step
  <1>6. Advances(e1, A, A \cup {r})
    BY <1>1, <1>3 DEF Advances, Needs, Makes, Ends
  <1>7. Advances(e2, A \cup {r}, A \cup {r})
    <2>1. Needs(e2) = {Socket("member", name), r} /\ Makes(e2) = {} /\ Ends(e2) = {}
      BY <1>1, <1>4 DEF Needs, Makes, Ends, Socket
    <2> QED
      BY <2>1 DEF Advances
  <1>8. Advances(e3, A \cup {r}, A \cup {r})
    BY <1>1, <1>5 DEF Advances, Needs, Makes, Ends
  <1>9. Advances(e4, A \cup {r}, A \cup {r})
    BY <1>2, FreeSteps
  <1>10. Advances(e5, A \cup {r}, A)
    BY <1>1, <1>5 DEF Advances, Needs, Makes, Ends
  <1>11. Runs(<<e1, e2, e3, e4, e5>>, A, A)
    BY <1>6, <1>7, <1>8, <1>9, <1>10, RunsFive
  <1> QED
    BY <1>2, <1>11 DEF Receive

LEMMA SendStringRuns ==
    ASSUME NEW name, NEW A, Socket("member", name) \in A, <<"msg", "sent">> \notin A
    PROVE  Runs(SendString(name), A, A)
  <1>1. PICK r : r = <<"msg", "sent">>
    OBVIOUS
  <1>2. PICK e1, e2, e3 :
          /\ e1 = Step("message_from", "sent", "none")
          /\ e2 = Step("send", <<"member", name>>, "sent")
          /\ e3 = Step("destroy_message", "sent", "none")
    OBVIOUS
  <1>3. e1.do = "message_from" /\ e1.x = "sent"
    BY <1>2 DEF Step
  <1>4. e2.do = "send" /\ e2.x = <<"member", name>> /\ e2.y = "sent"
    BY <1>2 DEF Step
  <1>5. e3.do = "destroy_message" /\ e3.x = "sent"
    BY <1>2 DEF Step
  <1>6. Advances(e1, A, A \cup {r})
    BY <1>1, <1>3 DEF Advances, Needs, Makes, Ends
  <1>7. Advances(e2, A \cup {r}, A \cup {r})
    <2>1. Needs(e2) = {Socket("member", name), r} /\ Makes(e2) = {} /\ Ends(e2) = {}
      BY <1>1, <1>4 DEF Needs, Makes, Ends, Socket
    <2> QED
      BY <2>1 DEF Advances
  <1>8. Advances(e3, A \cup {r}, A)
    BY <1>1, <1>5 DEF Advances, Needs, Makes, Ends
  <1>9. Runs(<<e1, e2, e3>>, A, A)
    BY <1>6, <1>7, <1>8, RunsThree
  <1> QED
    BY <1>2, <1>9 DEF SendString

(* The members a process has in its main loop.                               *)
Built(p) ==
    CASE p = "broker" -> Objects("member", BrokerMembers)
      [] p = "worker" -> Objects("member", WorkerMembers)
      [] p = "manager" -> Objects("member", ConnectionMembers)
      [] OTHER -> {}

LEMMA MainRuns ==
    ASSUME NEW p \in Processes
    PROVE  Runs(Main[p], {}, Built(p))
  <1>1. p \in {"broker", "manager", "worker", "database", "any", "monitor"}
    BY StartupAssumption
  <1>2. CASE p = "broker"
    <2>1. Main[p] = BrokerStart /\ Built(p) = Objects("member", BrokerMembers)
      BY <1>2 DEF Main, Built
    <2> QED
      BY <2>1, BrokerRuns
  <1>3. CASE p = "worker"
    <2>1. Main[p] = WorkerStart /\ Built(p) = Objects("member", WorkerMembers)
      BY <1>3 DEF Main, Built
    <2> QED
      BY <2>1, WorkerRuns
  <1>4. CASE p = "manager"
    <2>1. Main[p] = RunServer /\ Built(p) = Objects("member", ConnectionMembers)
      BY <1>4 DEF Main, Built
    <2> QED
      BY <2>1, ManagerRuns
  <1>5. CASE p = "database"
    <2>1. Main[p] = RunDatabaseServer /\ Built(p) = {}
      BY <1>5 DEF Main, Built
    <2> QED
      BY <2>1, DatabaseRuns
  <1>6. CASE p \in {"any", "monitor"}
    <2>1. Main[p] = <<>> /\ Built(p) = {}
      BY <1>6 DEF Main, Built
    <2> QED
      BY <2>1, RunsEmpty
  <1> QED
    BY <1>1, <1>2, <1>3, <1>4, <1>5, <1>6

LEMMA RoundsRun ==
    ASSUME NEW p \in Processes, NEW round \in Rounds[p]
    PROVE  Runs(round, Built(p), Built(p))
  <1>1. \A x : <<"msg", x>> \notin Built(p)
    <2>1. \A names : \A x : <<"msg", x>> \notin Objects("member", names)
      BY DEF Objects, Object
    <2>2. Built(p) = {} \/ \E names : Built(p) = Objects("member", names)
      BY DEF Built
    <2>3. ASSUME NEW names, Built(p) = Objects("member", names)
          PROVE  \A x : <<"msg", x>> \notin Built(p)
      BY <2>1, <2>3, Zenon
    <2>4. ASSUME Built(p) = {} PROVE \A x : <<"msg", x>> \notin Built(p)
      BY <2>4, Zenon
    <2> QED
      BY <2>2, <2>3, <2>4, Zenon
  <1>2. PICK poll : poll = Step("poll", "none", "none")
    OBVIOUS
  <1>3. PICK push : push = Step("push_task", "none", "none")
    OBVIOUS
  <1>4. /\ Advances(poll, Built(p), Built(p)) /\ Advances(push, Built(p), Built(p))
        /\ Runs(<<poll>>, Built(p), Built(p)) /\ Runs(<<push>>, Built(p), Built(p))
    <2>1. poll.do = "poll" /\ push.do = "push_task"
      BY <1>2, <1>3 DEF Step
    <2>2. Advances(poll, Built(p), Built(p)) /\ Advances(push, Built(p), Built(p))
      BY <2>1, UsesNothing, UsesAdvances
    <2> QED
      BY <2>2, RunsOne
  <1>5. CASE p = "broker"
    <2>1. /\ Socket("member", "worker_router") \in Built(p)
          /\ Socket("member", "manager_connection") \in Built(p)
          /\ Socket("member", "worker_pub") \in Built(p)
      BY <1>5, MemberObjects DEF Built
    <2>2. round \in {<<poll>>, Receive("worker_router"), Receive("manager_connection"),
                     SendString("manager_connection"), SendString("worker_pub")}
      BY <1>2, <1>5 DEF Rounds
    <2> QED
      BY <1>1, <1>4, <2>1, <2>2, ReceiveRuns, SendStringRuns
  <1>6. CASE p = "worker"
    <2>1. Socket("member", "subscriber") \in Built(p) /\ Socket("member", "dealer") \in Built(p)
      BY <1>6, MemberObjects DEF Built
    <2>2. round \in {<<poll>>, Receive("subscriber") \o <<push>>, SendString("dealer")}
      BY <1>2, <1>3, <1>6 DEF Rounds
    <2>3. Runs(Receive("subscriber") \o <<push>>, Built(p), Built(p))
      BY <1>1, <1>4, <2>1, ReceiveRuns, RunsConcat
    <2> QED
      BY <1>1, <1>4, <2>1, <2>2, <2>3, SendStringRuns
  <1>7. CASE p = "manager"
    <2>1. Socket("member", "broker_connection") \in Built(p)
      BY <1>7, MemberObjects DEF Built
    <2>2. round \in {<<poll>>, Receive("broker_connection"), SendString("broker_connection")}
      BY <1>2, <1>7 DEF Rounds
    <2> QED
      BY <1>1, <1>4, <2>1, <2>2, ReceiveRuns, SendStringRuns
  <1>8. CASE p \notin {"broker", "worker", "manager"}
    <2>1. round = <<poll>>
      BY <1>2, <1>8 DEF Rounds
    <2> QED
      BY <1>4, <2>1
  <1> QED
    BY <1>5, <1>6, <1>7, <1>8

-----------------------------------------------------------------------------
(* What lives after a call that returns.                                     *)
LEMMA AliveHas ==
    ASSUME NEW x
    PROVE  /\ <<"ptr", x>> \in Alive <=> x \in DOMAIN ptr
           /\ <<"handle", x>> \in Alive <=> x \in DOMAIN handle
           /\ <<"msg", x>> \in Alive <=> x \in DOMAIN msg
  BY DEF Alive

LEMMA AliveSame ==
    ASSUME DOMAIN ptr' = DOMAIN ptr, DOMAIN handle' = DOMAIN handle, DOMAIN msg' = DOMAIN msg
    PROVE  Alive' = Alive
  BY DEF Alive

LEMMA AliveContext ==
    ASSUME DOMAIN handle' = DOMAIN handle, DOMAIN msg' = DOMAIN msg, NEW x
    PROVE  /\ DOMAIN ptr' = DOMAIN ptr \cup {x} => Alive' = Alive \cup {<<"ptr", x>>}
           /\ DOMAIN ptr' = DOMAIN ptr \ {x} => Alive' = Alive \ {<<"ptr", x>>}
  BY DEF Alive

LEMMA AliveSocket ==
    ASSUME DOMAIN ptr' = DOMAIN ptr, DOMAIN msg' = DOMAIN msg, NEW x
    PROVE  /\ DOMAIN handle' = DOMAIN handle \cup {x} => Alive' = Alive \cup {<<"handle", x>>}
           /\ DOMAIN handle' = DOMAIN handle \ {x} => Alive' = Alive \ {<<"handle", x>>}
  BY DEF Alive

LEMMA AliveMessage ==
    ASSUME DOMAIN ptr' = DOMAIN ptr, DOMAIN handle' = DOMAIN handle, NEW x
    PROVE  /\ DOMAIN msg' = DOMAIN msg \cup {x} => Alive' = Alive \cup {<<"msg", x>>}
           /\ DOMAIN msg' = DOMAIN msg \ {x} => Alive' = Alive \ {<<"msg", x>>}
  BY DEF Alive

(* A step that advances has its objects alive, ...                           *)
LEMMA AdvancesFits ==
    ASSUME NEW e, NEW B, Advances(e, Alive, B)
    PROVE  StepFits(e)
  <1>1. Needs(e) \subseteq Alive /\ Makes(e) \cap Alive = {}
    BY DEF Advances
  <1>2. /\ e.do = "new_context" => e.x \notin DOMAIN ptr
        /\ e.do = "new_socket" => e.x \notin DOMAIN handle /\ e.y \in DOMAIN ptr
    BY <1>1, AliveHas DEF Needs, Makes
  <1>3. e.do \in {"set", "bind", "connect"} => e.x \in DOMAIN handle
    BY <1>1, AliveHas DEF Needs
  <1>4. /\ e.do = "move" /\ IsContext(e.x) => e.x \notin DOMAIN ptr /\ e.y \in DOMAIN ptr
        /\ e.do = "move" /\ ~IsContext(e.x) => e.x \notin DOMAIN handle /\ e.y \in DOMAIN handle
    BY <1>1, AliveHas DEF Needs, Makes, Object
  <1>5. e.do = "destroy" => e.x \in IF IsContext(e.x) THEN DOMAIN ptr ELSE DOMAIN handle
    BY <1>1, AliveHas DEF Needs, Object
  <1>6. e.do = "poll_item" => e.y \in DOMAIN handle
    BY <1>1, AliveHas DEF Needs
  <1>7. e.do \in {"message", "message_from"} => e.x \notin DOMAIN msg
    BY <1>1, AliveHas DEF Makes
  <1>8. e.do \in {"recv", "send"} => e.x \in DOMAIN handle /\ e.y \in DOMAIN msg
    BY <1>1, AliveHas DEF Needs
  <1>9. e.do \in {"read", "destroy_message"} => e.x \in DOMAIN msg
    BY <1>1, AliveHas DEF Needs
  <1> QED
    BY <1>2, <1>3, <1>4, <1>5, <1>6, <1>7, <1>8, <1>9 DEF StepFits

(* ... and when it returns, what it leaves alive is alive.                   *)
LEMMA StepAlive ==
    ASSUME NEW e, StepFits(e), ZmqStep(e) \/ OtherStep(e), ~thrown'
    PROVE  Alive' = (Alive \ Ends(e)) \cup Makes(e)
  <1>0. ~Throws
    BY DEF Throws
  <1>1. CASE e.do = "new_context" /\ ContextNew(e.x)
    <2>1. DOMAIN ptr' = DOMAIN ptr \cup {e.x} /\ handle' = handle /\ msg' = msg
      BY <1>0, <1>1 DEF ContextNew, With, socketVars, messageVars
    <2>2. Makes(e) = {<<"ptr", e.x>>} /\ Ends(e) = {}
      BY <1>1 DEF Makes, Ends
    <2> QED
      BY <2>1, <2>2, AliveContext
  <1>2. CASE e.do = "new_socket" /\ SocketNew(e.x, e.y)
    <2>1. DOMAIN handle' = DOMAIN handle \cup {e.x} /\ ptr' = ptr /\ msg' = msg
      BY <1>0, <1>2 DEF SocketNew, With, contextVars, messageVars
    <2>2. Makes(e) = {<<"handle", e.x>>} /\ Ends(e) = {}
      BY <1>2 DEF Makes, Ends
    <2> QED
      BY <2>1, <2>2, AliveSocket
  <1>3. CASE \/ e.do = "set" /\ SetOption(e.x, e.y)
             \/ e.do = "bind" /\ Bind(e.x, e.y)
             \/ e.do = "connect" /\ Connect(e.x, e.y)
    <2>1. handle' = handle /\ ptr' = ptr /\ msg' = msg
      BY <1>0, <1>3 DEF SetOption, Bind, Connect, SocketCall, contextVars, messageVars
    <2>2. Makes(e) = {} /\ Ends(e) = {}
      BY <1>3 DEF Makes, Ends
    <2> QED
      BY <2>1, <2>2, AliveSame
  <1>4. CASE e.do = "move" /\ IsContext(e.x) /\ ContextMove(e.x, e.y)
    <2>1. DOMAIN ptr' = DOMAIN ptr \cup {e.x} /\ handle' = handle /\ msg' = msg
      BY <1>4 DEF ContextMove, With, socketVars, messageVars
    <2>2. Makes(e) = {<<"ptr", e.x>>} /\ Ends(e) = {}
      BY <1>4 DEF Makes, Ends, Object
    <2> QED
      BY <2>1, <2>2, AliveContext
  <1>5. CASE e.do = "move" /\ ~IsContext(e.x) /\ SocketMove(e.x, e.y)
    <2>1. DOMAIN handle' = DOMAIN handle \cup {e.x} /\ ptr' = ptr /\ msg' = msg
      BY <1>5 DEF SocketMove, With, contextVars, messageVars
    <2>2. Makes(e) = {<<"handle", e.x>>} /\ Ends(e) = {}
      BY <1>5 DEF Makes, Ends, Object
    <2> QED
      BY <2>1, <2>2, AliveSocket
  <1>6. CASE e.do = "destroy" /\ IsContext(e.x) /\ ContextDestroy(e.x)
    <2>1. DOMAIN ptr' = DOMAIN ptr \ {e.x} /\ handle' = handle /\ msg' = msg
      BY <1>6 DEF ContextDestroy, ContextClosed, Without, socketVars, messageVars
    <2>2. Makes(e) = {} /\ Ends(e) = {<<"ptr", e.x>>}
      BY <1>6 DEF Makes, Ends, Object
    <2> QED
      BY <2>1, <2>2, AliveContext
  <1>7. CASE e.do = "destroy" /\ ~IsContext(e.x) /\ SocketDestroy(e.x)
    <2>1. DOMAIN handle' = DOMAIN handle \ {e.x} /\ ptr' = ptr /\ msg' = msg
      BY <1>7 DEF SocketDestroy, SocketClosed, Without, contextVars, messageVars
    <2>2. Makes(e) = {} /\ Ends(e) = {<<"handle", e.x>>}
      BY <1>7 DEF Makes, Ends, Object
    <2> QED
      BY <2>1, <2>2, AliveSocket
  <1>8. CASE e.do = "poll" /\ Poll(pollItems)
    <2>1. handle' = handle /\ ptr' = ptr /\ msg' = msg
      BY <1>0, <1>8 DEF Poll, contextVars, socketVars, messageVars
    <2>2. Makes(e) = {} /\ Ends(e) = {}
      BY <1>8 DEF Makes, Ends
    <2> QED
      BY <2>1, <2>2, AliveSame
  <1>9. CASE \/ e.do = "message" /\ MessageNew(e.x)
             \/ e.do = "message_from" /\ MessageFrom(e.x)
    <2>1. \E v, t : Holds(With(msg, e.x, v), t)
      BY <1>0, <1>9 DEF MessageNew, MessageFrom
    <2>2. DOMAIN msg' = DOMAIN msg \cup {e.x} /\ ptr' = ptr /\ handle' = handle
      BY <2>1 DEF Holds, With, contextVars, socketVars
    <2>3. Makes(e) = {<<"msg", e.x>>} /\ Ends(e) = {}
      BY <1>9 DEF Makes, Ends
    <2> QED
      BY <2>2, <2>3, AliveMessage
  <1>10. CASE e.do = "read" /\ MessageRead(e.x)
    <2>1. handle' = handle /\ ptr' = ptr /\ msg' = msg
      BY <1>10 DEF MessageRead, contextVars, socketVars, messageVars
    <2>2. Makes(e) = {} /\ Ends(e) = {}
      BY <1>10 DEF Makes, Ends
    <2> QED
      BY <2>1, <2>2, AliveSame
  <1>11. CASE e.do = "destroy_message" /\ MessageDestroy(e.x)
    <2>1. DOMAIN msg' = DOMAIN msg \ {e.x} /\ ptr' = ptr /\ handle' = handle
      BY <1>11 DEF MessageDestroy, Holds, Without, contextVars, socketVars
    <2>2. Makes(e) = {} /\ Ends(e) = {<<"msg", e.x>>}
      BY <1>11 DEF Makes, Ends
    <2> QED
      BY <2>1, <2>2, AliveMessage
  <1>12. CASE e.do = "recv" /\ Recv(e.x, e.y)
    <2>1. WouldBlock \/ \E v, t : Holds([msg EXCEPT ![e.y] = v], t)
      BY <1>0, <1>12 DEF Recv
    <2>2. DOMAIN msg' = DOMAIN msg /\ ptr' = ptr /\ handle' = handle
      BY <2>1 DEF Holds, WouldBlock, contextVars, socketVars, messageVars
    <2>3. Makes(e) = {} /\ Ends(e) = {}
      BY <1>12 DEF Makes, Ends
    <2> QED
      BY <2>2, <2>3, AliveSame
  <1>13. CASE e.do = "send" /\ Send(e.x, e.y)
    <2>1. DOMAIN msg' = DOMAIN msg /\ ptr' = ptr /\ handle' = handle
      BY <1>0, <1>13 DEF Send, WouldBlock, contextVars, socketVars, messageVars
    <2>2. Makes(e) = {} /\ Ends(e) = {}
      BY <1>13 DEF Makes, Ends
    <2> QED
      BY <2>1, <2>2, AliveSame
  <1>14. CASE OtherStep(e)
    <2>1. UNCHANGED <<contextVars, socketVars, messageVars>>
      BY <1>14, Zenon DEF OtherStep
    <2>2. handle' = handle /\ ptr' = ptr /\ msg' = msg
      BY <2>1 DEF contextVars, socketVars, messageVars
    <2>3. e.do \in {"may_throw", "make", "start", "poll_item", "push_task"}
      BY <1>14, Zenon DEF OtherStep
    <2>4. Makes(e) = {} /\ Ends(e) = {}
      BY <2>3 DEF Makes, Ends
    <2> QED
      BY <2>2, <2>4, AliveSame
  <1> QED
    BY <1>1, <1>2, <1>3, <1>4, <1>5, <1>6, <1>7, <1>8, <1>9, <1>10, <1>11, <1>12, <1>13,
       <1>14, Zenon DEF ZmqStep

-----------------------------------------------------------------------------
(* What is left of the script fits what lives, and ends with the members;    *)
(* the processes without a script make calls as they like.                   *)
ScriptInv ==
    /\ process \in Processes
    /\ process \in {"any", "monitor"} => script = <<>>
    /\ up /\ process \notin {"any", "monitor"} => Runs(script, Alive, Built(process))

LEMMA ScriptInit == Init => ScriptInv
  <1> SUFFICES ASSUME Init PROVE ScriptInv
    OBVIOUS
  <1>1. DOMAIN ptr = {} /\ DOMAIN handle = {} /\ DOMAIN msg = {}
    BY DEF Init, ZmqInit
  <1>2. Alive = {}
    BY <1>1 DEF Alive
  <1>3. process \in Processes /\ script = Main[process]
    BY DEF Init
  <1>4. process \in {"any", "monitor"} => script = <<>>
    BY <1>3 DEF Main
  <1> QED
    BY <1>2, <1>3, <1>4, MainRuns DEF ScriptInv

LEMMA ScriptInvImplies == ScriptInv => ObjectsAlive
  <1> SUFFICES ASSUME ScriptInv, up, script # <<>> PROVE StepFits(Head(script))
    BY DEF ObjectsAlive
  <1>1. Runs(script, Alive, Built(process))
    BY DEF ScriptInv
  <1>2. PICK B : Advances(Head(script), Alive, B)
    BY <1>1, RunsFirst
  <1> QED
    BY <1>2, AdvancesFits

LEMMA ScriptStep ==
    ASSUME ScriptInv, [Next]_vars
    PROVE  ScriptInv'
  <1>1. CASE Execute
    <2>1. /\ up /\ script # <<>> /\ process' = process /\ script' = Tail(script)
          /\ up' = ~thrown' /\ process \notin {"any", "monitor"}
      BY <1>1 DEF Execute, ScriptInv
    <2>2. PICK e : e = Head(script)
      OBVIOUS
    <2>3. PICK B : Advances(e, Alive, B) /\ Runs(Tail(script), B, Built(process))
      BY <2>1, <2>2, RunsFirst DEF ScriptInv
    <2>4. StepFits(e)
      BY <2>3, AdvancesFits
    <2>5. ZmqStep(e) \/ OtherStep(e)
      BY <1>1, <2>2 DEF Execute
    <2>6. up' => Alive' = B
      <3> SUFFICES ASSUME up' PROVE Alive' = B
        OBVIOUS
      <3>1. ~thrown'
        BY <2>1
      <3>2. Alive' = (Alive \ Ends(e)) \cup Makes(e)
        BY <2>4, <2>5, <3>1, StepAlive
      <3> QED
        BY <2>3, <3>2 DEF Advances
    <2> QED
      BY <2>1, <2>3, <2>6 DEF ScriptInv
  <1>2. CASE NextRound
    <2>1. /\ up /\ script = <<>> /\ process' = process /\ process \notin {"any", "monitor"}
          /\ script' \in Rounds[process] /\ Alive' = Alive
      BY <1>2 DEF NextRound, zmqVars, Alive
    <2>2. Alive = Built(process)
      BY <2>1, RunsNothing DEF ScriptInv
    <2>3. Runs(script', Built(process), Built(process))
      BY <2>1, RoundsRun DEF ScriptInv
    <2> QED
      BY <2>1, <2>2, <2>3 DEF ScriptInv
  <1>3. CASE Calculated \/ UNCHANGED vars \/ (Transmit /\ UNCHANGED startVars)
    <2>1. process' = process /\ script' = script /\ up' = up
      BY <1>3 DEF Calculated, vars, startVars
    <2>2. ptr' = ptr /\ handle' = handle /\ msg' = msg
      BY <1>3 DEF Calculated, Transmit, vars, zmqVars, contextVars, socketVars
    <2>3. Alive' = Alive
      BY <2>2, AliveSame
    <2> QED
      BY <2>1, <2>3 DEF ScriptInv
  <1>4. CASE AnyCall \/ MonitorCall
    <2>1. process \in {"any", "monitor"} /\ process' = process /\ script' = script
      BY <1>4 DEF AnyCall, MonitorCall, startVars
    <2> QED
      BY <2>1 DEF ScriptInv
  <1> QED
    BY <1>1, <1>2, <1>3, <1>4 DEF Next

-----------------------------------------------------------------------------
(* Every step of New(), of the constructors and of the main loops finds the  *)
(* objects it works on alive and the place of the one it constructs free, in *)
(* whatever order the calls throw and however many handles there are.        *)
THEOREM ObjectsAliveHolds == Spec => []ObjectsAlive
  <1>1. ScriptInv /\ [Next]_vars => ScriptInv'
    BY ScriptStep
  <1> QED
    BY <1>1, ScriptInit, ScriptInvImplies, PTL DEF Spec

(* For any number of objects and handles and any order of calls: each        *)
(* context and socket of libzmq belongs to exactly one context_t or          *)
(* socket_t, none is held after it is closed, and no socket outlives its     *)
(* context, whatever is moved, assigned, swapped, monitored, closed or       *)
(* throws.                                                                   *)
THEOREM HandlesOwnedHolds == Spec => []HandlesOwned
  <1>1. OwnInv /\ ObjectsAlive /\ [Next]_vars => OwnInv'
    BY OwnStep
  <1> QED
    BY <1>1, OwnInit, OwnInvImplies, ObjectsAliveHolds, PTL DEF Spec

(* For any number of messages, buffers and queued items and any order of     *)
(* calls: libzmq's counter of a buffer is the number of message_t that hold  *)
(* it plus the number of times it is still to be transmitted, whatever is    *)
(* moved, copied, swapped, rebuilt, sent or received, and where the calls    *)
(* throw.                                                                    *)
THEOREM BuffersCountedHolds == Spec => []BuffersCounted
  <1>1. CountInv /\ ObjectsAlive /\ [Next]_vars => CountInv'
    BY CountStep
  <1> QED
    BY <1>1, CountInit, CountInvImplies, ObjectsAliveHolds, PTL DEF Spec
=============================================================================
