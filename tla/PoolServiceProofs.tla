------------------------- MODULE PoolServiceProofs -------------------------
(***************************************************************************)
(* Proofs about what the broker and its workers promise together (module   *)
(* PoolService).  As long as nothing is lost on the way and no more than   *)
(* one task waits in task_queue_, every task sent is in exactly one place, *)
(* and the pool implements the task service.                               *)
(***************************************************************************)
EXTENDS PoolService, PoolProofs, SequenceTheorems

(* What a step may do to the set A of copies of one task in one place: the   *)
(* only copy leaves, the only copy arrives, or there are as many as before.  *)
Leaves(A, B) == A # {} /\ (\A i : A = {i} => B = {})

Arrives(A, B) == B # {} /\ (A = {} => \E i : B = {i})

Stays(A, B) == (A = {} <=> B = {}) /\ (\A i : A = {i} => \E j : B = {j})

(* The only copy goes from one place to another, or all stay where they are. *)
Moved(here, A, A2, B, B2) ==
    IF here THEN Leaves(A, A2) /\ Arrives(B, B2) ELSE Stays(A, A2) /\ Stays(B, B2)

(* The copies of every task in every place.                                  *)
Where == [t \in Tasks |-> [p \in Places |-> Copies(p, t)]]

(* From F to G, task tau goes from place a to place b, and no other moves.   *)
Carries(F, G, a, b, tau) ==
    /\ a \in Places /\ b \in Places /\ a # b
    /\ \A t \in Tasks :
        /\ \A p \in Places : p # a /\ p # b => G[t][p] = F[t][p]
        /\ Moved(t = tau, F[t][a], G[t][a], F[t][b], G[t][b])

(* From F to G, no task moves.                                               *)
Keeps(F, G) == \A t \in Tasks, p \in Places : Stays(F[t][p], G[t][p])

(* One place has one copy, and the others have none.                         *)
Single(f) ==
    \E p \in Places : /\ \E i : f[p] = {i}
                      /\ \A q \in Places : q # p => f[q] = {}

Sole(F, U) ==
    \A t \in Tasks : IF t \in U THEN \A p \in Places : F[t][p] = {} ELSE Single(F[t])

Among(F, places) == {t \in Tasks : \E p \in places : F[t][p] # {}}

(* A copy that stays where it is.                                            *)
LEMMA StaysEqual == \A A : Stays(A, A)
  BY DEF Stays

(* A task that is carried from one place to another stays a single one.      *)
LEMMA CarryKeeps ==
    ASSUME NEW F, NEW G, NEW a, NEW b, NEW tau, NEW U, Carries(F, G, a, b, tau), Sole(F, U)
    PROVE  Sole(G, U)
  <1> SUFFICES ASSUME NEW t \in Tasks
               PROVE  IF t \in U THEN \A p \in Places : G[t][p] = {} ELSE Single(G[t])
    BY DEF Sole
  <1>1. CASE t \in U
    BY <1>1 DEF Sole, Carries, Moved, Leaves, Stays
  <1>2. CASE t \notin U
    <2>1. PICK p \in Places : /\ \E i : F[t][p] = {i}
                              /\ \A q \in Places : q # p => F[t][q] = {}
      BY <1>2 DEF Sole, Single
    <2>2. PICK i : F[t][p] = {i}
      BY <2>1
    <2>3. CASE t = tau
      <3>1. p = a
        BY <2>1, <2>3 DEF Carries, Moved, Leaves
      <3>2. G[t][a] = {} /\ \E j : G[t][b] = {j}
        BY <2>1, <2>2, <2>3, <3>1 DEF Carries, Moved, Leaves, Arrives
      <3>3. \A q \in Places : q # b => G[t][q] = {}
        BY <2>1, <3>1, <3>2 DEF Carries, Moved
      <3> QED
        BY <1>2, <3>2, <3>3 DEF Single, Carries, Moved
    <2>4. CASE t # tau
      <3>1. \A q \in Places : q # p => G[t][q] = {}
        BY <2>1, <2>4 DEF Carries, Moved, Stays
      <3>2. \E j : G[t][p] = {j}
        <4>1. Stays(F[t][p], G[t][p])
          BY <2>4, StaysEqual DEF Carries, Moved
        <4> QED
          BY <2>2, <4>1 DEF Stays
      <3> QED
        BY <1>2, <3>1, <3>2 DEF Single
    <2> QED
      BY <2>3, <2>4
  <1> QED
    BY <1>1, <1>2

(* What it does to the tasks found in a set of places.                       *)
LEMMA CarryAmong ==
    ASSUME NEW F, NEW G, NEW a, NEW b, NEW tau \in Tasks, NEW U, NEW places \in SUBSET Places,
           Carries(F, G, a, b, tau), Sole(F, U)
    PROVE  /\ tau \in Among(F, places) <=> a \in places
           /\ tau \in Among(G, places) <=> b \in places
           /\ \A t \in Tasks : t # tau => (t \in Among(G, places) <=> t \in Among(F, places))
  <1>1. \A t \in Tasks : t # tau => (t \in Among(G, places) <=> t \in Among(F, places))
    <2> SUFFICES ASSUME NEW t \in Tasks, t # tau
                 PROVE  \A p \in Places : G[t][p] # {} <=> F[t][p] # {}
      BY DEF Among
    <2>1. CASE t \in U
      BY <2>1 DEF Sole, Carries, Moved, Stays
    <2>2. CASE t \notin U
      <3>1. PICK p \in Places : /\ \E i : F[t][p] = {i}
                                /\ \A q \in Places : q # p => F[t][q] = {}
        BY <2>2 DEF Sole, Single
      <3>2. \A q \in Places : q # p => G[t][q] = {}
        BY <3>1 DEF Carries, Moved, Stays
      <3>3. \E j : G[t][p] = {j}
        <4>1. Stays(F[t][p], G[t][p])
          BY StaysEqual DEF Carries, Moved
        <4> QED
          BY <3>1, <4>1 DEF Stays
      <3> QED
        BY <3>1, <3>2, <3>3
    <2> QED
      BY <2>1, <2>2
  <1>2. tau \notin U /\ F[tau][a] # {}
    BY DEF Sole, Carries, Moved, Leaves
  <1>3. PICK i : F[tau][a] = {i} /\ \A q \in Places : q # a => F[tau][q] = {}
    <2>1. Single(F[tau]) /\ a \in Places
      BY <1>2 DEF Sole, Carries, Moved
    <2>2. PICK p \in Places : /\ \E i : F[tau][p] = {i}
                              /\ \A q \in Places : q # p => F[tau][q] = {}
      BY <2>1 DEF Single
    <2>3. p = a
      BY <1>2, <2>1, <2>2
    <2> QED
      BY <2>2, <2>3
  <1>4. tau \in Among(F, places) <=> a \in places
    BY <1>3 DEF Among, Carries, Moved
  <1>5. G[tau][a] = {} /\ \E j : G[tau][b] = {j}
    BY <1>3 DEF Carries, Moved, Leaves, Arrives
  <1>6. \A q \in Places : q # b => G[tau][q] = {}
    BY <1>3, <1>5 DEF Carries, Moved
  <1>7. tau \in Among(G, places) <=> b \in places
    BY <1>5, <1>6 DEF Among, Carries, Moved
  <1> QED
    BY <1>1, <1>4, <1>7

(* When nothing moves, the single ones stay, where they are.                 *)
LEMMA KeepsKeeps ==
    ASSUME NEW F, NEW G, NEW U, Keeps(F, G), Sole(F, U)
    PROVE  /\ Sole(G, U)
           /\ \A places \in SUBSET Places : Among(G, places) = Among(F, places)
  <1>1. ASSUME NEW t \in Tasks, t \in U
        PROVE  \A p \in Places : F[t][p] = {} /\ G[t][p] = {}
    BY <1>1 DEF Sole, Keeps, Stays
  <1>2. ASSUME NEW t \in Tasks, t \notin U
        PROVE  Single(G[t]) /\ \A p \in Places : G[t][p] # {} <=> F[t][p] # {}
    <2>1. PICK p \in Places : /\ \E i : F[t][p] = {i}
                              /\ \A q \in Places : q # p => F[t][q] = {}
      BY <1>2 DEF Sole, Single
    <2>2. /\ \E i : G[t][p] = {i}
          /\ \A q \in Places : q # p => G[t][q] = {}
      BY <2>1 DEF Keeps, Stays
    <2> QED
      BY <2>1, <2>2 DEF Single
  <1>3. Sole(G, U)
    BY <1>1, <1>2 DEF Sole
  <1>4. \A t \in Tasks, p \in Places : G[t][p] # {} <=> F[t][p] # {}
    BY <1>1, <1>2
  <1> QED
    BY <1>3, <1>4 DEF Among

-----------------------------------------------------------------------------
(* The positions of x in a queue whose head is taken, ...                    *)
LEMMA PositionsTail ==
    ASSUME NEW S, NEW s \in Seq(S), s # <<>>, NEW x
    PROVE  IF Head(s) = x THEN Leaves(Positions(s, x), Positions(Tail(s), x))
                          ELSE Stays(Positions(s, x), Positions(Tail(s), x))
  <1>1. /\ Len(s) \in Nat \ {0} /\ DOMAIN s = 1..Len(s) /\ Head(s) = s[1]
        /\ Tail(s) \in Seq(S) /\ DOMAIN Tail(s) = 1..(Len(s) - 1)
        /\ \A i \in 1..(Len(s) - 1) : Tail(s)[i] = s[i + 1]
    BY LenProperties, HeadTailProperties
  <1>2. \A i \in Positions(Tail(s), x) : i \in Nat /\ i + 1 \in Positions(s, x) /\ i + 1 # 1
    BY <1>1 DEF Positions
  <1>3. \A i \in Positions(s, x) : i # 1 => i - 1 \in Positions(Tail(s), x)
    BY <1>1 DEF Positions
  <1>4. CASE Head(s) = x
    <2>1. 1 \in Positions(s, x)
      BY <1>1, <1>4 DEF Positions
    <2>2. \A i : Positions(s, x) = {i} => Positions(Tail(s), x) = {}
      BY <1>2, <2>1
    <2> QED
      BY <1>4, <2>1, <2>2 DEF Leaves
  <1>5. CASE Head(s) # x
    <2>1. 1 \notin Positions(s, x)
      BY <1>1, <1>5 DEF Positions
    <2>2. Positions(s, x) = {} <=> Positions(Tail(s), x) = {}
      BY <1>2, <1>3, <2>1
    <2>3. ASSUME NEW i, Positions(s, x) = {i}
          PROVE  \E j : Positions(Tail(s), x) = {j}
      <3>1. i - 1 \in Positions(Tail(s), x)
        BY <1>3, <2>1, <2>3
      <3>2. \A j \in Positions(Tail(s), x) : j = i - 1
        BY <1>2, <2>3
      <3> QED
        BY <3>1, <3>2
    <2> QED
      BY <1>5, <2>2, <2>3 DEF Stays
  <1> QED
    BY <1>4, <1>5

(* ... and in one that grows at its end.                                     *)
LEMMA PositionsAppend ==
    ASSUME NEW S, NEW s \in Seq(S), NEW x, NEW y
    PROVE  IF y = x THEN Arrives(Positions(s, x), Positions(Append(s, y), x))
                    ELSE Positions(Append(s, y), x) = Positions(s, x)
  <1>1. /\ Len(s) \in Nat /\ DOMAIN s = 1..Len(s)
        /\ DOMAIN Append(s, y) = 1..(Len(s) + 1)
        /\ Append(s, y)[Len(s) + 1] = y
        /\ \A i \in 1..Len(s) : Append(s, y)[i] = s[i]
    OBVIOUS
  <1>2. Positions(Append(s, y), x)
          = Positions(s, x) \cup (IF y = x THEN {Len(s) + 1} ELSE {})
    BY <1>1 DEF Positions
  <1> QED
    BY <1>2 DEF Arrives

(* The head of one queue, seen as x, goes to the end of another, seen as y.  *)
LEMMA QueueMove ==
    ASSUME NEW S, NEW s \in Seq(S), s # <<>>, NEW R, NEW r \in Seq(R), NEW x, NEW y, NEW z,
           Head(s) = x <=> z = y
    PROVE  Moved(Head(s) = x, Positions(s, x), Positions(Tail(s), x),
                 Positions(r, y), Positions(Append(r, z), y))
  <1>1. IF Head(s) = x THEN Leaves(Positions(s, x), Positions(Tail(s), x))
                       ELSE Stays(Positions(s, x), Positions(Tail(s), x))
    BY PositionsTail
  <1>2. IF z = y THEN Arrives(Positions(r, y), Positions(Append(r, z), y))
                 ELSE Positions(Append(r, z), y) = Positions(r, y)
    BY PositionsAppend
  <1> QED
    BY <1>1, <1>2, StaysEqual DEF Moved

-----------------------------------------------------------------------------
(* The places, one kind after the other.                                     *)
LEMMA PlaceCases ==
    ASSUME NEW p \in Places
    PROVE  \/ p = <<"task_pipe", "manager">> \/ p = <<"reply_pipe", "manager">>
           \/ p = <<"received", "manager">>
           \/ p = <<"task_queue", "broker">> \/ p = <<"sending", "broker">>
           \/ \E w \in Workers : \/ p = <<"pub", w>> \/ p = <<"tasks", w>>
                                 \/ p = <<"calculating", w>> \/ p = <<"calculated", w>>
                                 \/ p = <<"finished", w>> \/ p = <<"dealer", w>>
  <1>1. CASE p \in OutsidePlaces
    BY <1>1 DEF OutsidePlaces
  <1>2. CASE p \in OpenPlaces
    BY <1>2 DEF OpenPlaces
  <1>3. CASE p \in ComputedPlaces
    BY <1>3 DEF ComputedPlaces
  <1> QED
    BY <1>1, <1>2, <1>3 DEF Places

(* What a place holds, ...                                                   *)
LEMMA CopiesAt ==
    ASSUME NEW t \in Tasks
    PROVE  /\ Copies(<<"task_pipe", "manager">>, t) = Positions(taskPipe, t)
           /\ Copies(<<"reply_pipe", "manager">>, t) = Positions(replyPipe, t.id)
           /\ Copies(<<"received", "manager">>, t) = Positions(received, t.id)
           /\ Copies(<<"task_queue", "broker">>, t) = Positions(taskQueue, t)
           /\ Copies(<<"sending", "broker">>, t) = Positions(sending, t.id)
  BY DEF Copies

(* ... for the places of a worker.                                           *)
LEMMA CopiesAtWorker ==
    ASSUME NEW t \in Tasks, NEW w \in Workers
    PROVE  /\ Copies(<<"pub", w>>, t) = Positions(pub[w], [identity |-> w, task |-> t])
           /\ Copies(<<"tasks", w>>, t) = Positions(tasks[w], [identity |-> w, task |-> t])
           /\ Copies(<<"calculating", w>>, t) = Running(w, {"calculate", "write"}, t)
           /\ Copies(<<"calculated", w>>, t) = Running(w, {"push"}, t)
           /\ Copies(<<"finished", w>>, t)
                = Positions(finished[w], [identity |-> w, id |-> t.id])
           /\ Copies(<<"dealer", w>>, t)
                = Positions(dealer[w], [data |-> "task_id",
                                        task_id |-> [identity |-> w, id |-> t.id]])
  BY DEF Copies

(* The same after a step.                                                   *)
LEMMA CopiesAtNext ==
    ASSUME NEW t \in Tasks
    PROVE  /\ Copies(<<"task_pipe", "manager">>, t)' = Positions(taskPipe', t)
           /\ Copies(<<"reply_pipe", "manager">>, t)' = Positions(replyPipe', t.id)
           /\ Copies(<<"received", "manager">>, t)' = Positions(received', t.id)
           /\ Copies(<<"task_queue", "broker">>, t)' = Positions(taskQueue', t)
           /\ Copies(<<"sending", "broker">>, t)' = Positions(sending', t.id)
  BY DEF Copies, Positions

(* ... for the places of a worker.                                           *)
LEMMA CopiesAtWorkerNext ==
    ASSUME NEW t \in Tasks, NEW w \in Workers
    PROVE  /\ Copies(<<"pub", w>>, t)' = Positions(pub'[w], [identity |-> w, task |-> t])
           /\ Copies(<<"tasks", w>>, t)' = Positions(tasks'[w], [identity |-> w, task |-> t])
           /\ Copies(<<"calculating", w>>, t)' = Running(w, {"calculate", "write"}, t)'
           /\ Copies(<<"calculated", w>>, t)' = Running(w, {"push"}, t)'
           /\ Copies(<<"finished", w>>, t)'
                = Positions(finished'[w], [identity |-> w, id |-> t.id])
           /\ Copies(<<"dealer", w>>, t)'
                = Positions(dealer'[w], [data |-> "task_id",
                                        task_id |-> [identity |-> w, id |-> t.id]])
  BY DEF Copies, Positions

(* What a step leaves alone for the copies in place p to stay as they are.   *)
Untouched(p) ==
    /\ p = <<"task_pipe", "manager">> => taskPipe' = taskPipe
    /\ p = <<"reply_pipe", "manager">> => replyPipe' = replyPipe
    /\ p = <<"received", "manager">> => received' = received
    /\ p = <<"task_queue", "broker">> => taskQueue' = taskQueue
    /\ p = <<"sending", "broker">> => sending' = sending
    /\ \A w \in Workers :
        /\ p = <<"pub", w>> => pub'[w] = pub[w]
        /\ p = <<"tasks", w>> => tasks'[w] = tasks[w]
        /\ p = <<"calculating", w>> =>
              \A t \in Tasks : Running(w, {"calculate", "write"}, t)'
                                 = Running(w, {"calculate", "write"}, t)
        /\ p = <<"calculated", w>> =>
              \A t \in Tasks : Running(w, {"push"}, t)' = Running(w, {"push"}, t)
        /\ p = <<"finished", w>> => finished'[w] = finished[w]
        /\ p = <<"dealer", w>> => dealer'[w] = dealer[w]

(* What is left alone stays as it is.                                        *)
LEMMA CopiesUntouched ==
    ASSUME NEW p \in Places, NEW t \in Tasks, Untouched(p)
    PROVE  Copies(p, t)' = Copies(p, t)
  <1>1. CASE \/ p = <<"task_pipe", "manager">> \/ p = <<"reply_pipe", "manager">>
             \/ p = <<"received", "manager">>
    BY <1>1, CopiesAt, CopiesAtNext DEF Untouched
  <1>2. CASE p = <<"task_queue", "broker">> \/ p = <<"sending", "broker">>
    BY <1>2, CopiesAt, CopiesAtNext DEF Untouched
  <1>3. ASSUME NEW w \in Workers
        PROVE  /\ p = <<"pub", w>> => Copies(p, t)' = Copies(p, t)
               /\ p = <<"tasks", w>> => Copies(p, t)' = Copies(p, t)
               /\ p = <<"calculating", w>> => Copies(p, t)' = Copies(p, t)
               /\ p = <<"calculated", w>> => Copies(p, t)' = Copies(p, t)
               /\ p = <<"finished", w>> => Copies(p, t)' = Copies(p, t)
               /\ p = <<"dealer", w>> => Copies(p, t)' = Copies(p, t)
    <2>1. ASSUME p = <<"pub", w>> PROVE Copies(p, t)' = Copies(p, t)
      <3>1. pub'[w] = pub[w]
        BY <2>1 DEF Untouched
      <3> QED
        BY <2>1, <3>1 DEF Copies, Positions
    <2>2. ASSUME p = <<"tasks", w>> PROVE Copies(p, t)' = Copies(p, t)
      <3>1. tasks'[w] = tasks[w]
        BY <2>2 DEF Untouched
      <3> QED
        BY <2>2, <3>1 DEF Copies, Positions
    <2>3. ASSUME p = <<"calculating", w>> PROVE Copies(p, t)' = Copies(p, t)
      <3>1. Running(w, {"calculate", "write"}, t)' = Running(w, {"calculate", "write"}, t)
        BY <2>3 DEF Untouched
      <3> QED
        BY <2>3, <3>1 DEF Copies, Positions
    <2>4. ASSUME p = <<"calculated", w>> PROVE Copies(p, t)' = Copies(p, t)
      <3>1. Running(w, {"push"}, t)' = Running(w, {"push"}, t)
        BY <2>4 DEF Untouched
      <3> QED
        BY <2>4, <3>1 DEF Copies, Positions
    <2>5. ASSUME p = <<"finished", w>> PROVE Copies(p, t)' = Copies(p, t)
      <3>1. finished'[w] = finished[w]
        BY <2>5 DEF Untouched
      <3> QED
        BY <2>5, <3>1 DEF Copies, Positions
    <2>6. ASSUME p = <<"dealer", w>> PROVE Copies(p, t)' = Copies(p, t)
      <3>1. dealer'[w] = dealer[w]
        BY <2>6 DEF Untouched
      <3> QED
        BY <2>6, <3>1 DEF Copies, Positions
    <2> QED
      BY <2>1, <2>2, <2>3, <2>4, <2>5, <2>6
  <1> QED
    BY <1>1, <1>2, <1>3, PlaceCases

(* The places the proofs name.                                               *)
LEMMA PlacesKnown ==
    /\ <<"task_pipe", "manager">> \in OutsidePlaces /\ <<"reply_pipe", "manager">> \in OutsidePlaces
    /\ <<"received", "manager">> \in OutsidePlaces
    /\ <<"task_queue", "broker">> \in OpenPlaces /\ <<"sending", "broker">> \in ComputedPlaces
    /\ \A w \in Workers :
        /\ <<"pub", w>> \in OpenPlaces /\ <<"tasks", w>> \in OpenPlaces
        /\ <<"calculating", w>> \in OpenPlaces
        /\ <<"calculated", w>> \in ComputedPlaces /\ <<"finished", w>> \in ComputedPlaces
        /\ <<"dealer", w>> \in ComputedPlaces
    /\ OutsidePlaces \subseteq Places /\ OpenPlaces \subseteq Places
    /\ ComputedPlaces \subseteq Places
  BY DEF OutsidePlaces, OpenPlaces, ComputedPlaces, Places

(* A step that changes the copies in two places only.                        *)
LEMMA MovesCopies ==
    ASSUME NEW a \in Places, NEW b \in Places, a # b, NEW tau,
           \A t \in Tasks, p \in Places : p # a /\ p # b => Copies(p, t)' = Copies(p, t),
           \A t \in Tasks :
              Moved(t = tau, Copies(a, t), Copies(a, t)', Copies(b, t), Copies(b, t)')
    PROVE  Carries(Where, Where', a, b, tau)
  <1>1. \A t \in Tasks, p \in Places : Where[t][p] = Copies(p, t) /\ Where'[t][p] = Copies(p, t)'
    BY DEF Where
  <1> QED
    BY <1>1 DEF Carries

(* A step that touches two places only.                                      *)
LEMMA Moves ==
    ASSUME NEW a \in Places, NEW b \in Places, a # b, NEW tau,
           \A p \in Places : p # a /\ p # b => Untouched(p),
           \A t \in Tasks :
              Moved(t = tau, Copies(a, t), Copies(a, t)', Copies(b, t), Copies(b, t)')
    PROVE  Carries(Where, Where', a, b, tau)
  BY CopiesUntouched, MovesCopies

(* A step that touches no place.                                             *)
LEMMA Rests ==
    ASSUME \A p \in Places : Untouched(p)
    PROVE  Keeps(Where, Where')
  <1>1. \A t \in Tasks, p \in Places : Where[t][p] = Copies(p, t) /\ Where'[t][p] = Copies(p, t)'
    BY DEF Where
  <1> QED
    BY <1>1, CopiesUntouched, StaysEqual DEF Keeps

(* What runs on the threads of a worker depends on nothing but the threads.  *)
LEMMA RunningUnchanged ==
    ASSUME NEW w \in Workers, thread'[w] = thread[w], NEW pcs, NEW t
    PROVE  Running(w, pcs, t)' = Running(w, pcs, t)
  BY DEF Running, Threads

-----------------------------------------------------------------------------
(* SendResultToManager moves an id from the broker's hand to the reply pipe. *)
LEMMA SendResultMoves ==
    ASSUME Inv, SendResultToManager, UNCHANGED <<workerVars, db, envVars>>
    PROVE  \E tau \in Tasks :
              /\ sending[1] = tau.id
              /\ Carries(Where, Where', <<"sending", "broker">>, <<"reply_pipe", "manager">>, tau)
  <1>1. /\ sending \in Seq(TaskId) /\ Len(sending) <= 1 /\ sending # <<>>
        /\ replyPipe \in Seq(TaskId)
        /\ replyPipe' = Append(replyPipe, sending[1]) /\ sending' = <<>>
    BY DEF Inv, TypeOK, BrokerTypeOK, PipesTypeOK, SendResultToManager, SendOnReplyPipe
  <1>2. sending[1] \in TaskId /\ Head(sending) = sending[1] /\ Tail(sending) = sending'
    BY <1>1
  <1>3. PICK tau \in Tasks : sending[1] = tau.id
    BY <1>2 DEF TaskId
  <1>4. \A t \in Tasks : t.id = tau.id <=> t = tau
    BY PoolAssumption
  <1>5. \A p \in Places :
           p # <<"sending", "broker">> /\ p # <<"reply_pipe", "manager">> => Untouched(p)
    BY RunningUnchanged
       DEF SendResultToManager, Untouched, socketVars, workerVars, envVars
  <1>6. ASSUME NEW t \in Tasks
        PROVE  Moved(t = tau, Positions(sending, t.id), Positions(sending', t.id),
                     Positions(replyPipe, t.id), Positions(replyPipe', t.id))
    <2>1. Moved(Head(sending) = t.id, Positions(sending, t.id), Positions(Tail(sending), t.id),
                Positions(replyPipe, t.id), Positions(Append(replyPipe, sending[1]), t.id))
      BY <1>1, <1>2, QueueMove
    <2> QED
      BY <1>1, <1>2, <1>3, <1>4, <2>1
  <1>7. Carries(Where, Where', <<"sending", "broker">>, <<"reply_pipe", "manager">>, tau)
    BY <1>5, <1>6, CopiesAt, CopiesAtNext, PlacesKnown, Moves
  <1> QED
    BY <1>3, <1>7

(* ReadReply moves an id from the reply pipe to the ones received.           *)
LEMMA ReadReplyMoves ==
    ASSUME Inv, ReadReply
    PROVE  \E tau \in Tasks :
              Carries(Where, Where', <<"reply_pipe", "manager">>, <<"received", "manager">>, tau)
  <1>1. /\ replyPipe \in Seq(TaskId) /\ received \in Seq(TaskId) /\ replyPipe # <<>>
        /\ received' = Append(received, Head(replyPipe)) /\ replyPipe' = Tail(replyPipe)
    BY DEF Inv, TypeOK, PipesTypeOK, EnvironmentTypeOK, ReadReply
  <1>2. PICK tau \in Tasks : Head(replyPipe) = tau.id
    BY <1>1 DEF TaskId
  <1>3. \A t \in Tasks : t.id = tau.id <=> t = tau
    BY PoolAssumption
  <1>4. \A p \in Places :
           p # <<"reply_pipe", "manager">> /\ p # <<"received", "manager">> => Untouched(p)
    BY RunningUnchanged DEF ReadReply, Untouched, socketVars, brokerVars, workerVars
  <1>5. ASSUME NEW t \in Tasks
        PROVE  Moved(t = tau, Positions(replyPipe, t.id), Positions(replyPipe', t.id),
                     Positions(received, t.id), Positions(received', t.id))
    BY <1>1, <1>2, <1>3, QueueMove
  <1>6. Carries(Where, Where', <<"reply_pipe", "manager">>, <<"received", "manager">>, tau)
    BY <1>4, <1>5, CopiesAt, CopiesAtNext, PlacesKnown, Moves
  <1> QED
    BY <1>6

(* ReadRequest moves a task from a worker's subscription to its thread pool, *)
(* or drops one that is addressed to another worker.                         *)
LEMMA ReadRequestMoves ==
    ASSUME Inv, NEW w \in Workers, ReadRequest(w), UNCHANGED <<pipeVars, brokerVars, envVars>>
    PROVE  \/ Keeps(Where, Where')
           \/ \E tau \in Tasks : Carries(Where, Where', <<"pub", w>>, <<"tasks", w>>, tau)
  <1> DEFINE head == Head(pub[w])
  <1>1. /\ pub[w] \in Seq(WorkerTask) /\ tasks[w] \in Seq(WorkerTask) /\ pub[w] # <<>>
        /\ pub \in [Workers -> Seq(WorkerTask)] /\ tasks \in [Workers -> Seq(WorkerTask)]
    BY DEF Inv, TypeOK, SocketsTypeOK, WorkersTypeOK, ReadRequest
  <1>2. /\ head \in WorkerTask /\ pub'[w] = Tail(pub[w])
        /\ \A v \in Workers \ {w} : pub'[v] = pub[v] /\ tasks'[v] = tasks[v]
    BY <1>1 DEF ReadRequest
  <1>3. ASSUME NEW t \in Tasks, NEW v \in Workers
        PROVE  head = [identity |-> v, task |-> t] <=> head.identity = v /\ head.task = t
    BY <1>2 DEF WorkerTask
  <1>4. \A p \in Places : p # <<"pub", w>> /\ p # <<"tasks", w>> => Untouched(p)
    BY <1>2, RunningUnchanged DEF ReadRequest, Untouched, pipeVars, brokerVars, envVars
  <1>5. \A t \in Tasks :
          /\ Copies(<<"pub", w>>, t) = Positions(pub[w], [identity |-> w, task |-> t])
          /\ Copies(<<"pub", w>>, t)' = Positions(pub'[w], [identity |-> w, task |-> t])
          /\ Copies(<<"tasks", w>>, t) = Positions(tasks[w], [identity |-> w, task |-> t])
          /\ Copies(<<"tasks", w>>, t)' = Positions(tasks'[w], [identity |-> w, task |-> t])
    BY CopiesAtWorker, CopiesAtWorkerNext
  <1>6. CASE head.identity = w
    <2>1. tasks'[w] = Append(tasks[w], head)
      BY <1>1, <1>6 DEF ReadRequest
    <2>2. ASSUME NEW t \in Tasks
          PROVE  Moved(t = head.task, Copies(<<"pub", w>>, t), Copies(<<"pub", w>>, t)',
                       Copies(<<"tasks", w>>, t), Copies(<<"tasks", w>>, t)')
      <3>1. PICK x : x = [identity |-> w, task |-> t]
        OBVIOUS
      <3>2. head = x <=> t = head.task
        BY <1>3, <1>6, <3>1
      <3>3. Moved(head = x, Positions(pub[w], x), Positions(Tail(pub[w]), x),
                  Positions(tasks[w], x), Positions(Append(tasks[w], head), x))
        BY <1>1, QueueMove
      <3> QED
        BY <1>2, <1>5, <2>1, <3>1, <3>2, <3>3
    <2>3. head.task \in Tasks
      BY <1>2 DEF WorkerTask
    <2>4. Carries(Where, Where', <<"pub", w>>, <<"tasks", w>>, head.task)
      BY <1>4, <2>2, PlacesKnown, Moves
    <2> QED
      BY <2>3, <2>4
  <1>7. CASE head.identity # w
    <2>1. tasks'[w] = tasks[w]
      BY <1>7 DEF ReadRequest
    <2>2. \A p \in Places : p # <<"pub", w>> => Untouched(p)
      BY <1>4, <2>1 DEF Untouched
    <2>3. ASSUME NEW t \in Tasks
          PROVE  Stays(Copies(<<"pub", w>>, t), Copies(<<"pub", w>>, t)')
      <3>1. PICK x : x = [identity |-> w, task |-> t]
        OBVIOUS
      <3>2. head # x
        BY <1>3, <1>7, <3>1
      <3>3. Stays(Positions(pub[w], x), Positions(Tail(pub[w]), x))
        BY <1>1, <3>2, PositionsTail
      <3> QED
        BY <1>2, <1>5, <3>1, <3>3
    <2> QED
      BY <2>2, <2>3, CopiesUntouched, StaysEqual DEF Keeps, Where
  <1> QED
    BY <1>6, <1>7

-----------------------------------------------------------------------------
(* Two sets of threads that differ at most in k.                             *)
SameBut(A, B, k) == A \ {k} = B \ {k}

(* What becomes of them is decided by k.                                     *)
LEMMA OneThread ==
    ASSUME NEW A, NEW B, NEW k, SameBut(A, B, k)
    PROVE  /\ k \in A /\ k \notin B => Leaves(A, B)
           /\ k \in B => Arrives(A, B)
           /\ (k \in A <=> k \in B) => A = B
  <1>1. k \in A /\ k \notin B => Leaves(A, B)
    BY DEF SameBut, Leaves
  <1>2. ASSUME k \in B PROVE Arrives(A, B)
    <2>1. A = {} => B = {k}
      BY <1>2 DEF SameBut
    <2> QED
      BY <1>2, <2>1 DEF Arrives
  <1>3. (k \in A <=> k \in B) => A = B
    BY DEF SameBut
  <1> QED
    BY <1>1, <1>2, <1>3

(* The threads that calculate task t, and the ones that have its result.     *)
Opening(w, t) == Running(w, {"calculate", "write"}, t)

Closing(w, t) == Running(w, {"push"}, t)

(* How these sets change when thread k of worker w does.                     *)
LEMMA RunningStep ==
    ASSUME NEW w \in Workers, NEW k \in Threads(w), OnlyThread(w, k), NEW t \in Tasks
    PROVE  /\ \A v \in Workers \ {w} : /\ Opening(v, t)' = Opening(v, t)
                                       /\ Closing(v, t)' = Closing(v, t)
           /\ SameBut(Opening(w, t), Opening(w, t)', k)
           /\ SameBut(Closing(w, t), Closing(w, t)', k)
           /\ k \in Opening(w, t) <=>
                thread[w][k].pc \in {"calculate", "write"} /\ thread[w][k].task.task = t
           /\ k \in Opening(w, t)' <=>
                thread'[w][k].pc \in {"calculate", "write"} /\ thread'[w][k].task.task = t
           /\ k \in Closing(w, t) <=> thread[w][k].pc = "push" /\ thread[w][k].task.task = t
           /\ k \in Closing(w, t)' <=> thread'[w][k].pc = "push" /\ thread'[w][k].task.task = t
  BY DEF Running, Opening, Closing, OnlyThread, Threads, SameBut

(* The changes in the terms of the places.                                   *)
LEMMA ThreadMoves ==
    ASSUME NEW w \in Workers, NEW k \in Threads(w), OnlyThread(w, k), NEW t \in Tasks
    PROVE  /\ \A v \in Workers \ {w} : /\ Opening(v, t)' = Opening(v, t)
                                       /\ Closing(v, t)' = Closing(v, t)
           /\ (k \in Opening(w, t) <=> k \in Opening(w, t)') => Opening(w, t)' = Opening(w, t)
           /\ (k \in Closing(w, t) <=> k \in Closing(w, t)') => Closing(w, t)' = Closing(w, t)
           /\ k \in Opening(w, t)' => Arrives(Opening(w, t), Opening(w, t)')
           /\ k \in Closing(w, t)' => Arrives(Closing(w, t), Closing(w, t)')
           /\ k \in Opening(w, t) /\ k \notin Opening(w, t)' => Leaves(Opening(w, t), Opening(w, t)')
           /\ k \in Closing(w, t) /\ k \notin Closing(w, t)' => Leaves(Closing(w, t), Closing(w, t)')
  <1>1. SameBut(Opening(w, t), Opening(w, t)', k)
    BY RunningStep
  <1>2. /\ k \in Opening(w, t) /\ k \notin Opening(w, t)' => Leaves(Opening(w, t), Opening(w, t)')
        /\ k \in Opening(w, t)' => Arrives(Opening(w, t), Opening(w, t)')
        /\ (k \in Opening(w, t) <=> k \in Opening(w, t)') => Opening(w, t)' = Opening(w, t)
    BY <1>1, OneThread
  <1>3. SameBut(Closing(w, t), Closing(w, t)', k)
    BY RunningStep
  <1>4. /\ k \in Closing(w, t) /\ k \notin Closing(w, t)' => Leaves(Closing(w, t), Closing(w, t)')
        /\ k \in Closing(w, t)' => Arrives(Closing(w, t), Closing(w, t)')
        /\ (k \in Closing(w, t) <=> k \in Closing(w, t)') => Closing(w, t)' = Closing(w, t)
    BY <1>3, OneThread
  <1> QED
    BY <1>2, <1>4, RunningStep

(* TakeTask moves a task from the thread pool's queue to a thread.           *)
LEMMA TakeTaskMoves ==
    ASSUME Inv, NEW w \in Workers, NEW k \in Threads(w), TakeTask(w, k),
           UNCHANGED <<pipeVars, brokerVars, envVars>>
    PROVE  \/ Keeps(Where, Where')
           \/ \E tau \in Tasks : Carries(Where, Where', <<"tasks", w>>, <<"calculating", w>>, tau)
  <1> DEFINE head == Head(tasks[w])
  <1>1. tasks \in [Workers -> Seq(WorkerTask)] /\ tasks[w] \in Seq(TasksOf(w)) /\ TypeOK
    BY DEF Inv, TypeOK, WorkersTypeOK, OwnTasksOnly, OwnTasks
  <1>2. /\ OnlyThread(w, k) /\ thread[w][k].pc = "idle"
        /\ tasks[w] = <<>> => thread'[w][k].pc = "asleep"
        /\ tasks[w] # <<>> => thread'[w][k].pc = "calculate" /\ thread'[w][k].task = head
    BY <1>1, ThreadSteps
  <1>3. \A v \in Workers \ {w} : tasks'[v] = tasks[v]
    BY <1>1 DEF TakeTask
  <1>4. ASSUME NEW t \in Tasks
        PROVE  /\ \A v \in Workers : Closing(v, t)' = Closing(v, t)
               /\ \A v \in Workers \ {w} : Opening(v, t)' = Opening(v, t)
    BY <1>2, RunningStep, ThreadMoves
  <1>5. \A p \in Places : p # <<"tasks", w>> /\ p # <<"calculating", w>> => Untouched(p)
    BY <1>3, <1>4
       DEF TakeTask, Untouched, Opening, Closing, pipeVars, socketVars, brokerVars, envVars
  <1>6. CASE tasks[w] = <<>>
    <2>1. tasks'[w] = tasks[w]
      BY <1>6 DEF TakeTask
    <2>2. \A t \in Tasks : Opening(w, t)' = Opening(w, t)
      BY <1>2, <1>6, RunningStep, ThreadMoves
    <2>3. Untouched(<<"tasks", w>>) /\ Untouched(<<"calculating", w>>)
      BY <2>1, <2>2 DEF Untouched, Opening
    <2> QED
      BY <1>5, <2>3, Rests
  <1>7. CASE tasks[w] # <<>>
    <2>1. tasks'[w] = Tail(tasks[w])
      BY <1>1, <1>7 DEF TakeTask
    <2>2. head \in TasksOf(w) /\ head.task \in Tasks
      <3>1. head \in TasksOf(w)
        BY <1>1, <1>7
      <3> QED
        BY <3>1 DEF TasksOf
    <2>3. ASSUME NEW t \in Tasks
          PROVE  Moved(t = head.task, Copies(<<"tasks", w>>, t), Copies(<<"tasks", w>>, t)',
                       Copies(<<"calculating", w>>, t), Copies(<<"calculating", w>>, t)')
      <3>1. PICK x : x = [identity |-> w, task |-> t]
        OBVIOUS
      <3>2. head = x <=> t = head.task
        BY <2>2, <3>1 DEF TasksOf
      <3>3. IF head = x THEN Leaves(Positions(tasks[w], x), Positions(Tail(tasks[w]), x))
                        ELSE Stays(Positions(tasks[w], x), Positions(Tail(tasks[w]), x))
        BY <1>1, <1>7, PositionsTail
      <3>4. IF t = head.task THEN Arrives(Opening(w, t), Opening(w, t)')
                             ELSE Opening(w, t)' = Opening(w, t)
        BY <1>2, <1>7, RunningStep, ThreadMoves
      <3>5. /\ Copies(<<"tasks", w>>, t) = Positions(tasks[w], x)
            /\ Copies(<<"tasks", w>>, t)' = Positions(tasks'[w], x)
            /\ Copies(<<"calculating", w>>, t) = Opening(w, t)
            /\ Copies(<<"calculating", w>>, t)' = Opening(w, t)'
        BY <3>1, CopiesAtWorker, CopiesAtWorkerNext DEF Opening
      <3> QED
        BY <2>1, <3>2, <3>3, <3>4, <3>5, StaysEqual DEF Moved
    <2>4. Carries(Where, Where', <<"tasks", w>>, <<"calculating", w>>, head.task)
      BY <1>5, <2>3, PlacesKnown, Moves
    <2> QED
      BY <2>2, <2>4
  <1> QED
    BY <1>6, <1>7

(* The thread that calculates keeps its task, and so does one that sleeps or *)
(* wakes up.                                                                 *)
LEMMA SameTaskRests ==
    ASSUME NEW w \in Workers, NEW k \in Threads(w), OnlyThread(w, k),
           \/ /\ thread[w][k].pc \in {"idle", "asleep"}
              /\ thread'[w][k].pc \in {"idle", "asleep"}
           \/ /\ thread[w][k].pc = "calculate" /\ thread'[w][k].pc = "write"
              /\ thread'[w][k].task = thread[w][k].task
    PROVE  \A v \in Workers, t \in Tasks : /\ Opening(v, t)' = Opening(v, t)
                                           /\ Closing(v, t)' = Closing(v, t)
  <1> SUFFICES ASSUME NEW v \in Workers, NEW t \in Tasks
               PROVE  /\ Opening(v, t)' = Opening(v, t)
                      /\ Closing(v, t)' = Closing(v, t)
    OBVIOUS
  <1>1. CASE v # w
    BY <1>1, RunningStep
  <1>2. CASE v = w
    <2>1. /\ k \in Opening(w, t) <=> k \in Opening(w, t)'
          /\ k \in Closing(w, t) <=> k \in Closing(w, t)'
      BY RunningStep
    <2> QED
      BY <1>2, <2>1, ThreadMoves
  <1> QED
    BY <1>1, <1>2

(* WriteResult moves a task from the ones calculated by a thread to the ones *)
(* whose result is known.                                                    *)
LEMMA WriteResultMoves ==
    ASSUME Inv, NEW w \in Workers, NEW k \in Threads(w), WriteResult(w, k),
           UNCHANGED <<pipeVars, brokerVars, envVars>>
    PROVE  LET tau == thread[w][k].task.task
           IN  /\ tau \in Tasks
               /\ Carries(Where, Where', <<"calculating", w>>, <<"calculated", w>>, tau)
  <1> DEFINE tau == thread[w][k].task.task
  <1>1. /\ OnlyThread(w, k) /\ thread[w][k].pc = "write"
        /\ thread'[w][k].pc = "push" /\ thread'[w][k].task = thread[w][k].task
    BY ThreadSteps DEF Inv
  <1>2. tau \in Tasks
    BY <1>1 DEF Inv, TypeOK, ThreadsTypeOK, ThreadTypeOK, Calculating, WorkerTask
  <1>3. \A v \in Workers \ {w}, t \in Tasks : /\ Opening(v, t)' = Opening(v, t)
                                              /\ Closing(v, t)' = Closing(v, t)
    BY <1>1, RunningStep
  <1>4. \A p \in Places : p # <<"calculating", w>> /\ p # <<"calculated", w>> => Untouched(p)
    BY <1>3
       DEF WriteResult, Untouched, Opening, Closing, pipeVars, socketVars, brokerVars, envVars
  <1>5. ASSUME NEW t \in Tasks
        PROVE  Moved(t = tau, Copies(<<"calculating", w>>, t), Copies(<<"calculating", w>>, t)',
                     Copies(<<"calculated", w>>, t), Copies(<<"calculated", w>>, t)')
    <2>1. /\ k \in Opening(w, t) <=> tau = t
          /\ k \notin Opening(w, t)' /\ k \notin Closing(w, t)
          /\ k \in Closing(w, t)' <=> tau = t
      BY <1>1, RunningStep
    <2>2. Moved(t = tau, Opening(w, t), Opening(w, t)', Closing(w, t), Closing(w, t)')
      BY <1>1, <2>1, ThreadMoves, StaysEqual DEF Moved
    <2>3. /\ Copies(<<"calculating", w>>, t) = Opening(w, t)
          /\ Copies(<<"calculating", w>>, t)' = Opening(w, t)'
          /\ Copies(<<"calculated", w>>, t) = Closing(w, t)
          /\ Copies(<<"calculated", w>>, t)' = Closing(w, t)'
      BY CopiesAtWorker, CopiesAtWorkerNext DEF Opening, Closing
    <2> QED
      BY <2>2, <2>3
  <1>6. Carries(Where, Where', <<"calculating", w>>, <<"calculated", w>>, tau)
    BY <1>4, <1>5, PlacesKnown, Moves
  <1> QED
    BY <1>2, <1>6

(* PushFinished moves a task from a thread to the finished ones.             *)
LEMMA PushFinishedMoves ==
    ASSUME Inv, NEW w \in Workers, NEW k \in Threads(w), PushFinished(w, k),
           UNCHANGED <<pipeVars, brokerVars, envVars>>
    PROVE  \E tau \in Tasks :
              Carries(Where, Where', <<"calculated", w>>, <<"finished", w>>, tau)
  <1> DEFINE tau == thread[w][k].task.task
  <1>1. OnlyThread(w, k) /\ thread[w][k].pc = "push" /\ thread'[w][k].pc = "idle"
    BY ThreadSteps DEF Inv
  <1>2. tau \in Tasks /\ thread[w][k].task.identity = w
    BY <1>1 DEF Inv, OwnTasksOnly, OwnTasks, Calculating, TasksOf
  <1>3. finished \in [Workers -> Seq(WorkerTaskId)]
    BY DEF Inv, TypeOK, WorkersTypeOK
  <1>4. /\ finished'[w] = Append(finished[w], [identity |-> w, id |-> tau.id])
        /\ \A v \in Workers \ {w} : finished'[v] = finished[v]
    BY <1>2, <1>3 DEF PushFinished
  <1>5. ASSUME NEW t \in Tasks
        PROVE  /\ k \notin Opening(w, t) /\ k \notin Opening(w, t)'
               /\ k \in Closing(w, t) <=> tau = t
               /\ k \notin Closing(w, t)'
               /\ \A v \in Workers \ {w} : /\ Opening(v, t)' = Opening(v, t)
                                           /\ Closing(v, t)' = Closing(v, t)
    BY <1>1, RunningStep
  <1>6. \A v \in Workers, t \in Tasks : Opening(v, t)' = Opening(v, t)
    BY <1>1, <1>5, ThreadMoves
  <1>7. \A p \in Places : p # <<"calculated", w>> /\ p # <<"finished", w>> => Untouched(p)
    BY <1>4, <1>5, <1>6
       DEF PushFinished, Untouched, Opening, Closing, pipeVars, socketVars, brokerVars, envVars
  <1>8. ASSUME NEW t \in Tasks
        PROVE  Moved(t = tau, Copies(<<"calculated", w>>, t), Copies(<<"calculated", w>>, t)',
                     Copies(<<"finished", w>>, t), Copies(<<"finished", w>>, t)')
    <2>1. PICK x : x = [identity |-> w, id |-> t.id]
      OBVIOUS
    <2>2. PICK y : y = [identity |-> w, id |-> tau.id]
      OBVIOUS
    <2>3. y = x <=> t = tau
      BY <1>2, <2>1, <2>2, PoolAssumption
    <2>4. IF y = x THEN Arrives(Positions(finished[w], x), Positions(Append(finished[w], y), x))
                   ELSE Positions(Append(finished[w], y), x) = Positions(finished[w], x)
      BY <1>3, PositionsAppend
    <2>5. IF t = tau THEN Leaves(Closing(w, t), Closing(w, t)')
                     ELSE Closing(w, t)' = Closing(w, t)
      BY <1>1, <1>5, ThreadMoves
    <2>6. /\ Copies(<<"calculated", w>>, t) = Closing(w, t)
          /\ Copies(<<"calculated", w>>, t)' = Closing(w, t)'
          /\ Copies(<<"finished", w>>, t) = Positions(finished[w], x)
          /\ Copies(<<"finished", w>>, t)' = Positions(finished'[w], x)
      BY <2>1, CopiesAtWorker, CopiesAtWorkerNext DEF Closing
    <2> QED
      BY <1>4, <2>2, <2>3, <2>4, <2>5, <2>6, StaysEqual DEF Moved
  <1>9. Carries(Where, Where', <<"calculated", w>>, <<"finished", w>>, tau)
    BY <1>7, <1>8, PlacesKnown, Moves
  <1> QED
    BY <1>2, <1>9

(* CheckOutputQueue moves an answer to the DEALER socket.                    *)
LEMMA CheckOutputMoves ==
    ASSUME Inv, NEW w \in Workers, CheckOutputQueue(w), finished[w] # <<>>,
           UNCHANGED <<pipeVars, brokerVars, envVars>>
    PROVE  \E tau \in Tasks : Carries(Where, Where', <<"finished", w>>, <<"dealer", w>>, tau)
  <1> DEFINE head == Head(finished[w])
  <1>1. /\ finished \in [Workers -> Seq(WorkerTaskId)] /\ finished[w] \in Seq(AnswersOf(w))
        /\ dealer \in [Workers -> Seq(WorkerMessage)]
    BY DEF Inv, TypeOK, WorkersTypeOK, SocketsTypeOK, OwnTasksOnly, OwnTasks
  <1>2. head \in AnswersOf(w)
    BY <1>1
  <1>3. PICK tau \in Tasks : head = [identity |-> w, id |-> tau.id]
    BY <1>2 DEF AnswersOf, TaskId
  <1>4. /\ finished'[w] = Tail(finished[w])
        /\ dealer'[w] = Append(dealer[w], [data |-> "task_id", task_id |-> head])
        /\ \A v \in Workers \ {w} : finished'[v] = finished[v] /\ dealer'[v] = dealer[v]
    BY <1>1 DEF CheckOutputQueue
  <1>5. \A p \in Places : p # <<"finished", w>> /\ p # <<"dealer", w>> => Untouched(p)
    BY <1>4, RunningUnchanged
       DEF CheckOutputQueue, Untouched, pipeVars, brokerVars, envVars
  <1>6. ASSUME NEW t \in Tasks
        PROVE  Moved(t = tau, Copies(<<"finished", w>>, t), Copies(<<"finished", w>>, t)',
                     Copies(<<"dealer", w>>, t), Copies(<<"dealer", w>>, t)')
    <2>1. PICK x : x = [identity |-> w, id |-> t.id]
      OBVIOUS
    <2>2. PICK y : y = [data |-> "task_id", task_id |-> x]
      OBVIOUS
    <2>3. PICK z : z = [data |-> "task_id", task_id |-> head]
      OBVIOUS
    <2>4. (head = x <=> t = tau) /\ (z = y <=> head = x)
      BY <1>3, <2>1, <2>2, <2>3, PoolAssumption
    <2>5. Moved(head = x, Positions(finished[w], x), Positions(Tail(finished[w]), x),
                Positions(dealer[w], y), Positions(Append(dealer[w], z), y))
      BY <1>1, <2>4, QueueMove
    <2>6. /\ Copies(<<"finished", w>>, t) = Positions(finished[w], x)
          /\ Copies(<<"finished", w>>, t)' = Positions(finished'[w], x)
          /\ Copies(<<"dealer", w>>, t) = Positions(dealer[w], y)
          /\ Copies(<<"dealer", w>>, t)' = Positions(dealer'[w], y)
      BY <2>1, <2>2, CopiesAtWorker, CopiesAtWorkerNext
    <2> QED
      BY <1>4, <2>3, <2>4, <2>5, <2>6
  <1>7. Carries(Where, Where', <<"finished", w>>, <<"dealer", w>>, tau)
    BY <1>5, <1>6, PlacesKnown, Moves
  <1> QED
    BY <1>7

-----------------------------------------------------------------------------
(* The queue of the broker holds at most one task.  Only then is the task    *)
(* that SendTaskToWorkerFromQueue publishes, task_queue_.back(), the one it  *)
(* removes.                                                                  *)
QueueShort == Len(taskQueue) <= 1

(* Task tau arrives in the subscription of w, and nowhere else.              *)
Delivered(w, tau) ==
    \A t \in Tasks, v \in Workers :
        IF v = w /\ t = tau
        THEN Arrives(Copies(<<"pub", v>>, t), Copies(<<"pub", v>>, t)')
        ELSE Copies(<<"pub", v>>, t)' = Copies(<<"pub", v>>, t)

(* That is what publishing does when w is subscribed and there is room.      *)
LEMMA PublishArrives ==
    ASSUME Inv, NothingLost, NEW w \in Workers, w \in subscribed, NEW tau \in Tasks,
           NEW y, y = [identity |-> w, task |-> tau], Publish(y)
    PROVE  Delivered(w, tau)
  <1> SUFFICES ASSUME NEW t \in Tasks, NEW v \in Workers
               PROVE  IF v = w /\ t = tau
                      THEN Arrives(Copies(<<"pub", v>>, t), Copies(<<"pub", v>>, t)')
                      ELSE Copies(<<"pub", v>>, t)' = Copies(<<"pub", v>>, t)
    BY Zenon DEF Delivered
  <1>1. pub[v] \in Seq(WorkerTask)
    BY DEF Inv, TypeOK, SocketsTypeOK
  <1>2. PICK x : x = [identity |-> v, task |-> t]
    OBVIOUS
  <1>3. y = x <=> v = w /\ t = tau
    BY <1>2
  <1>4. IF v \in subscribed THEN pub'[v] = Append(pub[v], y) ELSE pub'[v] = pub[v]
    BY DEF Publish, NothingLost
  <1>5. IF y = x THEN Arrives(Positions(pub[v], x), Positions(Append(pub[v], y), x))
                 ELSE Positions(Append(pub[v], y), x) = Positions(pub[v], x)
    BY <1>1, PositionsAppend
  <1>6. /\ Copies(<<"pub", v>>, t) = Positions(pub[v], x)
        /\ Copies(<<"pub", v>>, t)' = Positions(pub'[v], x)
    BY <1>2, CopiesAtWorker, CopiesAtWorkerNext
  <1> QED
    BY <1>3, <1>4, <1>5, <1>6

(* ReceiveManagerRequest moves a task from the pipe to the queue or to the   *)
(* subscription of a worker.                                                 *)
LEMMA ReceiveManagerMoves ==
    ASSUME Inv, SubscribedFirst, NothingLost, ReceiveManagerRequest,
           UNCHANGED <<workerVars, db, envVars>>
    PROVE  \E b \in OpenPlaces :
              Carries(Where, Where', <<"task_pipe", "manager">>, b, Head(taskPipe))
  <1>1. taskPipe \in Seq(Tasks) /\ taskPipe # <<>> /\ taskPipe' = Tail(taskPipe)
    BY DEF Inv, TypeOK, PipesTypeOK, ReceiveManagerRequest
  <1>2. taskQueue \in Seq(Tasks)
    BY DEF Inv, TypeOK, BrokerTypeOK
  <1>0. PICK tau \in Tasks : tau = Head(taskPipe)
    BY <1>1
  <1>3. ASSUME NEW t \in Tasks
        PROVE  IF t = tau THEN Leaves(Copies(<<"task_pipe", "manager">>, t),
                                      Copies(<<"task_pipe", "manager">>, t)')
                          ELSE Stays(Copies(<<"task_pipe", "manager">>, t),
                                     Copies(<<"task_pipe", "manager">>, t)')
    <2>1. IF tau = t THEN Leaves(Positions(taskPipe, t), Positions(Tail(taskPipe), t))
                     ELSE Stays(Positions(taskPipe, t), Positions(Tail(taskPipe), t))
      BY <1>0, <1>1, PositionsTail
    <2> QED
      BY <1>1, <2>1, CopiesAt, CopiesAtNext
  <1>4. CASE taskQueue' = Append(taskQueue, tau) /\ UNCHANGED pub
    <2>1. \A p \in Places :
             p # <<"task_pipe", "manager">> /\ p # <<"task_queue", "broker">> => Untouched(p)
      BY <1>4, RunningUnchanged
         DEF ReceiveManagerRequest, Untouched, workerVars, envVars
    <2>2. ASSUME NEW t \in Tasks
          PROVE  IF t = tau THEN Arrives(Copies(<<"task_queue", "broker">>, t),
                                         Copies(<<"task_queue", "broker">>, t)')
                            ELSE Stays(Copies(<<"task_queue", "broker">>, t),
                                       Copies(<<"task_queue", "broker">>, t)')
      <3>1. IF tau = t THEN Arrives(Positions(taskQueue, t), Positions(Append(taskQueue, tau), t))
                       ELSE Positions(Append(taskQueue, tau), t) = Positions(taskQueue, t)
        BY <1>2, PositionsAppend
      <3> QED
        BY <1>4, <3>1, CopiesAt, CopiesAtNext, StaysEqual
    <2>3. Carries(Where, Where', <<"task_pipe", "manager">>, <<"task_queue", "broker">>, tau)
      BY <1>3, <2>1, <2>2, PlacesKnown, Moves DEF Moved
    <2> QED
      BY <1>0, <2>3, PlacesKnown
  <1>5. ASSUME NEW w \in Registered, Publish([identity |-> w, task |-> tau]), UNCHANGED taskQueue
        PROVE  \E b \in OpenPlaces :
                  Carries(Where, Where', <<"task_pipe", "manager">>, b, tau)
    <2>1. w \in Workers /\ w \in subscribed
      BY DEF Inv, TypeOK, BrokerTypeOK, SubscribedFirst
    <2>2. Delivered(w, tau)
      <3>1. PICK y : y = [identity |-> w, task |-> tau]
        OBVIOUS
      <3>2. Publish(y)
        BY <1>5, <3>1
      <3> QED
        BY <2>1, <3>1, <3>2, PublishArrives
    <2>3. ASSUME NEW p \in Places, NEW t \in Tasks, p # <<"task_pipe", "manager">>, p # <<"pub", w>>
          PROVE  Copies(p, t)' = Copies(p, t)
      <3>1. CASE \E v \in Workers : p = <<"pub", v>>
        BY <2>2, <2>3, <3>1 DEF Delivered
      <3>2. CASE \A v \in Workers : p # <<"pub", v>>
        <4>1. Untouched(p)
          BY <1>5, <2>3, <3>2, RunningUnchanged
             DEF ReceiveManagerRequest, Untouched, workerVars, envVars
        <4> QED
          BY <4>1, CopiesUntouched
      <3> QED
        BY <3>1, <3>2
    <2>4. \A t \in Tasks : Moved(t = tau,
             Copies(<<"task_pipe", "manager">>, t), Copies(<<"task_pipe", "manager">>, t)',
             Copies(<<"pub", w>>, t), Copies(<<"pub", w>>, t)')
      BY <1>3, <2>1, <2>2, StaysEqual DEF Delivered, Moved
    <2>5. Carries(Where, Where', <<"task_pipe", "manager">>, <<"pub", w>>, tau)
      BY <2>1, <2>3, <2>4, PlacesKnown, MovesCopies
    <2> QED
      BY <1>0, <2>1, <2>5, PlacesKnown
  <1> QED
    BY <1>0, <1>4, <1>5 DEF ReceiveManagerRequest, SendTaskToWorker, SendTaskToWorkerImpl

(* The head of a worker's messages is its own, and names a task.             *)
LEMMA MessageHead ==
    ASSUME Inv, NEW w \in Workers, dealer[w] # <<>>, Head(dealer[w]).data # "core_count"
    PROVE  \E tau \in Tasks :
              /\ Head(dealer[w]).task_id = [identity |-> w, id |-> tau.id]
              /\ \A t \in Tasks :
                    Head(dealer[w]) = [data |-> "task_id", task_id |-> [identity |-> w, id |-> t.id]]
                      <=> t = tau
  <1>1. Head(dealer[w]) \in MessagesOf(w)
    <2>1. dealer[w] \in Seq(MessagesOf(w))
      BY DEF Inv, OwnTasksOnly, OwnTasks
    <2> QED
      BY <2>1
  <1>2. Head(dealer[w]) \in [data : {"task_id"}, task_id : AnswersOf(w)]
    BY <1>1 DEF MessagesOf
  <1>3. PICK answer \in AnswersOf(w) : Head(dealer[w]) = [data |-> "task_id", task_id |-> answer]
    BY <1>2
  <1>4. PICK tau \in Tasks : answer = [identity |-> w, id |-> tau.id]
    BY DEF AnswersOf, TaskId
  <1> QED
    BY <1>3, <1>4, PoolAssumption

(* ReceiveWorkerMessage does not move a task when it registers a worker; ... *)
LEMMA RegisterRests ==
    ASSUME Inv, NEW w \in Workers, ReceiveWorkerMessage(w), Head(dealer[w]).data = "core_count",
           UNCHANGED <<workerVars, db, envVars>>
    PROVE  Keeps(Where, Where')
  <1>1. dealer \in [Workers -> Seq(WorkerMessage)] /\ dealer[w] # <<>>
    BY DEF Inv, TypeOK, SocketsTypeOK, ReceiveWorkerMessage
  <1>2. /\ dealer'[w] = Tail(dealer[w])
        /\ \A v \in Workers \ {w} : dealer'[v] = dealer[v]
        /\ UNCHANGED <<taskQueue, sending, pub>>
    BY <1>1 DEF ReceiveWorkerMessage, RegisterWorker
  <1>3. \A p \in Places : p # <<"dealer", w>> => Untouched(p)
    BY <1>2, RunningUnchanged
       DEF ReceiveWorkerMessage, Untouched, pipeVars, workerVars, envVars
  <1>4. ASSUME NEW t \in Tasks
        PROVE  Stays(Copies(<<"dealer", w>>, t), Copies(<<"dealer", w>>, t)')
    <2>1. PICK x : x = [data |-> "task_id", task_id |-> [identity |-> w, id |-> t.id]]
      OBVIOUS
    <2>2. Head(dealer[w]) # x
      BY <2>1
    <2>3. Stays(Positions(dealer[w], x), Positions(Tail(dealer[w]), x))
      BY <1>1, <2>2, PositionsTail
    <2>4. /\ Copies(<<"dealer", w>>, t) = Positions(dealer[w], x)
          /\ Copies(<<"dealer", w>>, t)' = Positions(dealer'[w], x)
      BY <2>1, CopiesAtWorker, CopiesAtWorkerNext
    <2> QED
      BY <1>2, <2>3, <2>4
  <1> QED
    BY <1>3, <1>4, CopiesUntouched, StaysEqual DEF Keeps, Where

(* ... it moves an answer from the DEALER socket to the broker's hand, and a *)
(* queued task to the subscription of the worker that has answered.          *)
LEMMA ReplyMoves ==
    ASSUME Inv, SubscribedFirst, NothingLost, QueueShort, NEW w \in Workers,
           ReceiveWorkerMessage(w), Head(dealer[w]).data # "core_count",
           UNCHANGED <<workerVars, db, envVars>>
    PROVE  \E tau \in Tasks :
              \/ Carries(Where, Where', <<"dealer", w>>, <<"sending", "broker">>, tau)
              \/ \E H : \E sigma \in Tasks :
                    /\ Carries(Where, H, <<"dealer", w>>, <<"sending", "broker">>, tau)
                    /\ Carries(H, Where', <<"task_queue", "broker">>, <<"pub", w>>, sigma)
  <1> DEFINE D == <<"dealer", w>>
  <1> DEFINE S == <<"sending", "broker">>
  <1> DEFINE Q == <<"task_queue", "broker">>
  <1> DEFINE P == <<"pub", w>>
  <1>1. /\ dealer \in [Workers -> Seq(WorkerMessage)] /\ dealer[w] # <<>> /\ sending = <<>>
        /\ taskQueue \in Seq(Tasks) /\ w \in subscribed
    BY DEF Inv, TypeOK, SocketsTypeOK, BrokerTypeOK, ReceiveWorkerMessage, SubscribedFirst
  <1>2. PICK tau \in Tasks :
              /\ Head(dealer[w]).task_id = [identity |-> w, id |-> tau.id]
              /\ \A t \in Tasks :
                    Head(dealer[w]) = [data |-> "task_id", task_id |-> [identity |-> w, id |-> t.id]]
                      <=> t = tau
    BY <1>1, MessageHead
  <1>3. /\ dealer'[w] = Tail(dealer[w])
        /\ \A v \in Workers \ {w} : dealer'[v] = dealer[v]
        /\ sending' = <<tau.id>> /\ ProcessWorkerTaskReply(Head(dealer[w]).task_id)
    BY <1>1, <1>2 DEF ReceiveWorkerMessage, ProcessWorkerTaskReply
  <1>4. ASSUME NEW t \in Tasks
        PROVE  Moved(t = tau, Copies(D, t), Copies(D, t)', Copies(S, t), Copies(S, t)')
    <2>1. PICK x : x = [data |-> "task_id", task_id |-> [identity |-> w, id |-> t.id]]
      OBVIOUS
    <2>2. (Head(dealer[w]) = x <=> t = tau) /\ (tau.id = t.id <=> t = tau)
      BY <1>2, <2>1, PoolAssumption
    <2>3. sending' = Append(<<>>, tau.id) /\ <<>> \in Seq(TaskId)
      BY <1>3
    <2>4. Moved(Head(dealer[w]) = x, Positions(dealer[w], x), Positions(Tail(dealer[w]), x),
                Positions(<<>>, t.id), Positions(Append(<<>>, tau.id), t.id))
      BY <1>1, <2>2, <2>3, QueueMove
    <2>5. /\ Copies(D, t) = Positions(dealer[w], x) /\ Copies(D, t)' = Positions(dealer'[w], x)
          /\ Copies(S, t) = Positions(sending, t.id) /\ Copies(S, t)' = Positions(sending', t.id)
      BY <2>1, CopiesAt, CopiesAtNext, CopiesAtWorker, CopiesAtWorkerNext
    <2> QED
      BY <1>1, <1>3, <2>2, <2>3, <2>4, <2>5
  <1>5. \A p \in Places : p # D /\ p # S /\ p # Q /\ (\A v \in Workers : p # <<"pub", v>>)
           => Untouched(p)
    BY <1>3, RunningUnchanged
       DEF ReceiveWorkerMessage, Untouched, pipeVars, workerVars, envVars
  <1>6. CASE taskQueue = <<>>
    <2>1. UNCHANGED <<taskQueue, pub>>
      BY <1>3, <1>6 DEF ProcessWorkerTaskReply
    <2>2. \A p \in Places : p # D /\ p # S => Untouched(p)
      BY <1>3, <2>1, RunningUnchanged
         DEF ReceiveWorkerMessage, Untouched, pipeVars, workerVars, envVars
    <2>3. Carries(Where, Where', D, S, tau)
      BY <1>4, <2>2, PlacesKnown, Moves
    <2> QED
      BY <2>3
  <1>7. CASE taskQueue # <<>>
    <2> DEFINE H == [t \in Tasks |->
                       [p \in Places |-> IF p = D \/ p = S THEN Copies(p, t)' ELSE Copies(p, t)]]
    <2>1. PICK sigma \in Tasks : sigma = Head(taskQueue)
      BY <1>1, <1>7
    <2>2. taskQueue[Len(taskQueue)] = sigma
      BY <1>1, <1>7, <2>1 DEF QueueShort
    <2>3. /\ Publish([identity |-> w, task |-> sigma])
          /\ taskQueue' = Tail(taskQueue)
      BY <1>2, <1>3, <1>7, <2>2
         DEF ProcessWorkerTaskReply, SendTaskToWorkerFromQueue, SendTaskToWorkerImpl
    <2>4. Delivered(w, sigma)
      <3>1. PICK y : y = [identity |-> w, task |-> sigma]
        OBVIOUS
      <3>2. Publish(y)
        BY <2>3, <3>1
      <3> QED
        BY <1>1, <3>1, <3>2, PublishArrives
    <2>5. ASSUME NEW t \in Tasks
          PROVE  Moved(t = sigma, Copies(Q, t), Copies(Q, t)', Copies(P, t), Copies(P, t)')
      <3>1. IF sigma = t THEN Leaves(Positions(taskQueue, t), Positions(Tail(taskQueue), t))
                         ELSE Stays(Positions(taskQueue, t), Positions(Tail(taskQueue), t))
        BY <1>1, <1>7, <2>1, PositionsTail
      <3>2. /\ Copies(Q, t) = Positions(taskQueue, t) /\ Copies(Q, t)' = Positions(taskQueue', t)
        BY CopiesAt, CopiesAtNext
      <3>3. IF t = sigma THEN Arrives(Copies(P, t), Copies(P, t)')
                         ELSE Copies(P, t)' = Copies(P, t)
        BY <2>4 DEF Delivered
      <3> QED
        BY <2>3, <3>1, <3>2, <3>3, StaysEqual DEF Moved
    <2>6. ASSUME NEW p \in Places, NEW t \in Tasks, p # D, p # S, p # Q, p # P
          PROVE  Copies(p, t)' = Copies(p, t)
      <3>1. CASE \E v \in Workers : p = <<"pub", v>>
        BY <2>4, <2>6, <3>1 DEF Delivered
      <3>2. CASE \A v \in Workers : p # <<"pub", v>>
        BY <1>5, <2>6, <3>2, CopiesUntouched
      <3> QED
        BY <3>1, <3>2
    <2>7. /\ D \in Places /\ S \in Places /\ Q \in Places /\ P \in Places
          /\ D # S /\ Q # P /\ D # Q /\ D # P /\ S # Q /\ S # P
      BY PlacesKnown
    <2>8. \A t \in Tasks, p \in Places :
             /\ Where[t][p] = Copies(p, t) /\ Where'[t][p] = Copies(p, t)'
             /\ H[t][p] = IF p = D \/ p = S THEN Copies(p, t)' ELSE Copies(p, t)
      BY DEF Where
    <2> HIDE DEF H
    <2>9. Carries(Where, H, D, S, tau)
      BY <1>4, <2>7, <2>8 DEF Carries
    <2>10. Carries(H, Where', Q, P, sigma)
      BY <2>5, <2>6, <2>7, <2>8 DEF Carries
    <2> QED
      BY <2>9, <2>10
  <1> QED
    BY <1>6, <1>7

-----------------------------------------------------------------------------
(* A step that moves at most one task, and only among the places outside the *)
(* pool, those where it waits for its result, or those where it has one.     *)
Shifts(F, G) ==
    \/ Keeps(F, G)
    \/ \E group \in {OutsidePlaces, OpenPlaces, ComputedPlaces} :
          \E a, b \in group, tau \in Tasks : Carries(F, G, a, b, tau)

(* It is invisible in the task service.                                      *)
LEMMA ShiftKeeps ==
    ASSUME NEW F, NEW G, NEW U, Shifts(F, G), Sole(F, U)
    PROVE  /\ Sole(G, U)
           /\ Among(G, OpenPlaces) = Among(F, OpenPlaces)
           /\ Among(G, ComputedPlaces) = Among(F, ComputedPlaces)
  <1>1. CASE Keeps(F, G)
    BY <1>1, KeepsKeeps, PlacesKnown
  <1>2. ASSUME NEW group \in {OutsidePlaces, OpenPlaces, ComputedPlaces},
               NEW a \in group, NEW b \in group, NEW tau \in Tasks, Carries(F, G, a, b, tau)
        PROVE  /\ Sole(G, U)
               /\ Among(G, OpenPlaces) = Among(F, OpenPlaces)
               /\ Among(G, ComputedPlaces) = Among(F, ComputedPlaces)
    <2>1. /\ a \in OpenPlaces <=> b \in OpenPlaces
          /\ a \in ComputedPlaces <=> b \in ComputedPlaces
      BY DEF OutsidePlaces, OpenPlaces, ComputedPlaces
    <2>2. Among(G, OpenPlaces) = Among(F, OpenPlaces)
      <3>1. \A t \in Tasks : t \in Among(G, OpenPlaces) <=> t \in Among(F, OpenPlaces)
        BY <1>2, <2>1, CarryAmong, PlacesKnown
      <3> QED
        BY <3>1 DEF Among
    <2>3. Among(G, ComputedPlaces) = Among(F, ComputedPlaces)
      <3>1. \A t \in Tasks : t \in Among(G, ComputedPlaces) <=> t \in Among(F, ComputedPlaces)
        BY <1>2, <2>1, CarryAmong, PlacesKnown
      <3> QED
        BY <3>1 DEF Among
    <2>4. Sole(G, U)
      BY <1>2, CarryKeeps
    <2> QED
      BY <2>2, <2>3, <2>4
  <1> QED
    BY <1>1, <1>2 DEF Shifts

(* SendAckMessage puts no answer on the DEALER socket.                       *)
LEMMA SendAckRests ==
    ASSUME Inv, NEW w \in Workers, SendAckMessage(w), UNCHANGED <<pipeVars, brokerVars, envVars>>
    PROVE  Keeps(Where, Where')
  <1>1. PICK y : y = [data |-> "core_count", core_count |-> CoreCount[w] - 1]
    OBVIOUS
  <1>2. dealer \in [Workers -> Seq(WorkerMessage)]
    BY DEF Inv, TypeOK, SocketsTypeOK
  <1>3. /\ dealer'[w] = Append(dealer[w], y)
        /\ \A v \in Workers \ {w} : dealer'[v] = dealer[v]
    BY <1>1, <1>2 DEF SendAckMessage
  <1>4. \A p \in Places : p # <<"dealer", w>> => Untouched(p)
    BY <1>3, RunningUnchanged DEF SendAckMessage, Untouched, pipeVars, brokerVars, envVars
  <1>5. ASSUME NEW t \in Tasks
        PROVE  Copies(<<"dealer", w>>, t)' = Copies(<<"dealer", w>>, t)
    <2>1. PICK x : x = [data |-> "task_id", task_id |-> [identity |-> w, id |-> t.id]]
      OBVIOUS
    <2>2. y # x
      BY <1>1, <2>1
    <2>3. Positions(Append(dealer[w], y), x) = Positions(dealer[w], x)
      BY <1>2, <2>2, PositionsAppend
    <2>4. /\ Copies(<<"dealer", w>>, t) = Positions(dealer[w], x)
          /\ Copies(<<"dealer", w>>, t)' = Positions(dealer'[w], x)
      BY <2>1, CopiesAtWorker, CopiesAtWorkerNext
    <2> QED
      BY <1>3, <2>3, <2>4
  <1> QED
    BY <1>4, <1>5, CopiesUntouched, StaysEqual DEF Keeps, Where

(* A worker that stays up only shifts tasks, but for the write of a result.  *)
LEMMA WorkerShifts ==
    ASSUME Inv, NEW w \in Workers, WorkerStep(w), ~Terminate(w),
           \A k \in Threads(w) : ~WriteResult(w, k)
    PROVE  Shifts(Where, Where') /\ UNCHANGED db
  <1>1. UNCHANGED <<pipeVars, brokerVars, envVars>> /\ WorkerNext(w) /\ TypeOK
    BY DEF WorkerStep, Inv
  <1>2. ASSUME UNCHANGED <<pub, dealer, tasks, finished>>,
               \A v \in Workers, t \in Tasks : /\ Opening(v, t)' = Opening(v, t)
                                               /\ Closing(v, t)' = Closing(v, t)
        PROVE  Keeps(Where, Where')
    <2>1. \A p \in Places : Untouched(p)
      BY <1>1, <1>2 DEF Untouched, Opening, Closing, pipeVars, brokerVars, envVars
    <2> QED
      BY <2>1, Rests
  <1>3. ASSUME UNCHANGED <<pub, dealer, tasks, finished, thread>>
        PROVE  Keeps(Where, Where')
    BY <1>2, <1>3, RunningUnchanged DEF Opening, Closing
  <1>4. ASSUME NEW k \in Threads(w), SpuriousWakeup(w, k) \/ CalculateTask(w, k)
        PROVE  Keeps(Where, Where') /\ UNCHANGED db
    <2>1. OnlyThread(w, k)
          /\ \/ /\ thread[w][k].pc \in {"idle", "asleep"}
                /\ thread'[w][k].pc \in {"idle", "asleep"}
             \/ /\ thread[w][k].pc = "calculate" /\ thread'[w][k].pc = "write"
                /\ thread'[w][k].task = thread[w][k].task
      BY <1>1, <1>4, ThreadSteps
    <2>2. UNCHANGED <<pub, dealer, tasks, finished, db>>
      BY <1>4 DEF SpuriousWakeup, CalculateTask, socketVars
    <2> QED
      BY <1>2, <2>1, <2>2, SameTaskRests
  <1>5. CASE NotifyOne(w)
    <2>1. UNCHANGED <<pub, dealer, tasks, finished, db>>
      BY <1>5 DEF NotifyOne, socketVars
    <2>2. CASE UNCHANGED thread
      BY <1>3, <2>1, <2>2 DEF Shifts
    <2>3. ASSUME NEW k \in Threads(w), OnlyThread(w, k), thread[w][k].pc = "asleep",
                 thread'[w][k].pc = "idle"
          PROVE  Keeps(Where, Where')
      BY <1>2, <2>1, <2>3, SameTaskRests
    <2> QED
      BY <1>1, <1>5, <2>1, <2>2, <2>3, NotifyThreads DEF Shifts
  <1>6. CASE Subscribe(w) \/ NothingToRead(w) \/ (CheckOutputQueue(w) /\ finished[w] = <<>>)
    BY <1>3, <1>6 DEF Shifts, Subscribe, NothingToRead, CheckOutputQueue, socketVars, workerVars
  <1>7. CASE SendAckMessage(w)
    BY <1>1, <1>7, SendAckRests DEF Shifts, SendAckMessage
  <1>8. CASE ReadRequest(w)
    <2>1. UNCHANGED db
      BY <1>8 DEF ReadRequest
    <2> QED
      BY <1>1, <1>8, <2>1, ReadRequestMoves, PlacesKnown DEF Shifts
  <1>9. CASE CheckOutputQueue(w) /\ finished[w] # <<>>
    <2>1. UNCHANGED db
      BY <1>9 DEF CheckOutputQueue
    <2> QED
      BY <1>1, <1>9, <2>1, CheckOutputMoves, PlacesKnown DEF Shifts
  <1>10. ASSUME NEW k \in Threads(w), TakeTask(w, k)
         PROVE  Shifts(Where, Where') /\ UNCHANGED db
    <2>1. UNCHANGED db
      BY <1>10 DEF TakeTask
    <2> QED
      BY <1>1, <1>10, <2>1, TakeTaskMoves, PlacesKnown DEF Shifts
  <1>11. ASSUME NEW k \in Threads(w), PushFinished(w, k)
         PROVE  Shifts(Where, Where') /\ UNCHANGED db
    <2>1. UNCHANGED db
      BY <1>11 DEF PushFinished
    <2> QED
      BY <1>1, <1>11, <2>1, PushFinishedMoves, PlacesKnown DEF Shifts
  <1> QED
    BY <1>1, <1>4, <1>5, <1>6, <1>7, <1>8, <1>9, <1>10, <1>11
       DEF Shifts, WorkerNext, MainStep, ThreadStep

-----------------------------------------------------------------------------
(* The inductive invariant: every task sent has one copy in one place, and   *)
(* the others have none.                                                     *)
OnceInv == Sole(Where, unsent)

(* SendRequest makes the first copy of a task, on the pipe.                  *)
LEMMA SendRequestSends ==
    ASSUME Inv, OnceInv, NEW tau \in Tasks, SendRequest(tau)
    PROVE  /\ Sole(Where', unsent')
           /\ Among(Where', OpenPlaces) = Among(Where, OpenPlaces)
           /\ Among(Where', ComputedPlaces) = Among(Where, ComputedPlaces)
  <1> DEFINE P == <<"task_pipe", "manager">>
  <1>1. /\ taskPipe \in Seq(Tasks) /\ taskPipe' = Append(taskPipe, tau)
        /\ tau \in unsent /\ unsent' = unsent \ {tau}
    BY DEF Inv, TypeOK, PipesTypeOK, SendRequest, SendOnTaskPipe
  <1>2. \A t \in Tasks, p \in Places : Where[t][p] = Copies(p, t) /\ Where'[t][p] = Copies(p, t)'
    BY DEF Where
  <1>3. \A p \in Places : p # P => Untouched(p)
    BY RunningUnchanged DEF SendRequest, Untouched, socketVars, brokerVars, workerVars
  <1>4. \A t \in Tasks, p \in Places : p # P => Where'[t][p] = Where[t][p]
    BY <1>2, <1>3, CopiesUntouched
  <1>5. P \in Places /\ P \notin OpenPlaces /\ P \notin ComputedPlaces
    BY PlacesKnown DEF OpenPlaces, ComputedPlaces
  <1>6. ASSUME NEW t \in Tasks
        PROVE  IF t = tau THEN Arrives(Where[t][P], Where'[t][P]) ELSE Where'[t][P] = Where[t][P]
    <2>1. IF tau = t THEN Arrives(Positions(taskPipe, t), Positions(Append(taskPipe, tau), t))
                     ELSE Positions(Append(taskPipe, tau), t) = Positions(taskPipe, t)
      BY <1>1, PositionsAppend
    <2> QED
      BY <1>1, <1>2, <1>5, <2>1, CopiesAt, CopiesAtNext
  <1>7. Sole(Where', unsent')
    <2> SUFFICES ASSUME NEW t \in Tasks
                 PROVE  IF t \in unsent' THEN \A p \in Places : Where'[t][p] = {}
                        ELSE Single(Where'[t])
      BY DEF Sole
    <2>1. CASE t = tau
      <3>1. \A p \in Places : Where[t][p] = {}
        BY <1>1, <2>1 DEF OnceInv, Sole
      <3>2. \A p \in Places : p # P => Where'[t][p] = {}
        BY <1>4, <3>1
      <3>3. \E i : Where'[t][P] = {i}
        BY <1>5, <1>6, <2>1, <3>1 DEF Arrives
      <3> QED
        BY <1>1, <1>5, <2>1, <3>2, <3>3 DEF Single
    <2>2. CASE t # tau
      <3>1. \A p \in Places : Where'[t][p] = Where[t][p]
        BY <1>4, <1>6, <2>2
      <3>2. t \in unsent' <=> t \in unsent
        BY <1>1, <2>2
      <3>3. CASE t \in unsent
        BY <3>1, <3>2, <3>3 DEF OnceInv, Sole
      <3>4. CASE t \notin unsent
        <4>1. PICK p \in Places : /\ \E i : Where[t][p] = {i}
                                  /\ \A q \in Places : q # p => Where[t][q] = {}
          BY <3>4 DEF OnceInv, Sole, Single
        <4>2. /\ \E i : Where'[t][p] = {i}
              /\ \A q \in Places : q # p => Where'[t][q] = {}
          BY <3>1, <4>1
        <4> QED
          BY <3>2, <3>4, <4>2 DEF Single
      <3> QED
        BY <3>3, <3>4
    <2> QED
      BY <2>1, <2>2
  <1>8. Among(Where', OpenPlaces) = Among(Where, OpenPlaces)
    <2>1. \A t \in Tasks, p \in OpenPlaces : Where'[t][p] = Where[t][p]
      BY <1>4, <1>5, PlacesKnown
    <2> QED
      BY <2>1 DEF Among
  <1>9. Among(Where', ComputedPlaces) = Among(Where, ComputedPlaces)
    <2>1. \A t \in Tasks, p \in ComputedPlaces : Where'[t][p] = Where[t][p]
      BY <1>4, <1>5, PlacesKnown
    <2> QED
      BY <2>1 DEF Among
  <1> QED
    BY <1>7, <1>8, <1>9

(* A step of the broker, but for the two that take a task from the manager   *)
(* and report one to it, shifts at most two tasks.                           *)
LEMMA BrokerShifts ==
    ASSUME Inv, SubscribedFirst, NothingLost, QueueShort, UNCHANGED <<workerVars, db, envVars>>,
           BrokerPoll \/ \E w \in Workers : ReceiveWorkerMessage(w)
    PROVE  \E H : Shifts(Where, H) /\ Shifts(H, Where')
  <1>1. ASSUME Keeps(Where, Where')
        PROVE  \E H : Shifts(Where, H) /\ Shifts(H, Where')
    <2>1. Keeps(Where, Where)
      BY StaysEqual DEF Keeps
    <2> QED
      BY <1>1, <2>1 DEF Shifts
  <1>2. CASE BrokerPoll
    <2>1. \A p \in Places : Untouched(p)
      BY <1>2, RunningUnchanged
         DEF BrokerPoll, Untouched, pipeVars, socketVars, workerVars, envVars
    <2> QED
      BY <1>1, <2>1, Rests
  <1>3. ASSUME NEW w \in Workers, ReceiveWorkerMessage(w)
        PROVE  \E H : Shifts(Where, H) /\ Shifts(H, Where')
    <2>1. CASE Head(dealer[w]).data = "core_count"
      BY <1>1, <1>3, <2>1, RegisterRests
    <2>2. CASE Head(dealer[w]).data # "core_count"
      <3>1. PICK tau \in Tasks :
              \/ Carries(Where, Where', <<"dealer", w>>, <<"sending", "broker">>, tau)
              \/ \E H : \E sigma \in Tasks :
                    /\ Carries(Where, H, <<"dealer", w>>, <<"sending", "broker">>, tau)
                    /\ Carries(H, Where', <<"task_queue", "broker">>, <<"pub", w>>, sigma)
        BY <1>3, <2>2, ReplyMoves
      <3>2. CASE Carries(Where, Where', <<"dealer", w>>, <<"sending", "broker">>, tau)
        <4>1. Shifts(Where, Where')
          BY <3>2, PlacesKnown DEF Shifts
        <4>2. Shifts(Where', Where')
          BY StaysEqual DEF Keeps, Shifts
        <4> QED
          BY <4>1, <4>2
      <3>3. ASSUME NEW H, NEW sigma \in Tasks,
                   Carries(Where, H, <<"dealer", w>>, <<"sending", "broker">>, tau),
                   Carries(H, Where', <<"task_queue", "broker">>, <<"pub", w>>, sigma)
            PROVE  Shifts(Where, H) /\ Shifts(H, Where')
        BY <3>3, PlacesKnown DEF Shifts
      <3> QED
        BY <3>1, <3>2, <3>3
    <2> QED
      BY <2>1, <2>2
  <1> QED
    BY <1>2, <1>3

(* Every step keeps every task sent in one place.                            *)
LEMMA OnceStep ==
    ASSUME Inv, SubscribedFirst, NothingLost, NothingLost', QueueShort, OnceInv, Next
    PROVE  OnceInv'
  <1> SUFFICES Sole(Where', unsent')
    BY DEF OnceInv
  <1>1. ASSUME UNCHANGED unsent, NEW a, NEW b, NEW tau, Carries(Where, Where', a, b, tau)
        PROVE  Sole(Where', unsent')
    BY <1>1, CarryKeeps DEF OnceInv
  <1>2. ASSUME UNCHANGED unsent, Shifts(Where, Where')
        PROVE  Sole(Where', unsent')
    BY <1>2, ShiftKeeps DEF OnceInv
  <1>3. CASE BrokerStep
    <2>1. UNCHANGED <<workerVars, db, envVars>> /\ UNCHANGED unsent
      BY <1>3 DEF BrokerStep, envVars
    <2>2. CASE SendResultToManager
      BY <1>1, <2>1, <2>2, SendResultMoves
    <2>3. CASE ReceiveManagerRequest
      BY <1>1, <2>1, <2>3, ReceiveManagerMoves
    <2>4. CASE BrokerPoll \/ \E w \in Workers : ReceiveWorkerMessage(w)
      BY <2>1, <2>4, BrokerShifts, ShiftKeeps DEF OnceInv
    <2> QED
      BY <1>3, <2>2, <2>3, <2>4 DEF BrokerStep, BrokerNext
  <1>4. ASSUME NEW w \in Workers, WorkerStep(w)
        PROVE  Sole(Where', unsent')
    <2>1. UNCHANGED <<pipeVars, brokerVars, envVars>> /\ UNCHANGED unsent /\ ~Terminate(w)
      BY <1>4, StaysUp DEF WorkerStep, envVars, Inv
    <2>2. ASSUME NEW k \in Threads(w), WriteResult(w, k)
          PROVE  Sole(Where', unsent')
      BY <1>1, <2>1, <2>2, WriteResultMoves
    <2>3. CASE \A k \in Threads(w) : ~WriteResult(w, k)
      BY <1>2, <1>4, <2>1, <2>3, WorkerShifts
    <2> QED
      BY <2>2, <2>3
  <1>5. ASSUME NEW w \in Workers PROVE ~StopWorker(w) /\ ~RestartWorker(w)
    BY StaysUp DEF Inv, StopWorker, RestartWorker, NothingLost
  <1>6. ASSUME NEW task \in Tasks, SendRequest(task)
        PROVE  Sole(Where', unsent')
    BY <1>6, SendRequestSends
  <1>7. CASE ReadReply
    <2>1. UNCHANGED unsent
      BY <1>7 DEF ReadReply
    <2> QED
      BY <1>1, <1>7, <2>1, ReadReplyMoves
  <1> QED
    BY <1>3, <1>4, <1>5, <1>6, <1>7 DEF Next

(* At the start no task is anywhere.                                         *)
LEMMA OnceInit == Init => OnceInv
  <1> SUFFICES ASSUME Init, NEW t \in Tasks, NEW p \in Places
               PROVE  Copies(p, t) = {}
    BY DEF OnceInv, Sole, Where, Init
  <1>1. /\ taskPipe = <<>> /\ replyPipe = <<>> /\ received = <<>> /\ taskQueue = <<>>
        /\ sending = <<>>
    BY DEF Init, PipeInit, BrokerInit
  <1>2. \A w \in Workers : /\ pub[w] = <<>> /\ tasks[w] = <<>> /\ finished[w] = <<>>
                           /\ dealer[w] = <<>>
    BY DEF Init, SocketsInit, WorkerInit
  <1>3. \A x : Positions(<<>>, x) = {}
    BY DEF Positions
  <1>4. \A w \in Workers : Opening(w, t) = {} /\ Closing(w, t) = {}
    BY DEF Init, WorkerInit, Opening, Closing, Running, Threads, Idle
  <1>5. CASE \/ p = <<"task_pipe", "manager">> \/ p = <<"reply_pipe", "manager">>
             \/ p = <<"received", "manager">>
             \/ p = <<"task_queue", "broker">> \/ p = <<"sending", "broker">>
    BY <1>1, <1>3, <1>5, CopiesAt
  <1>6. ASSUME NEW w \in Workers,
               \/ p = <<"pub", w>> \/ p = <<"tasks", w>>
               \/ p = <<"calculating", w>> \/ p = <<"calculated", w>>
               \/ p = <<"finished", w>> \/ p = <<"dealer", w>>
        PROVE  Copies(p, t) = {}
    <2>1. CASE p = <<"calculating", w>> \/ p = <<"calculated", w>>
      BY <1>4, <2>1 DEF Copies, Opening, Closing
    <2>2. CASE \/ p = <<"pub", w>> \/ p = <<"tasks", w>>
               \/ p = <<"finished", w>> \/ p = <<"dealer", w>>
      BY <1>2, <1>3, <2>2 DEF Copies
    <2> QED
      BY <1>6, <2>1, <2>2
  <1> QED
    BY <1>5, <1>6, PlaceCases

(* One copy in one place: the count of ExactlyOnce.                          *)
LEMMA OnceCounts == OnceInv => ExactlyOnce
  <1> SUFFICES ASSUME OnceInv, NEW t \in Tasks, t \notin unsent
               PROVE  Cardinality(UNION {{p} \X Copies(p, t) : p \in Places}) = 1
    BY DEF ExactlyOnce
  <1>1. PICK p \in Places : /\ \E i : Where[t][p] = {i}
                            /\ \A q \in Places : q # p => Where[t][q] = {}
    BY DEF OnceInv, Sole, Single
  <1>2. \A q \in Places : Where[t][q] = Copies(q, t)
    BY DEF Where
  <1>3. PICK i : Copies(p, t) = {i}
    BY <1>1, <1>2
  <1>4. UNION {{q} \X Copies(q, t) : q \in Places} = {<<p, i>>}
    <2>1. \A q \in Places : {q} \X Copies(q, t) \subseteq {<<p, i>>}
      BY <1>1, <1>2, <1>3
    <2>2. <<p, i>> \in {p} \X Copies(p, t)
      BY <1>3
    <2> QED
      BY <2>1, <2>2
  <1> QED
    BY <1>4, FS_Singleton

(* Nothing changes where nothing happens.                                    *)
LEMMA OnceStutters == OnceInv /\ UNCHANGED vars => OnceInv'
  <1> SUFFICES ASSUME OnceInv, UNCHANGED vars PROVE Sole(Where', unsent')
    BY DEF OnceInv
  <1>1. \A p \in Places : Untouched(p)
    BY RunningUnchanged
       DEF Untouched, vars, pipeVars, socketVars, brokerVars, workerVars, envVars
  <1>2. UNCHANGED unsent
    BY DEF vars, envVars
  <1> QED
    BY <1>1, <1>2, Rests, KeepsKeeps DEF OnceInv

(* README: "If all workers are busy Broker queues atomic tasks."  For any    *)
(* number of workers, cores and tasks: as long as no process ends, no        *)
(* subscription is full and task_queue_ holds at most one task, a task the   *)
(* manager has sent is in exactly one place.  The three conditions are what  *)
(* the code leaves to luck; without the last, task_queue_.back() and         *)
(* task_queue_.pop() are two different tasks.                                *)
THEOREM ExactlyOnceHolds ==
    SubscribeFirst => (Spec /\ []NothingLost /\ []QueueShort => []ExactlyOnce)
  <1> SUFFICES ASSUME SubscribeFirst
               PROVE  Spec /\ []NothingLost /\ []QueueShort => []ExactlyOnce
    OBVIOUS
  <1> DEFINE I == SubscribedFirst /\ OnceInv
  <1>1. Init => I
    <2>1. Init => SubscribedFirst
      BY DEF Init, SubscribedFirst, WorkerInit, SocketsInit, BrokerInit, Registered
    <2> QED
      BY <2>1, OnceInit
  <1>2. Inv /\ NothingLost /\ NothingLost' /\ QueueShort /\ I /\ [Next]_vars => I'
    <2>1. ASSUME Inv, NothingLost, NothingLost', QueueShort, I, Next PROVE I'
      BY <2>1, SubscribedStep, OnceStep
    <2>2. ASSUME I, UNCHANGED vars PROVE I'
      BY <2>2, OnceStutters
         DEF SubscribedFirst, Registered, vars, socketVars, brokerVars, workerVars
    <2> QED
      BY <2>1, <2>2
  <1>3. I => ExactlyOnce
    BY OnceCounts
  <1> QED
    BY <1>1, <1>2, <1>3, Invariance, PTL DEF Spec

-----------------------------------------------------------------------------
(* A task whose operands can all be read now, and what they give.            *)
Readable(task) == \A i \in DOMAIN task.operands : ReadData(task.operands[i]) # Exception

(* A thread about to write holds the result of its task: its operands are    *)
(* still there, since the database drops and changes no row.                 *)
Sound(w, k) ==
    thread[w][k].pc = "write" =>
        LET task == thread[w][k].task.task
        IN  /\ Readable(task)
            /\ thread[w][k].result # Exception
            /\ thread[w][k].result = CalculateTaskImpl(task.op, ExtractOperands(task))

WriteSound == \A w \in Workers : \A k \in Threads(w) : Sound(w, k)

(* A row that is there stays, with its value.                                *)
RowsKept == \A id \in DOMAIN db : id \in DOMAIN db' /\ db'[id] = db[id]

(* An operand that could be read is read again with the same value.          *)
LEMMA ReadAgain ==
    ASSUME RowsKept, NEW task, Readable(task)
    PROVE  Readable(task)' /\ ExtractOperands(task)' = ExtractOperands(task)
  <1>1. ASSUME NEW i \in DOMAIN task.operands
        PROVE  ReadData(task.operands[i])' = ReadData(task.operands[i])
    <2>1. ReadData(task.operands[i]) # Exception
      BY DEF Readable
    <2> QED
      BY <2>1 DEF ReadData, ReadDynamicData, ReadStaticData, RowsKept
  <1> QED
    BY <1>1 DEF Readable, ExtractOperands

(* Every step keeps the rows.                                                *)
LEMMA RowsStep ==
    ASSUME Next \/ UNCHANGED vars
    PROVE  RowsKept
  <1>1. CASE UNCHANGED db
    BY <1>1 DEF RowsKept
  <1>2. ASSUME NEW w \in Workers, NEW k \in Threads(w), WriteResult(w, k)
        PROVE  RowsKept
    BY <1>2 DEF WriteResult, WriteDynamicData, RowsKept
  <1>3. ASSUME NEW w \in Workers, WorkerStep(w)
        PROVE  RowsKept
    <2>1. CASE \E k \in Threads(w) : WriteResult(w, k)
      BY <1>2, <2>1
    <2>2. CASE \A k \in Threads(w) : ~WriteResult(w, k)
      <3>1. CASE Subscribe(w) \/ MainStep(w)
        BY <1>1, <3>1
           DEF Subscribe, MainStep, SendAckMessage, ReadRequest, NothingToRead, NotifyOne,
               CheckOutputQueue
      <3>2. ASSUME NEW k \in Threads(w), ThreadStep(w, k) \/ SpuriousWakeup(w, k)
            PROVE  RowsKept
        BY <1>1, <2>2, <3>2
           DEF ThreadStep, TakeTask, CalculateTask, PushFinished, SpuriousWakeup
      <3> QED
        BY <1>3, <3>1, <3>2 DEF WorkerStep, WorkerNext
    <2> QED
      BY <2>1, <2>2
  <1> QED
    BY <1>1, <1>3
       DEF Next, vars, BrokerStep, StopWorker, RestartWorker, SendRequest, ReadReply

(* What CalculateTask leaves in its thread.                                  *)
LEMMA CalculateSound ==
    ASSUME TypeOK, NEW w \in Workers, NEW k \in Threads(w), CalculateTask(w, k), ~Terminate(w)
    PROVE  Sound(w, k)'
  <1> DEFINE task == thread[w][k].task.task
  <1> DEFINE operands == ExtractOperands(task)
  <1> DEFINE result == IF \E i \in DOMAIN operands : operands[i] = Exception
                       THEN Exception ELSE CalculateTaskImpl(task.op, operands)
  <1>1. /\ result # Exception /\ UNCHANGED db
        /\ thread' = [thread EXCEPT ![w][k] =
                        [pc |-> "write", task |-> @.task, result |-> result]]
    BY DEF CalculateTask
  <1> HIDE DEF result
  <1>2. /\ thread'[w][k].result = result
        /\ thread'[w][k].task = thread[w][k].task
    BY <1>1 DEF TypeOK, ThreadsTypeOK, ThreadTypeOK
  <1>3. Readable(task) /\ result = CalculateTaskImpl(task.op, operands)
    <2> HIDE DEF operands
    <2>1. ~ \E i \in DOMAIN operands : operands[i] = Exception
      BY <1>1 DEF result
    <2>2. result = CalculateTaskImpl(task.op, operands)
      BY <2>1 DEF result
    <2>3. Readable(task)
      BY <2>1 DEF operands, ExtractOperands, Readable
    <2> QED
      BY <2>2, <2>3
  <1>4. PICK t : t = task
    OBVIOUS
  <1>5. Readable(t)' /\ ExtractOperands(t)' = ExtractOperands(t)
    BY <1>1, <1>3, <1>4, ReadAgain DEF RowsKept
  <1> QED
    BY <1>1, <1>2, <1>3, <1>4, <1>5 DEF Sound

(* Every step keeps what the threads are about to write.                     *)
LEMMA SoundStep ==
    ASSUME TypeOK, WriteSound, Next \/ UNCHANGED vars
    PROVE  WriteSound'
  <1> SUFFICES ASSUME NEW v \in Workers, NEW j \in Threads(v)
               PROVE  Sound(v, j)'
    BY DEF WriteSound, Threads
  <1>1. ASSUME thread'[v][j] = thread[v][j]
        PROVE  Sound(v, j)'
    <2>1. PICK t : t = thread[v][j].task.task
      OBVIOUS
    <2>2. CASE thread[v][j].pc = "write"
      <3>1. Readable(t)' /\ ExtractOperands(t)' = ExtractOperands(t)
        BY <2>1, <2>2, RowsStep, ReadAgain DEF WriteSound, Sound
      <3> QED
        BY <1>1, <2>1, <2>2, <3>1 DEF WriteSound, Sound
    <2>3. CASE thread[v][j].pc # "write"
      BY <1>1, <2>3 DEF Sound
    <2> QED
      BY <2>2, <2>3
  <1>2. ASSUME thread'[v][j].pc # "write"
        PROVE  Sound(v, j)'
    BY <1>2 DEF Sound
  <1>3. ASSUME NEW w \in Workers, NEW k \in Threads(w), ThreadStep(w, k) \/ SpuriousWakeup(w, k),
               ~Terminate(w)
        PROVE  Sound(v, j)'
    <2>1. OnlyThread(w, k) /\ (CalculateTask(w, k) \/ thread'[w][k].pc # "write")
      BY <1>3, ThreadSteps DEF ThreadStep
    <2>2. CASE v = w /\ j = k
      BY <1>2, <1>3, <2>1, <2>2, CalculateSound
    <2>3. CASE v # w \/ j # k
      BY <1>1, <2>1, <2>3 DEF OnlyThread
    <2> QED
      BY <2>2, <2>3
  <1>4. ASSUME NEW w \in Workers, NotifyOne(w)
        PROVE  Sound(v, j)'
    <2>1. CASE UNCHANGED thread
      BY <1>1, <2>1
    <2>2. ASSUME NEW k \in Threads(w), OnlyThread(w, k), thread'[w][k].pc = "idle"
          PROVE  Sound(v, j)'
      BY <1>1, <1>2, <2>2 DEF OnlyThread
    <2> QED
      BY <1>4, <2>1, <2>2, NotifyThreads
  <1>5. ASSUME NEW w \in Workers, Terminate(w)
        PROVE  Sound(v, j)'
    <2>1. CASE v = w
      BY <1>2, <1>5, <2>1 DEF Terminate, Idle, TypeOK, ThreadsTypeOK
    <2>2. CASE v # w
      BY <1>1, <1>5, <2>2 DEF Terminate, TypeOK, ThreadsTypeOK
    <2> QED
      BY <2>1, <2>2
  <1> QED
    BY <1>1, <1>3, <1>4, <1>5
       DEF Next, vars, workerVars, BrokerStep, WorkerStep, WorkerNext, Subscribe, MainStep,
           SendAckMessage, ReadRequest, NothingToRead, CheckOutputQueue, StopWorker,
           RestartWorker, SendRequest, ReadReply

-----------------------------------------------------------------------------
(* The state of the task service, in terms of the places.                    *)
LEMMA HoldingAmong ==
    ASSUME NEW places \in SUBSET Places
    PROVE  /\ Holding(places) = Among(Where, places)
           /\ Holding(places)' = Among(Where', places)
  <1>1. \A t \in Tasks, p \in Places : Where[t][p] = Copies(p, t) /\ Where'[t][p] = Copies(p, t)'
    BY DEF Where
  <1> QED
    BY <1>1 DEF Holding, Among

(* A task that goes from outside into the pool, through it, or out of it.    *)
LEMMA CarryHolding ==
    ASSUME OnceInv, NEW a, NEW b, NEW tau \in Tasks, Carries(Where, Where', a, b, tau)
    PROVE  /\ a \in OutsidePlaces /\ b \in OpenPlaces =>
                /\ Holding(OpenPlaces)' = Holding(OpenPlaces) \cup {tau}
                /\ Holding(ComputedPlaces)' = Holding(ComputedPlaces)
           /\ a \in OpenPlaces /\ b \in ComputedPlaces =>
                /\ tau \in Holding(OpenPlaces)
                /\ Holding(OpenPlaces)' = Holding(OpenPlaces) \ {tau}
                /\ Holding(ComputedPlaces)' = Holding(ComputedPlaces) \cup {tau}
           /\ a \in ComputedPlaces /\ b \in OutsidePlaces =>
                /\ tau \in Holding(ComputedPlaces)
                /\ Holding(OpenPlaces)' = Holding(OpenPlaces)
                /\ Holding(ComputedPlaces)' = Holding(ComputedPlaces) \ {tau}
  <1>1. /\ Holding(OpenPlaces) = Among(Where, OpenPlaces)
        /\ Holding(OpenPlaces)' = Among(Where', OpenPlaces)
        /\ Holding(ComputedPlaces) = Among(Where, ComputedPlaces)
        /\ Holding(ComputedPlaces)' = Among(Where', ComputedPlaces)
    BY HoldingAmong, PlacesKnown
  <1>2. /\ \A p \in OutsidePlaces : p \notin OpenPlaces /\ p \notin ComputedPlaces
        /\ \A p \in OpenPlaces : p \notin ComputedPlaces
    BY DEF OutsidePlaces, OpenPlaces, ComputedPlaces
  <1>3. ASSUME NEW places \in {OpenPlaces, ComputedPlaces}
        PROVE  /\ tau \in Among(Where, places) <=> a \in places
               /\ tau \in Among(Where', places) <=> b \in places
               /\ \A t \in Tasks : t # tau =>
                    (t \in Among(Where', places) <=> t \in Among(Where, places))
    BY CarryAmong, PlacesKnown DEF OnceInv
  <1>4. \A places : Among(Where, places) \subseteq Tasks /\ Among(Where', places) \subseteq Tasks
    BY DEF Among
  <1>5. ASSUME NEW places \in {OpenPlaces, ComputedPlaces}
        PROVE  /\ a \in places => tau \in Among(Where, places)
               /\ a \in places /\ b \notin places =>
                    Among(Where', places) = Among(Where, places) \ {tau}
               /\ b \in places => Among(Where', places) = Among(Where, places) \cup {tau}
               /\ a \notin places /\ b \notin places =>
                    Among(Where', places) = Among(Where, places)
    BY <1>3, <1>4
  <1> QED
    BY <1>1, <1>2, <1>5

(* A step that shifts tasks leaves the task service as it is.                *)
LEMMA ShiftHolding ==
    ASSUME OnceInv, UNCHANGED unsent, NEW H, Shifts(Where, H), Shifts(H, Where')
    PROVE  UNCHANGED <<Holding(OpenPlaces), Holding(ComputedPlaces)>>
  <1>1. Sole(H, unsent)
    BY ShiftKeeps DEF OnceInv
  <1>2. /\ Among(Where', OpenPlaces) = Among(Where, OpenPlaces)
        /\ Among(Where', ComputedPlaces) = Among(Where, ComputedPlaces)
    BY <1>1, ShiftKeeps DEF OnceInv
  <1> QED
    BY <1>2, HoldingAmong, PlacesKnown

(* Every step of the broker, a worker or the manager is one of the task      *)
(* service, or leaves it alone.                                              *)
LEMMA ServiceStep ==
    ASSUME Inv, SubscribedFirst, NothingLost, NothingLost', QueueShort, OnceInv, WriteSound, Next
    PROVE  Service!Next \/ UNCHANGED Service!allVars
  <1>1. CASE BrokerStep
    <2>1. UNCHANGED <<workerVars, db, envVars>> /\ UNCHANGED unsent
      BY <1>1 DEF BrokerStep, envVars
    <2>2. CASE SendResultToManager
      <3>1. PICK tau \in Tasks :
              /\ sending[1] = tau.id
              /\ Carries(Where, Where', <<"sending", "broker">>, <<"reply_pipe", "manager">>, tau)
        BY <2>1, <2>2, SendResultMoves
      <3>2. /\ tau \in Holding(ComputedPlaces)
            /\ Holding(OpenPlaces)' = Holding(OpenPlaces)
            /\ Holding(ComputedPlaces)' = Holding(ComputedPlaces) \ {tau}
        BY <3>1, CarryHolding, PlacesKnown
      <3>3. Service!SendOnReplyPipe(tau.id) /\ UNCHANGED taskPipe
        BY <2>2, <3>1 DEF SendResultToManager, SendOnReplyPipe, Service!SendOnReplyPipe
      <3>4. Service!Report(tau)
        BY <2>1, <3>2, <3>3 DEF Service!Report
      <3> QED
        BY <2>1, <3>2, <3>4 DEF Service!Next, Service!ServiceNext
    <2>3. CASE ReceiveManagerRequest
      <3>1. PICK b \in OpenPlaces :
              Carries(Where, Where', <<"task_pipe", "manager">>, b, Head(taskPipe))
        BY <2>1, <2>3, ReceiveManagerMoves
      <3>2. taskPipe # <<>> /\ taskPipe' = Tail(taskPipe) /\ Head(taskPipe) \in Tasks
            /\ UNCHANGED replyPipe
        BY <2>3 DEF ReceiveManagerRequest, Inv, TypeOK, PipesTypeOK
      <3>3. PICK tau \in Tasks : tau = Head(taskPipe)
        BY <3>2
      <3>4. /\ Holding(OpenPlaces)' = Holding(OpenPlaces) \cup {tau}
            /\ Holding(ComputedPlaces)' = Holding(ComputedPlaces)
        BY <3>1, <3>3, CarryHolding, PlacesKnown
      <3>5. Service!Accept
        BY <2>1, <3>2, <3>3, <3>4 DEF Service!Accept
      <3> QED
        BY <2>1, <3>5 DEF Service!Next, Service!ServiceNext
    <2>4. CASE BrokerPoll \/ \E w \in Workers : ReceiveWorkerMessage(w)
      <3>1. UNCHANGED <<Holding(OpenPlaces), Holding(ComputedPlaces)>>
        BY <2>1, <2>4, BrokerShifts, ShiftHolding
      <3>2. UNCHANGED pipeVars
        BY <2>4 DEF BrokerPoll, ReceiveWorkerMessage
      <3> QED
        BY <2>1, <3>1, <3>2
           DEF Service!allVars, Service!pipeVars, Service!serviceVars, pipeVars
    <2> QED
      BY <1>1, <2>2, <2>3, <2>4 DEF BrokerStep, BrokerNext
  <1>2. ASSUME NEW w \in Workers, WorkerStep(w)
        PROVE  Service!Next \/ UNCHANGED Service!allVars
    <2>1. UNCHANGED <<pipeVars, brokerVars, envVars>> /\ UNCHANGED unsent /\ ~Terminate(w)
      BY <1>2, StaysUp DEF WorkerStep, envVars, Inv
    <2>2. ASSUME NEW k \in Threads(w), WriteResult(w, k)
          PROVE  Service!Next
      <3>1. PICK tau \in Tasks : tau = thread[w][k].task.task
        BY <2>1, <2>2, WriteResultMoves
      <3>2. Carries(Where, Where', <<"calculating", w>>, <<"calculated", w>>, tau)
        BY <2>1, <2>2, <3>1, WriteResultMoves
      <3>3. /\ tau \in Holding(OpenPlaces)
            /\ Holding(OpenPlaces)' = Holding(OpenPlaces) \ {tau}
            /\ Holding(ComputedPlaces)' = Holding(ComputedPlaces) \cup {tau}
        BY <3>2, CarryHolding, PlacesKnown
      <3>4. /\ Readable(tau)
            /\ thread[w][k].result # Exception
            /\ thread[w][k].result = CalculateTaskImpl(tau.op, ExtractOperands(tau))
        BY <2>2, <3>1 DEF WriteSound, Sound, WriteResult
      <3>5. Service!Operands(tau) = ExtractOperands(tau)
        BY DEF Service!Operands, ExtractOperands, Service!ReadData, ReadData,
               Service!ReadDynamicData, ReadDynamicData, Service!ReadStaticData, ReadStaticData
      <3>6. \A i \in DOMAIN tau.operands : Service!Operands(tau)[i] # Exception
        BY <3>4, <3>5 DEF Readable, ExtractOperands
      <3>7. Service!WriteDynamicData(tau.id, CalculateTaskImpl(tau.op, Service!Operands(tau)))
        BY <2>2, <3>1, <3>4, <3>5 DEF WriteResult, WriteDynamicData, Service!WriteDynamicData
      <3>8. CalculateTaskImpl(tau.op, Service!Operands(tau)) # Exception
        BY <3>4, <3>5
      <3>9. Service!Calculate(tau)
        BY <2>1, <3>3, <3>6, <3>7, <3>8 DEF Service!Calculate, Service!pipeVars, pipeVars
      <3> QED
        BY <2>1, <3>3, <3>9 DEF Service!Next, Service!ServiceNext
    <2>3. CASE \A k \in Threads(w) : ~WriteResult(w, k)
      <3>1. Shifts(Where, Where') /\ UNCHANGED db
        BY <1>2, <2>1, <2>3, WorkerShifts
      <3>2. Shifts(Where, Where)
        BY StaysEqual DEF Keeps, Shifts
      <3>3. UNCHANGED <<Holding(OpenPlaces), Holding(ComputedPlaces)>>
        BY <2>1, <3>1, <3>2, ShiftHolding
      <3> QED
        BY <2>1, <3>1, <3>3
           DEF Service!allVars, Service!pipeVars, Service!serviceVars, pipeVars
    <2> QED
      BY <2>2, <2>3
  <1>3. ASSUME NEW w \in Workers PROVE ~StopWorker(w) /\ ~RestartWorker(w)
    BY StaysUp DEF Inv, StopWorker, RestartWorker, NothingLost
  <1>4. ASSUME NEW task \in Tasks, SendRequest(task)
        PROVE  Service!Next
    <2>1. UNCHANGED <<Holding(OpenPlaces), Holding(ComputedPlaces)>>
      BY <1>4, SendRequestSends, HoldingAmong, PlacesKnown
    <2>2. Service!Submit(task)
      BY <1>4, <2>1
         DEF SendRequest, SendOnTaskPipe, Service!Submit, Service!SendOnTaskPipe,
             Service!serviceVars
    <2> QED
      BY <1>4, <2>2 DEF SendRequest, Service!Next
  <1>5. CASE ReadReply
    <2>1. PICK tau \in Tasks :
            Carries(Where, Where', <<"reply_pipe", "manager">>, <<"received", "manager">>, tau)
      BY <1>5, ReadReplyMoves
    <2>2. Shifts(Where, Where') /\ Shifts(Where, Where)
      BY <2>1, PlacesKnown, StaysEqual DEF Keeps, Shifts
    <2>3. UNCHANGED <<Holding(OpenPlaces), Holding(ComputedPlaces)>>
      BY <1>5, <2>2, ShiftHolding DEF ReadReply
    <2>4. Service!TakeReply
      BY <1>5, <2>3 DEF ReadReply, Service!TakeReply, Service!serviceVars
    <2> QED
      BY <2>4 DEF Service!Next
  <1> QED
    BY <1>1, <1>2, <1>3, <1>4, <1>5 DEF Next

(* At the start the pool is the task service before its first step.          *)
LEMMA ServiceInitially == Init => Service!Init
  <1> SUFFICES ASSUME Init PROVE Service!Init
    OBVIOUS
  <1>1. \A t \in Tasks, p \in Places : Copies(p, t) = {}
    BY OnceInit DEF OnceInv, Sole, Where, Init
  <1>2. Holding(OpenPlaces) = {} /\ Holding(ComputedPlaces) = {}
    BY <1>1, PlacesKnown DEF Holding
  <1> QED
    BY <1>2
       DEF Init, PipeInit, DatabaseInit, Service!Init, Service!PipeInit, Service!DatabaseInit,
           Service!ServiceInit

(* A step that changes nothing leaves the task service alone.                *)
LEMMA ServiceStutters == OnceInv /\ UNCHANGED vars => UNCHANGED Service!allVars
  <1> SUFFICES ASSUME OnceInv, UNCHANGED vars PROVE UNCHANGED Service!allVars
    OBVIOUS
  <1>1. \A p \in Places : Untouched(p)
    BY RunningUnchanged
       DEF Untouched, vars, pipeVars, socketVars, brokerVars, workerVars, envVars
  <1>2. UNCHANGED unsent /\ UNCHANGED pipeVars /\ UNCHANGED db
    BY DEF vars, envVars
  <1>3. Shifts(Where, Where') /\ Shifts(Where, Where)
    BY <1>1, Rests, StaysEqual DEF Keeps, Shifts
  <1>4. UNCHANGED <<Holding(OpenPlaces), Holding(ComputedPlaces)>>
    BY <1>2, <1>3, ShiftHolding
  <1> QED
    BY <1>2, <1>4 DEF Service!allVars, Service!pipeVars, Service!serviceVars, pipeVars

(* For any number of workers, cores and tasks, the broker and its workers    *)
(* implement the task service the manager relies on, under the conditions of *)
(* ExactlyOnceHolds: a task taken from the pipe is calculated once, from     *)
(* operands that are in the database, its result is in the database before   *)
(* its id is reported, and its id is reported once.                          *)
THEOREM ImplementsTaskServiceHolds ==
    SubscribeFirst => (Spec /\ []NothingLost /\ []QueueShort => ImplementsTaskService)
  <1> SUFFICES ASSUME SubscribeFirst
               PROVE  Spec /\ []NothingLost /\ []QueueShort => ImplementsTaskService
    OBVIOUS
  <1> DEFINE I == SubscribedFirst /\ OnceInv /\ WriteSound
  <1>1. Init => I /\ Service!Init
    <2>1. Init => SubscribedFirst
      BY DEF Init, SubscribedFirst, WorkerInit, SocketsInit, BrokerInit, Registered
    <2>2. Init => WriteSound
      BY DEF Init, WorkerInit, WriteSound, Sound, Threads, Idle
    <2> QED
      BY <2>1, <2>2, OnceInit, ServiceInitially
  <1>2. Inv /\ NothingLost /\ NothingLost' /\ QueueShort /\ I /\ [Next]_vars =>
           I' /\ [Service!Next]_(Service!allVars)
    <2>1. ASSUME Inv, NothingLost, NothingLost', QueueShort, I, Next
          PROVE  I' /\ [Service!Next]_(Service!allVars)
      <3>1. WriteSound'
        BY <2>1, SoundStep DEF Inv
      <3> QED
        BY <2>1, <3>1, SubscribedStep, OnceStep, ServiceStep
    <2>2. ASSUME Inv, I, UNCHANGED vars
          PROVE  I' /\ [Service!Next]_(Service!allVars)
      <3>1. WriteSound'
        BY <2>2, SoundStep DEF Inv
      <3>2. SubscribedFirst'
        BY <2>2 DEF SubscribedFirst, Registered, vars, socketVars, brokerVars, workerVars
      <3> QED
        BY <2>2, <3>1, <3>2, OnceStutters, ServiceStutters
    <2> QED
      BY <2>1, <2>2
  <1> QED
    BY <1>1, <1>2, Invariance, PTL DEF Spec, ImplementsTaskService, Service!Spec

-----------------------------------------------------------------------------
(* Task t has a copy somewhere.                                              *)
Present(F, t) == \E p \in Places : F[t][p] # {}

(* A task that moves, or stays where it is, is still somewhere.              *)
LEMMA PresentCarries ==
    ASSUME NEW F, NEW G, NEW t \in Tasks, Present(F, t)
    PROVE  /\ \A a, b, tau : Carries(F, G, a, b, tau) => Present(G, t)
           /\ Keeps(F, G) => Present(G, t)
           /\ Shifts(F, G) => Present(G, t)
  <1>1. PICK p \in Places : F[t][p] # {}
    BY DEF Present
  <1>2. ASSUME NEW a, NEW b, NEW tau, Carries(F, G, a, b, tau)
        PROVE  Present(G, t)
    <2>1. CASE p # a /\ p # b
      BY <1>1, <1>2, <2>1 DEF Carries, Present
    <2>2. CASE t = tau
      BY <1>2, <2>2 DEF Carries, Moved, Arrives, Present
    <2>3. CASE t # tau /\ (p = a \/ p = b)
      BY <1>1, <1>2, <2>3 DEF Carries, Moved, Stays, Present
    <2> QED
      BY <2>1, <2>2, <2>3
  <1>3. Keeps(F, G) => Present(G, t)
    BY <1>1 DEF Keeps, Stays, Present
  <1> QED
    BY <1>2, <1>3 DEF Shifts

LEMMA PresentInPool ==
    ASSUME NEW t \in Tasks
    PROVE  /\ InPool(t) <=> Present(Where, t)
           /\ InPool(t)' <=> Present(Where', t)
  <1>1. \A p \in Places : Where[t][p] = Copies(p, t) /\ Where'[t][p] = Copies(p, t)'
    BY DEF Where
  <1> QED
    BY <1>1 DEF InPool, Present

(* A queue that grows, or stays, keeps what it has.                          *)
LEMMA PositionsGrow ==
    ASSUME NEW S, NEW s \in Seq(S), NEW r, NEW x, NEW y, r = s \/ r = Append(s, y)
    PROVE  /\ Positions(s, x) # {} => Positions(r, x) # {}
           /\ r = Append(s, y) /\ x = y => Positions(r, x) # {}
  <1>1. y = x => Positions(Append(s, y), x) # {}
    BY PositionsAppend DEF Arrives
  <1>2. y # x => Positions(Append(s, y), x) = Positions(s, x)
    BY PositionsAppend
  <1> QED
    BY <1>1, <1>2

(* A task published to a worker that hears of it is with that worker, and    *)
(* what was published before is still there.                                 *)
LEMMA PublishPresent ==
    ASSUME Inv, NEW w \in Workers, NEW tau \in Tasks,
           NEW y, y = [identity |-> w, task |-> tau], Publish(y)
    PROVE  /\ ~Deaf(w) => InPool(tau)'
           /\ \A v \in Workers, t \in Tasks :
                 Copies(<<"pub", v>>, t) # {} => Copies(<<"pub", v>>, t)' # {}
  <1>1. pub \in [Workers -> Seq(WorkerTask)] /\ PubHwm \in Nat
    BY WorkerSocketsAssumption DEF Inv, TypeOK, SocketsTypeOK
  <1>2. \A v \in Workers : pub'[v] = IF Deaf(v) THEN pub[v] ELSE Append(pub[v], y)
    <2> SUFFICES ASSUME NEW v \in Workers
                 PROVE  pub'[v] = IF Deaf(v) THEN pub[v] ELSE Append(pub[v], y)
      OBVIOUS
    <2>1. Len(pub[v]) \in Nat
      BY <1>1
    <2> QED
      BY <1>1, <2>1 DEF Publish, Deaf
  <1>3. ASSUME NEW v \in Workers, NEW t \in Tasks
        PROVE  /\ Copies(<<"pub", v>>, t) # {} => Copies(<<"pub", v>>, t)' # {}
               /\ v = w /\ t = tau /\ ~Deaf(w) => Copies(<<"pub", v>>, t)' # {}
    <2>1. PICK x : x = [identity |-> v, task |-> t]
      OBVIOUS
    <2>2. /\ Copies(<<"pub", v>>, t) = Positions(pub[v], x)
          /\ Copies(<<"pub", v>>, t)' = Positions(pub'[v], x)
      BY <2>1, CopiesAtWorker, CopiesAtWorkerNext
    <2>3. v = w /\ t = tau => x = y
      BY <2>1
    <2>4. pub[v] \in Seq(WorkerTask) /\ (pub'[v] = pub[v] \/ pub'[v] = Append(pub[v], y))
      BY <1>1, <1>2
    <2> QED
      BY <1>2, <2>2, <2>3, <2>4, PositionsGrow
  <1>4. ~Deaf(w) => InPool(tau)'
    <2>1. <<"pub", w>> \in Places
      BY PlacesKnown
    <2> QED
      BY <1>3, <2>1 DEF InPool
  <1> QED
    BY <1>3, <1>4

(* ReceiveManagerRequest loses a task only to a worker that misses it.       *)
LEMMA ReceiveManagerLoses ==
    ASSUME Inv, ReceiveManagerRequest, UNCHANGED <<workerVars, db, envVars>>,
           NEW t \in Tasks, InPool(t), ~InPool(t)'
    PROVE  HandedOut(t) /\ \E w \in Registered : Deaf(w)
  <1>1. /\ taskPipe \in Seq(Tasks) /\ taskPipe # <<>> /\ taskPipe' = Tail(taskPipe)
        /\ taskQueue \in Seq(Tasks) /\ Registered \subseteq Workers
    BY DEF Inv, TypeOK, PipesTypeOK, BrokerTypeOK, ReceiveManagerRequest
  <1>2. PICK tau \in Tasks : tau = Head(taskPipe)
    BY <1>1
  <1>3. \/ taskQueue' = Append(taskQueue, tau) /\ UNCHANGED pub
        \/ \E w \in Registered : Publish([identity |-> w, task |-> tau]) /\ UNCHANGED taskQueue
    BY <1>2 DEF ReceiveManagerRequest, SendTaskToWorker, SendTaskToWorkerImpl
  <1>4. PICK p \in Places : Copies(p, t) # {}
    BY DEF InPool
  <1>5. Copies(p, t)' = {}
    BY DEF InPool
  <1>6. p # <<"task_queue", "broker">>
    <2>1. taskQueue' = taskQueue \/ taskQueue' = Append(taskQueue, tau)
      BY <1>3
    <2>2. Positions(taskQueue, t) # {} => Positions(taskQueue', t) # {}
      BY <1>1, <2>1, PositionsGrow
    <2> QED
      BY <1>4, <1>5, <2>2, CopiesAt, CopiesAtNext
  <1>7. \A v \in Workers : p # <<"pub", v>>
    <2>1. CASE UNCHANGED pub
      <3>1. \A v \in Workers : Copies(<<"pub", v>>, t)' = Copies(<<"pub", v>>, t)
        <4> SUFFICES ASSUME NEW v \in Workers
                     PROVE  Copies(<<"pub", v>>, t)' = Copies(<<"pub", v>>, t)
          OBVIOUS
        <4>1. pub'[v] = pub[v]
          BY <2>1
        <4>2. Copies(<<"pub", v>>, t) = Positions(pub[v], [identity |-> v, task |-> t])
          BY CopiesAtWorker
        <4>3. Copies(<<"pub", v>>, t)' = Positions(pub'[v], [identity |-> v, task |-> t])
          BY CopiesAtWorkerNext
        <4> QED
          BY <4>1, <4>2, <4>3
      <3> QED
        BY <1>4, <1>5, <3>1
    <2>2. ASSUME NEW w \in Registered, Publish([identity |-> w, task |-> tau])
          PROVE  \A v \in Workers : p # <<"pub", v>>
      <3>1. PICK y : y = [identity |-> w, task |-> tau]
        OBVIOUS
      <3>2. Publish(y) /\ w \in Workers
        BY <1>1, <2>2, <3>1
      <3> QED
        BY <1>4, <1>5, <3>1, <3>2, PublishPresent
    <2> QED
      BY <1>3, <2>1, <2>2
  <1>8. p = <<"task_pipe", "manager">>
    <2>1. p # <<"task_pipe", "manager">> => Untouched(p)
      BY <1>6, <1>7, RunningUnchanged
         DEF ReceiveManagerRequest, Untouched, workerVars, envVars
    <2> QED
      BY <1>4, <1>5, <2>1, CopiesUntouched
  <1>9. t = tau
    <2>1. Positions(taskPipe, t) # {} /\ Positions(Tail(taskPipe), t) = {}
      BY <1>1, <1>4, <1>5, <1>8, CopiesAt, CopiesAtNext
    <2> QED
      BY <1>1, <1>2, <2>1, PositionsTail DEF Stays
  <1>10. HandedOut(t)
    BY <1>1, <1>2, <1>9 DEF HandedOut
  <1>11. taskQueue' # Append(taskQueue, tau)
    <2>1. taskQueue' = Append(taskQueue, tau) => Positions(taskQueue', t) # {}
      BY <1>1, <1>9, PositionsGrow
    <2>2. Copies(<<"task_queue", "broker">>, t)' = {}
      BY PlacesKnown DEF InPool
    <2> QED
      BY <2>1, <2>2, CopiesAtNext
  <1>12. PICK w \in Registered : Publish([identity |-> w, task |-> tau])
    BY <1>3, <1>11
  <1>13. Deaf(w)
    <2>1. PICK y : y = [identity |-> w, task |-> tau]
      OBVIOUS
    <2>2. Publish(y) /\ w \in Workers
      BY <1>1, <1>12, <2>1
    <2> QED
      BY <1>9, <2>1, <2>2, PublishPresent
  <1> QED
    BY <1>10, <1>13

(* A worker whose answer the broker reads is registered.                     *)
LEMMA AnswerRegistered ==
    ASSUME Inv, NEW w \in Workers, dealer[w] # <<>>, Head(dealer[w]).data # "core_count"
    PROVE  w \in Registered
  <1>1. TypeOK /\ dealer[w] \in Seq(WorkerMessage) /\ dealer[w] \in Seq(MessagesOf(w))
    BY DEF Inv, TypeOK, SocketsTypeOK, OwnTasksOnly, OwnTasks
  <1>2. Head(dealer[w]) \in TaskIdMessage
    <2>1. Head(dealer[w]) \in MessagesOf(w)
      BY <1>1
    <2> QED
      BY <2>1 DEF MessagesOf, AnswersOf, TaskIdMessage, WorkerTaskId
  <1>3. /\ CountIn(dealer[w], TaskIdMessage) = CountIn(Tail(dealer[w]), TaskIdMessage) + 1
        /\ CountIn(Tail(dealer[w]), TaskIdMessage) \in Nat
    <2>1. Tail(dealer[w]) \in Seq(WorkerMessage)
      BY <1>1
    <2> QED
      BY <1>1, <1>2, <2>1, CountInTail, CountInType
  <1>4. /\ Published(w) \in Nat /\ Held(w) \in Nat /\ Len(finished[w]) \in Nat
    BY <1>1, InFlightType DEF TypeOK, WorkersTypeOK
  <1>5. InFlight(w) # 0
    BY <1>3, <1>4 DEF InFlight, Answered
  <1> QED
    BY <1>5 DEF Inv, NoOvercommit, WithinCores

(* ReceiveWorkerMessage loses a queued task that its worker misses, or the   *)
(* oldest of several.                                                        *)
LEMMA ReceiveWorkerLoses ==
    ASSUME Inv, NEW w \in Workers, ReceiveWorkerMessage(w), UNCHANGED <<workerVars, db, envVars>>,
           NEW t \in Tasks, InPool(t), ~InPool(t)'
    PROVE  \/ HandedOut(t) /\ \E v \in Registered : Deaf(v)
           \/ Len(taskQueue) >= 2 /\ t = Head(taskQueue) /\ taskQueue' = Tail(taskQueue)
  <1>1. /\ dealer \in [Workers -> Seq(WorkerMessage)] /\ dealer[w] # <<>> /\ sending = <<>>
        /\ taskQueue \in Seq(Tasks)
    BY DEF Inv, TypeOK, SocketsTypeOK, BrokerTypeOK, ReceiveWorkerMessage
  <1>2. Head(dealer[w]).data # "core_count"
    BY RegisterRests, PresentCarries, PresentInPool
  <1>3. PICK tau \in Tasks :
              /\ Head(dealer[w]).task_id = [identity |-> w, id |-> tau.id]
              /\ \A u \in Tasks :
                    Head(dealer[w]) = [data |-> "task_id", task_id |-> [identity |-> w, id |-> u.id]]
                      <=> u = tau
    BY <1>1, <1>2, MessageHead
  <1>4. /\ dealer'[w] = Tail(dealer[w])
        /\ \A v \in Workers \ {w} : dealer'[v] = dealer[v]
        /\ sending' = <<tau.id>> /\ ProcessWorkerTaskReply(Head(dealer[w]).task_id)
    BY <1>1, <1>2, <1>3 DEF ReceiveWorkerMessage, ProcessWorkerTaskReply
  <1>5. PICK p \in Places : Copies(p, t) # {}
    BY DEF InPool
  <1>6. \A q \in Places : Copies(q, t)' = {}
    BY DEF InPool
  <1>7. t # tau
    <2>1. Copies(<<"sending", "broker">>, t)' = {}
      BY <1>6, PlacesKnown
    <2>2. Positions(<<tau.id>>, t.id) = {}
      BY <1>4, <2>1, CopiesAtNext
    <2> QED
      BY <2>2 DEF Positions
  <1>8. p # <<"dealer", w>>
    <2>1. PICK x : x = [data |-> "task_id", task_id |-> [identity |-> w, id |-> t.id]]
      OBVIOUS
    <2>2. Head(dealer[w]) # x
      BY <1>3, <1>7, <2>1
    <2>3. Stays(Positions(dealer[w], x), Positions(Tail(dealer[w]), x))
      BY <1>1, <2>2, PositionsTail
    <2>4. /\ Copies(<<"dealer", w>>, t) = Positions(dealer[w], x)
          /\ Copies(<<"dealer", w>>, t)' = Positions(dealer'[w], x)
      BY <2>1, CopiesAtWorker, CopiesAtWorkerNext
    <2> QED
      BY <1>4, <1>5, <1>6, <2>3, <2>4 DEF Stays
  <1>9. p # <<"sending", "broker">>
    <2>1. Positions(<<>>, t.id) = {}
      BY DEF Positions
    <2> QED
      BY <1>1, <1>5, <2>1, CopiesAt
  <1>10. taskQueue # <<>> /\ p \in {<<"task_queue", "broker">>} \cup {<<"pub", v>> : v \in Workers}
    <2>1. taskQueue = <<>> => UNCHANGED <<taskQueue, pub>>
      BY <1>4 DEF ProcessWorkerTaskReply
    <2>2. \/ p \notin {<<"task_queue", "broker">>} \cup {<<"pub", v>> : v \in Workers}
          \/ taskQueue = <<>>
          => Untouched(p)
      BY <1>4, <1>8, <1>9, <2>1, RunningUnchanged
         DEF ReceiveWorkerMessage, Untouched, pipeVars, workerVars, envVars
    <2> QED
      BY <1>5, <1>6, <2>2, CopiesUntouched
  <1>11. PICK sigma \in Tasks : sigma = taskQueue[Len(taskQueue)]
    BY <1>1, <1>10
  <1>12. Publish([identity |-> w, task |-> sigma]) /\ taskQueue' = Tail(taskQueue)
    BY <1>3, <1>4, <1>10, <1>11
       DEF ProcessWorkerTaskReply, SendTaskToWorkerFromQueue, SendTaskToWorkerImpl
  <1>13. /\ ~Deaf(w) => InPool(sigma)'
         /\ \A v \in Workers : p # <<"pub", v>>
    <2>1. PICK y : y = [identity |-> w, task |-> sigma]
      OBVIOUS
    <2>2. Publish(y)
      BY <1>12, <2>1
    <2> QED
      BY <1>5, <1>6, <2>1, <2>2, PublishPresent
  <1>14. t = Head(taskQueue)
    <2>1. Positions(taskQueue, t) # {} /\ Positions(Tail(taskQueue), t) = {}
      BY <1>5, <1>6, <1>10, <1>12, <1>13, CopiesAt, CopiesAtNext
    <2> QED
      BY <1>1, <1>10, <2>1, PositionsTail DEF Stays
  <1>15. CASE Len(taskQueue) >= 2
    BY <1>12, <1>14, <1>15
  <1>16. CASE ~(Len(taskQueue) >= 2)
    <2>1. t = sigma
      BY <1>1, <1>10, <1>11, <1>14, <1>16
    <2>2. HandedOut(t)
      BY <1>10, <1>11, <1>12, <2>1 DEF HandedOut
    <2>3. w \in Registered
      BY <1>1, <1>2, AnswerRegistered
    <2> QED
      BY <1>13, <2>1, <2>2, <2>3
  <1> QED
    BY <1>15, <1>16

(* The end of a worker loses only what the worker held.                      *)
LEMMA TerminateLoses ==
    ASSUME Inv, NEW w \in Workers, Terminate(w), UNCHANGED <<pipeVars, brokerVars, envVars>>,
           NEW t \in Tasks, InPool(t), ~InPool(t)'
    PROVE  t \in Holding({p \in Places : p[2] = w})
  <1>1. PICK p \in Places : Copies(p, t) # {}
    BY DEF InPool
  <1>2. Copies(p, t)' = {}
    BY DEF InPool
  <1>3. \A v \in Workers \ {w} :
            /\ pub'[v] = pub[v] /\ tasks'[v] = tasks[v] /\ finished'[v] = finished[v]
            /\ dealer'[v] = dealer[v] /\ thread'[v] = thread[v]
    BY DEF Terminate, Inv, TypeOK, SocketsTypeOK, WorkersTypeOK, ThreadsTypeOK
  <1>4. p[2] # w => Untouched(p)
    BY <1>3, RunningUnchanged DEF Untouched, pipeVars, brokerVars, envVars
  <1>5. p[2] = w
    BY <1>1, <1>2, <1>4, CopiesUntouched
  <1> QED
    BY <1>1, <1>5 DEF Holding

(* SendRequest loses nothing.                                                *)
LEMMA SendRequestKeeps ==
    ASSUME Inv, NEW tau \in Tasks, SendRequest(tau), NEW t \in Tasks, InPool(t)
    PROVE  InPool(t)'
  <1>1. taskPipe \in Seq(Tasks) /\ taskPipe' = Append(taskPipe, tau)
    BY DEF Inv, TypeOK, PipesTypeOK, SendRequest, SendOnTaskPipe
  <1>2. PICK p \in Places : Copies(p, t) # {}
    BY DEF InPool
  <1>3. CASE p = <<"task_pipe", "manager">>
    <2>1. Positions(taskPipe', t) # {}
      BY <1>1, <1>2, <1>3, PositionsGrow, CopiesAt
    <2> QED
      BY <1>3, <2>1, CopiesAtNext DEF InPool
  <1>4. CASE p # <<"task_pipe", "manager">>
    <2>1. Untouched(p)
      BY <1>4, RunningUnchanged DEF SendRequest, Untouched, socketVars, brokerVars, workerVars
    <2> QED
      BY <1>2, <2>1, CopiesUntouched DEF InPool
  <1> QED
    BY <1>3, <1>4

(* A process that ends was up.                                               *)
LEMMA TerminateEnds ==
    ASSUME Inv, NEW w \in Workers, Terminate(w), WorkerNext(w) \/ StopWorker(w)
    PROVE  WorkerEnds(w)
  <1>1. ~workerUp'[w]
    BY DEF Terminate, Inv, TypeOK, WorkersTypeOK
  <1>2. workerUp[w]
    BY DEF StopWorker, WorkerNext, Subscribe, MainStep, SendAckMessage, ReadRequest, NothingToRead,
           NotifyOne, CheckOutputQueue, ThreadStep, TakeTask, CalculateTask, WriteResult,
           PushFinished, SpuriousWakeup
  <1> QED
    BY <1>1, <1>2 DEF WorkerEnds

(* Every step, and every task it loses.                                      *)
LEMMA TaskLossStep ==
    ASSUME Inv, Next, NEW t \in Tasks
    PROVE  TaskLossHasCause(t)
  <1> SUFFICES ASSUME InPool(t), ~InPool(t)'
               PROVE  \/ \E w \in Workers :
                            WorkerEnds(w) /\ t \in Holding({p \in Places : p[2] = w})
                      \/ HandedOut(t) /\ \E w \in Registered : Deaf(w)
                      \/ Len(taskQueue) >= 2 /\ t = Head(taskQueue)
                         /\ taskQueue' = Tail(taskQueue)
    BY DEF TaskLossHasCause
  <1>1. /\ \A a, b, tau : ~Carries(Where, Where', a, b, tau)
        /\ ~Keeps(Where, Where') /\ ~Shifts(Where, Where')
    BY PresentCarries, PresentInPool
  <1>2. ~(\A p \in Places : Untouched(p))
    BY <1>1, Rests
  <1>3. CASE BrokerStep
    <2>1. UNCHANGED <<workerVars, db, envVars>>
      BY <1>3 DEF BrokerStep
    <2>2. ~BrokerPoll
      <3>1. BrokerPoll => \A p \in Places : Untouched(p)
        BY <2>1, RunningUnchanged
           DEF BrokerPoll, Untouched, pipeVars, socketVars, workerVars, envVars
      <3> QED
        BY <1>2, <3>1
    <2>3. ~SendResultToManager
      BY <1>1, <2>1, SendResultMoves DEF Inv
    <2> QED
      BY <1>3, <2>1, <2>2, <2>3, ReceiveManagerLoses, ReceiveWorkerLoses DEF BrokerStep, BrokerNext
  <1>4. ASSUME NEW w \in Workers, WorkerStep(w)
        PROVE  WorkerEnds(w) /\ t \in Holding({p \in Places : p[2] = w})
    <2>1. UNCHANGED <<pipeVars, brokerVars, envVars>> /\ WorkerNext(w)
      BY <1>4 DEF WorkerStep
    <2>2. \A k \in Threads(w) : ~WriteResult(w, k)
      BY <1>1, <2>1, WriteResultMoves
    <2>3. Terminate(w)
      BY <1>1, <1>4, <2>2, WorkerShifts
    <2> QED
      BY <2>1, <2>3, TerminateLoses, TerminateEnds
  <1>5. ASSUME NEW w \in Workers, StopWorker(w)
        PROVE  WorkerEnds(w) /\ t \in Holding({p \in Places : p[2] = w})
    BY <1>5, TerminateLoses, TerminateEnds DEF StopWorker
  <1>6. \A w \in Workers : ~RestartWorker(w)
    <2>1. ASSUME NEW w \in Workers, RestartWorker(w) PROVE \A p \in Places : Untouched(p)
      BY <2>1, RunningUnchanged DEF RestartWorker, Untouched, pipeVars, socketVars, brokerVars
    <2> QED
      BY <1>2, <2>1
  <1>7. \A tau \in Tasks : ~SendRequest(tau)
    BY SendRequestKeeps
  <1>8. ~ReadReply
    BY <1>1, ReadReplyMoves
  <1> QED
    BY <1>3, <1>4, <1>5, <1>6, <1>7, <1>8 DEF Next

(* Nothing is lost without a cause: a core of a worker, or a task, is gone   *)
(* only when a worker ended, when one missed what was published to it, or    *)
(* when the queue dropped the older of two tasks; no other step of broker or *)
(* worker loses anything.                                                    *)
THEOREM LossHasCauseHolds == Spec => LossHasCause
  <1>1. Inv /\ Inv' /\ [Next]_vars =>
          [/\ \A w \in Registered : CoreLossHasCause(w)
           /\ \A t \in Tasks : TaskLossHasCause(t)]_vars
    <2>1. ASSUME Inv, Inv', Next, NEW w \in Registered
          PROVE  CoreLossHasCause(w)
      <3>1. CoresKept(w) \/ WorkerEnds(w)
        BY <2>1, CoresStep
      <3>2. Cores(w) \in Int
        <4>1. TypeOK /\ w \in Workers /\ availableCoreCount[w] \in Nat
          BY <2>1 DEF Inv, TypeOK, BrokerTypeOK
        <4> QED
          BY <4>1, InFlightType DEF Cores
      <3> QED
        BY <3>1, <3>2 DEF CoresKept, CoreLossHasCause
    <2> QED
      BY <2>1, TaskLossStep
  <1> QED
    BY <1>1, Invariance, PTL DEF Spec, LossHasCause
=============================================================================
