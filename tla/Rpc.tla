-------------------------------- MODULE Rpc ---------------------------------
(***************************************************************************)
(* A blocking call over gRPC's asynchronous stub, as the database client   *)
(* and the user's client make it.  The caller's stack frame holds a mutex  *)
(* mu, a condition variable, a flag done and the status; the completion    *)
(* callback, on a thread of gRPC, refers to all of them.  The caller       *)
(* returns, and the frame is gone, once it sees done.                      *)
(*                                                                         *)
(*     callback: status = s; lock(mu); done = true; cv.notify_one();       *)
(*               unlock(mu)                                                *)
(*     caller:   lock(mu); while (!done) cv.wait(lock); return             *)
(***************************************************************************)
CONSTANT Callers        \* the threads that make such calls, one at a time each

VARIABLES
    call,               \* call[c]: what gRPC knows of the call
    frame               \* frame[c]: the caller's stack frame, and who is where in it

rpcVars == <<call, frame>>

NoCall == [phase |-> "none"]

NoFrame == [caller |-> "none", callback |-> "none", mu |-> "free",
            done |-> FALSE, status |-> "OK"]

RpcInit ==
    /\ call = [c \in Callers |-> NoCall]
    /\ frame = [c \in Callers |-> NoFrame]

(* stub_->async()->Method(&context, &request, &reply, callback); reply is as *)
(* the caller built it until the call completes.                             *)
Call(c, request, reply) ==
    /\ call' = [call EXCEPT ![c] = [phase |-> "sent", request |-> request,
                                    reply |-> reply, s |-> "OK"]]
    /\ frame' = [frame EXCEPT ![c] = [NoFrame EXCEPT !.caller = "lock"]]

(* gRPC fills in the reply, if there is one, and runs the callback.          *)
Complete(c, reply, s) ==
    /\ call' = [call EXCEPT ![c].phase = "completed", ![c].reply = reply, ![c].s = s]
    /\ frame' = [frame EXCEPT ![c].callback = "status"]

-----------------------------------------------------------------------------
(* status = std::move(s), before the lock is taken.                          *)
SetStatus(c) ==
    /\ frame[c].callback = "status"
    /\ frame' = [frame EXCEPT ![c].status = call[c].s, ![c].callback = "lock"]
    /\ UNCHANGED call

(* Mutant: the lock is not taken.                                            *)
CallbackNoLock(c) ==
    /\ frame[c].callback = "lock"
    /\ frame' = [frame EXCEPT ![c].callback = "done"]
    /\ UNCHANGED call

CallbackLock(c) ==
    /\ frame[c].callback = "lock" /\ frame[c].mu = "free"
    /\ frame' = [frame EXCEPT ![c].mu = "callback", ![c].callback = "done"]
    /\ UNCHANGED call

(* Mutant: the lock is released before the notification.                     *)
SetDoneAndUnlock(c) ==
    /\ frame[c].callback = "done"
    /\ frame' = [frame EXCEPT ![c].done = TRUE, ![c].mu = "free", ![c].callback = "notify"]
    /\ UNCHANGED call

SetDone(c) ==
    /\ frame[c].callback = "done"
    /\ frame' = [frame EXCEPT ![c].done = TRUE, ![c].callback = "notify"]
    /\ UNCHANGED call

(* Mutant: nobody is notified.                                               *)
NotifyOneForgotten(c) ==
    /\ frame[c].callback = "notify"
    /\ frame' = [frame EXCEPT ![c].callback = "unlock"]
    /\ UNCHANGED call

(* cv.notify_one, with mu held.                                              *)
NotifyOne(c) ==
    /\ frame[c].callback = "notify"
    /\ frame' = [frame EXCEPT ![c].caller = IF @ = "asleep" THEN "lock" ELSE @,
                              ![c].callback = "unlock"]
    /\ UNCHANGED call

CallbackUnlock(c) ==
    /\ frame[c].callback = "unlock"
    /\ frame' = [frame EXCEPT ![c].mu = "free", ![c].callback = "over"]
    /\ UNCHANGED call

CallbackStep(c) ==
    SetStatus(c) \/ CallbackLock(c) \/ SetDone(c) \/ NotifyOne(c) \/ CallbackUnlock(c)

-----------------------------------------------------------------------------
(* The caller takes mu, at first and after every wait.                       *)
CallerLock(c) ==
    /\ frame[c].caller = "lock" /\ frame[c].mu = "free"
    /\ frame' = [frame EXCEPT ![c].mu = "caller", ![c].caller = "test"]
    /\ UNCHANGED call

(* while (!done): leaving the frame gives mu back.                           *)
TestDone(c) ==
    /\ frame[c].caller = "test"
    /\ frame' = IF frame[c].done
                THEN [frame EXCEPT ![c].caller = "returned", ![c].mu = "free"]
                ELSE [frame EXCEPT ![c].caller = "wait"]
    /\ UNCHANGED call

(* cv.wait(lock): mu is given back and the sleep begins in one step.         *)
Wait(c) ==
    /\ frame[c].caller = "wait"
    /\ frame' = [frame EXCEPT ![c].caller = "asleep", ![c].mu = "free"]
    /\ UNCHANGED call

CallerStep(c) == CallerLock(c) \/ TestDone(c) \/ Wait(c)

WakeSpuriously(c) ==
    /\ frame[c].caller = "asleep"
    /\ frame' = [frame EXCEPT ![c].caller = "lock"]
    /\ UNCHANGED call

-----------------------------------------------------------------------------
(* The callback captures references into the caller's frame: it is through   *)
(* with all of them, the unlocking of mu included, before the caller returns *)
(* and destroys them.                                                        *)
FrameAlive ==
    \A c \in Callers : frame[c].caller = "returned" => frame[c].callback = "over"

(* No lost wakeup: a caller that sleeps although done is set is about to be  *)
(* notified.                                                                 *)
CallerWakes ==
    \A c \in Callers :
        frame[c].caller = "asleep" /\ frame[c].done => frame[c].callback = "notify"
=============================================================================
