--------------------------- MODULE CallPathProofs ---------------------------
(***************************************************************************)
(* Proofs about the blocking call (module Rpc) as the processes make it    *)
(* (module CallPath), for any inputs, variables and number of failures.    *)
(***************************************************************************)
EXTENDS CallPath, TLAPS

CallerPcs == {"none", "lock", "test", "wait", "asleep", "returned"}

CallbackPcs == {"none", "status", "lock", "done", "notify", "unlock", "over"}

Frames == [caller : CallerPcs, callback : CallbackPcs, mu : {"free", "caller", "callback"},
           done : BOOLEAN, status : {"OK", "error"}]

(* What holds of the frame f of a call of phase p: mu is held by the caller  *)
(* from CallerLock on until it sleeps or returns, and by the callback from   *)
(* CallbackLock to CallbackUnlock; done is set in between, under mu, so a    *)
(* caller that has seen it has waited for CallbackUnlock; and a call that    *)
(* gRPC still has has not touched the frame.                                 *)
FrameSound(f, p) ==
    /\ f \in Frames
    /\ f.mu = "caller" <=> f.caller \in {"test", "wait"}
    /\ f.mu = "callback" <=> f.callback \in {"done", "notify", "unlock"}
    /\ f.done <=> f.callback \in {"notify", "unlock", "over"}
    /\ f.caller = "wait" => ~f.done
    /\ f.caller = "returned" => f.callback = "over"
    /\ f.caller = "asleep" /\ f.done => f.callback = "notify"
    /\ p \in {"none", "sent", "served"} => f.callback = "none"

FramesSound ==
    /\ frame \in [Callers -> Frames]
    /\ \A c \in Callers : FrameSound(frame[c], call[c].phase)

Methods == {"WriteDynamicData", "ReadData", "ClearIntermediateCalculations"}

(* A call of the client or of the database client, as gRPC has it.           *)
CallSound(c, x) ==
    \/ x = NoCall
    \/ /\ x = [phase |-> x.phase, request |-> x.request, reply |-> x.reply, s |-> x.s]
       /\ x.phase \in {"sent", "completed"} \/ (x.phase = "served" /\ c = "client")
       /\ x.s \in {"OK", "error"}
       /\ c # "client" => x.request.method \in Methods

CallsSound ==
    /\ call = [c \in Callers |-> call[c]]
    /\ \A c \in Callers : CallSound(c, call[c])

(* A call that the database serves was sent, ...                             *)
LEMMA SentBefore ==
    ASSUME NEW c \in Callers, ServeCall(c) \/ ServeUnheard(c)
    PROVE  call[c].phase = "sent"
  <1>1. CASE ServeCall(c)
    BY <1>1, Zenon DEF ServeCall
  <1>2. CASE ServeUnheard(c)
    BY <1>2, Zenon DEF ServeUnheard
  <1> QED
    BY <1>1, <1>2

(* ... and of a method it has a handler for.                                 *)
LEMMA KnownMethod ==
    ASSUME CallsSound, NEW c \in DatabaseCallers, call[c].phase = "sent"
    PROVE  call[c].request.method \in Methods
  BY DEF CallsSound, CallSound, DatabaseCallers, NoCall

(* The steps that move a call or its frame, one by one.                      *)
LEMMA RpcSteps ==
    ASSUME CallsSound, [Next]_vars
    PROVE  \/ UNCHANGED rpcVars
           \/ \E c \in Callers : \E request, reply :
                /\ c # "client" => request.method \in Methods
                /\ Call(c, request, reply)
           \/ \E c \in Callers : \E reply, s :
                /\ call[c].phase \in {"sent", "served"} /\ s \in {"OK", "error"}
                /\ Complete(c, reply, s)
           \/ call' = [call EXCEPT !["client"].phase = "served"] /\ UNCHANGED frame
              /\ call["client"].phase = "sent"
           \/ frame' = [frame EXCEPT !["client"] = NoFrame] /\ UNCHANGED call
              /\ frame["client"].caller = "returned"
           \/ \E c \in Callers : CallbackStep(c) \/ CallerStep(c) \/ WakeSpuriously(c)
  <1>0. "client" \in Callers /\ "handler" \in Callers /\ "pool" \in Callers
    BY CallPathAssumption
  <1>1. CASE UNCHANGED vars
    BY <1>1 DEF vars
  <1>2. CASE RunClient
    BY <1>0, <1>2 DEF RunClient
  <1>3. CASE GotResult
    BY <1>3 DEF GotResult
  <1>4. CASE HandleCalculateProblem
    BY <1>0, <1>4 DEF HandleCalculateProblem
  <1>5. CASE AskResult
    BY <1>0, <1>5 DEF AskResult, Methods
  <1>6. CASE ClearResults
    BY <1>0, <1>6 DEF ClearResults, Finish, Methods
  <1>7. CASE Reply
    BY <1>0, <1>7 DEF Reply, Finish
  <1>8. CASE AskOperand
    BY <1>0, <1>8 DEF AskOperand, Methods
  <1>9. CASE GotOperand
    BY <1>9 DEF GotOperand, rpcVars
  <1>10. CASE Calculate
    BY <1>0, <1>10 DEF Calculate, Methods
  <1>11. CASE Finished
    BY <1>11 DEF Finished, rpcVars
  <1>12. CASE \E c \in Callers : Step(c)
    BY <1>12 DEF Step
  <1>13. CASE \E c \in Callers : WakeSpuriously(c)
    BY <1>13
  <1>14. ASSUME NEW c \in DatabaseCallers, ServeCall(c)
         PROVE  \E reply, s : s \in {"OK", "error"} /\ Complete(c, reply, s)
    <2>1. call[c].request.method \in Methods
      BY <1>14, SentBefore, KnownMethod DEF DatabaseCallers
    <2> QED
      BY <1>14, <2>1 DEF ServeCall, Serve, Methods
  <1>15. ASSUME NEW c \in DatabaseCallers, ServeUnheard(c)
         PROVE  \E reply, s : s \in {"OK", "error"} /\ Complete(c, reply, s)
    <2>1. call[c].request.method \in Methods
      BY <1>15, SentBefore, KnownMethod DEF DatabaseCallers
    <2> QED
      BY <1>15, <2>1 DEF ServeUnheard, Serve, Methods
  <1>16. CASE \E c \in DatabaseCallers : ServeCall(c) \/ ServeUnheard(c)
    <2>1. PICK c \in DatabaseCallers : ServeCall(c) \/ ServeUnheard(c)
      BY <1>16
    <2>2. c \in Callers /\ call[c].phase = "sent"
      BY <2>1, SentBefore DEF DatabaseCallers
    <2>3. PICK reply, s : s \in {"OK", "error"} /\ Complete(c, reply, s)
      BY <2>1, <1>14, <1>15
    <2> QED
      BY <2>2, <2>3
  <1>17. CASE \E c \in Callers : LoseRequest(c)
    BY <1>17 DEF LoseRequest
  <1>18. CASE LoseClient
    BY <1>0, <1>18 DEF LoseClient
  <1> QED
    BY <1>1, <1>2, <1>3, <1>4, <1>5, <1>6, <1>7, <1>8, <1>9, <1>10, <1>11, <1>12, <1>13,
       <1>16, <1>17, <1>18 DEF Next, Program

-----------------------------------------------------------------------------
(* Every step keeps the calls of their shape.                                *)
LEMMA CallsStep ==
    ASSUME CallsSound, [Next]_vars
    PROVE  CallsSound'
  <1>1. CASE UNCHANGED call
    BY <1>1 DEF CallsSound
  <1>2. ASSUME NEW c \in Callers, NEW request, NEW reply,
               c # "client" => request.method \in Methods, Call(c, request, reply)
        PROVE  CallsSound'
    BY <1>2 DEF CallsSound, CallSound, Call
  <1>3. ASSUME NEW c \in Callers, NEW reply, NEW s \in {"OK", "error"},
               call[c].phase \in {"sent", "served"}, Complete(c, reply, s)
        PROVE  CallsSound'
    <2> DEFINE y == call[c]
    <2>1. y = [phase |-> y.phase, request |-> y.request, reply |-> y.reply, s |-> y.s]
      BY <1>3 DEF CallsSound, CallSound, NoCall
    <2>4. call' = [call EXCEPT ![c] = [y EXCEPT !.phase = "completed", !.reply = reply, !.s = s]]
      BY <1>3 DEF Complete, CallsSound
    <2>5. [y EXCEPT !.phase = "completed", !.reply = reply, !.s = s]
            = [phase |-> "completed", request |-> y.request, reply |-> reply, s |-> s]
      <3> HIDE DEF y
      <3> DEFINE one == [phase |-> "completed", request |-> y.request, reply |-> y.reply, s |-> y.s]
                 two == [phase |-> "completed", request |-> y.request, reply |-> reply, s |-> y.s]
      <3>1. [y EXCEPT !.phase = "completed"] = one
        BY <2>1
      <3>2. [one EXCEPT !.reply = reply] = two
        OBVIOUS
      <3>3. [two EXCEPT !.s = s]
              = [phase |-> "completed", request |-> y.request, reply |-> reply, s |-> s]
        OBVIOUS
      <3>4. [y EXCEPT !.phase = "completed", !.reply = reply, !.s = s]
              = [[[y EXCEPT !.phase = "completed"] EXCEPT !.reply = reply] EXCEPT !.s = s]
        OBVIOUS
      <3> HIDE DEF one, two
      <3> QED
        BY <3>1, <3>2, <3>3, <3>4
    <2>2. call' = [call EXCEPT ![c] = [phase |-> "completed", request |-> y.request,
                                       reply |-> reply, s |-> s]]
      BY <2>4, <2>5
    <2>3. c # "client" => call[c].request.method \in Methods
      BY <1>3 DEF CallsSound, CallSound, NoCall
    <2> QED
      BY <1>3, <2>2, <2>3 DEF CallsSound, CallSound
  <1>4. CASE call' = [call EXCEPT !["client"].phase = "served"] /\ call["client"].phase = "sent"
    <2> DEFINE y == call["client"]
    <2>0. "client" \in Callers
      BY CallPathAssumption
    <2>1. y = [phase |-> y.phase, request |-> y.request, reply |-> y.reply, s |-> y.s]
          /\ y.s \in {"OK", "error"}
      BY <1>4, <2>0 DEF CallsSound, CallSound, NoCall
    <2>3. [y EXCEPT !.phase = "served"]
            = [phase |-> "served", request |-> y.request, reply |-> y.reply, s |-> y.s]
      BY <2>1
    <2>2. call' = [call EXCEPT !["client"] = [phase |-> "served", request |-> y.request,
                                              reply |-> y.reply, s |-> y.s]]
      BY <1>4, <2>0, <2>3 DEF CallsSound
    <2> QED
      BY <2>0, <2>1, <2>2 DEF CallsSound, CallSound
  <1>5. ASSUME NEW c \in Callers, CallbackStep(c) \/ CallerStep(c) \/ WakeSpuriously(c)
        PROVE  UNCHANGED call
    BY <1>5
       DEF CallbackStep, CallerStep, WakeSpuriously, SetStatus, CallbackLock, SetDone, NotifyOne,
           CallbackUnlock, CallerLock, TestDone, Wait
  <1> QED
    BY <1>1, <1>2, <1>3, <1>4, <1>5, RpcSteps DEF rpcVars

(* The caller's and the callback's steps keep the frame sound: each holds mu *)
(* where it reads or writes what the other does.                             *)
LEMMA FrameStep ==
    ASSUME CallsSound, FramesSound, NEW c \in Callers,
           CallbackStep(c) \/ CallerStep(c) \/ WakeSpuriously(c)
    PROVE  FramesSound'
  <1>1. FrameSound(frame[c], call[c].phase) /\ frame[c] \in Frames
    BY DEF FramesSound
  <1>2. ASSUME NEW f, FrameSound(f, call[c].phase), frame' = [frame EXCEPT ![c] = f], UNCHANGED call
        PROVE  FramesSound'
    BY <1>2 DEF FramesSound, FrameSound
  <1> DEFINE f == frame[c]
             After(g) == frame' = [frame EXCEPT ![c] = g] /\ UNCHANGED call
  <1>3. f = [caller |-> f.caller, callback |-> f.callback, mu |-> f.mu, done |-> f.done,
             status |-> f.status]
    BY <1>1 DEF Frames
  <1>4. CASE SetStatus(c)
    <2>1. After([f EXCEPT !.status = call[c].s, !.callback = "lock"])
      BY <1>4 DEF SetStatus, FramesSound
    <2>2. call[c].s \in {"OK", "error"} /\ call[c].phase = "completed"
      BY <1>1, <1>4 DEF SetStatus, CallsSound, CallSound, FrameSound, NoCall
    <2>3. FrameSound([f EXCEPT !.status = call[c].s, !.callback = "lock"], call[c].phase)
      BY <1>1, <1>4, <2>2 DEF SetStatus, FrameSound, Frames, CallerPcs, CallbackPcs
    <2> QED
      BY <2>1, <2>3, <1>2
  <1>5. CASE CallbackLock(c)
    <2> DEFINE g == [f EXCEPT !.mu = "callback", !.callback = "done"]
    <2>1. After(g)
      BY <1>5 DEF CallbackLock, FramesSound
    <2>2. FrameSound(g, call[c].phase)
      BY <1>1, <1>5 DEF CallbackLock, FrameSound, Frames, CallerPcs, CallbackPcs
    <2> QED
      BY <2>1, <2>2, <1>2
  <1>6. CASE SetDone(c)
    <2> DEFINE g == [f EXCEPT !.done = TRUE, !.callback = "notify"]
    <2>1. After(g)
      BY <1>6 DEF SetDone, FramesSound
    <2>2. FrameSound(g, call[c].phase)
      BY <1>1, <1>6 DEF SetDone, FrameSound, Frames, CallerPcs, CallbackPcs
    <2> QED
      BY <2>1, <2>2, <1>2
  <1>7. CASE NotifyOne(c)
    <2> DEFINE g == [f EXCEPT !.caller = IF @ = "asleep" THEN "lock" ELSE @, !.callback = "unlock"]
    <2>1. After(g)
      BY <1>7 DEF NotifyOne, FramesSound
    <2>2. FrameSound(g, call[c].phase)
      BY <1>1, <1>7 DEF NotifyOne, FrameSound, Frames, CallerPcs, CallbackPcs
    <2> QED
      BY <2>1, <2>2, <1>2
  <1>8. CASE CallbackUnlock(c)
    <2> DEFINE g == [f EXCEPT !.mu = "free", !.callback = "over"]
    <2>1. After(g)
      BY <1>8 DEF CallbackUnlock, FramesSound
    <2>2. FrameSound(g, call[c].phase)
      BY <1>1, <1>8 DEF CallbackUnlock, FrameSound, Frames, CallerPcs, CallbackPcs
    <2> QED
      BY <2>1, <2>2, <1>2
  <1>9. CASE CallerLock(c)
    <2> DEFINE g == [f EXCEPT !.mu = "caller", !.caller = "test"]
    <2>1. After(g)
      BY <1>9 DEF CallerLock, FramesSound
    <2>2. FrameSound(g, call[c].phase)
      BY <1>1, <1>9 DEF CallerLock, FrameSound, Frames, CallerPcs, CallbackPcs
    <2> QED
      BY <2>1, <2>2, <1>2
  <1>10. CASE TestDone(c)
    <2> DEFINE g == IF f.done THEN [f EXCEPT !.caller = "returned", !.mu = "free"]
                          ELSE [f EXCEPT !.caller = "wait"]
    <2>1. After(g)
      BY <1>10 DEF TestDone, FramesSound
    <2>2. FrameSound(g, call[c].phase)
      BY <1>1, <1>10 DEF TestDone, FrameSound, Frames, CallerPcs, CallbackPcs
    <2> QED
      BY <2>1, <2>2, <1>2
  <1>11. CASE Wait(c)
    <2> DEFINE g == [f EXCEPT !.caller = "asleep", !.mu = "free"]
    <2>1. After(g)
      BY <1>11 DEF Wait, FramesSound
    <2>2. FrameSound(g, call[c].phase)
      BY <1>1, <1>11 DEF Wait, FrameSound, Frames, CallerPcs, CallbackPcs
    <2> QED
      BY <2>1, <2>2, <1>2
  <1>12. CASE WakeSpuriously(c)
    <2> DEFINE g == [f EXCEPT !.caller = "lock"]
    <2>1. After(g)
      BY <1>12 DEF WakeSpuriously, FramesSound
    <2>2. FrameSound(g, call[c].phase)
      BY <1>1, <1>12 DEF WakeSpuriously, FrameSound, Frames, CallerPcs, CallbackPcs
    <2> QED
      BY <2>1, <2>2, <1>2
  <1> QED
    BY <1>4, <1>5, <1>6, <1>7, <1>8, <1>9, <1>10, <1>11, <1>12 DEF CallbackStep, CallerStep

(* Every step keeps the frames sound.                                        *)
LEMMA FramesStep ==
    ASSUME CallsSound, FramesSound, [Next]_vars
    PROVE  FramesSound'
  <1> USE DEF FramesSound, FrameSound, Frames, CallerPcs, CallbackPcs
  <1>1. CASE UNCHANGED rpcVars
    BY <1>1 DEF rpcVars
  <1>2. ASSUME NEW c \in Callers, NEW request, NEW reply, Call(c, request, reply)
        PROVE  FramesSound'
    <2> DEFINE f == [NoFrame EXCEPT !.caller = "lock"]
    <2>1. FrameSound(f, "sent")
      BY DEF NoFrame
    <2>2. frame' = [frame EXCEPT ![c] = f] /\ call'[c].phase = "sent"
          /\ \A d \in Callers \ {c} : call'[d] = call[d]
      BY <1>2 DEF Call, CallsSound
    <2> QED
      BY <2>1, <2>2
  <1>3. ASSUME NEW c \in Callers, NEW reply, NEW s,
               call[c].phase \in {"sent", "served"}, Complete(c, reply, s)
        PROVE  FramesSound'
    BY <1>3 DEF Complete, CallsSound, CallSound, NoCall
  <1>4. CASE /\ call' = [call EXCEPT !["client"].phase = "served"] /\ UNCHANGED frame
             /\ call["client"].phase = "sent"
    BY <1>4 DEF CallsSound, CallSound, NoCall
  <1>5. CASE /\ frame' = [frame EXCEPT !["client"] = NoFrame] /\ UNCHANGED call
             /\ frame["client"].caller = "returned"
    BY <1>5, CallPathAssumption DEF NoFrame
  <1> QED
    BY <1>1, <1>2, <1>3, <1>4, <1>5, RpcSteps, FrameStep

-----------------------------------------------------------------------------
(* The frames and calls of every reachable state are sound.                  *)
LEMMA RpcInvariance == Spec => [](CallsSound /\ FramesSound)
  <1>1. Init => CallsSound /\ FramesSound
    BY DEF Init, RpcInit, CallsSound, CallSound, FramesSound, FrameSound, Frames, NoFrame, NoCall,
           CallerPcs, CallbackPcs
  <1>2. CallsSound /\ FramesSound /\ [Next]_vars => (CallsSound /\ FramesSound)'
    BY CallsStep, FramesStep
  <1> QED
    BY <1>1, <1>2, PTL DEF Spec

(* The callback of an asynchronous call is through with the caller's stack   *)
(* frame, the mutex included, before the caller returns: for every thread    *)
(* that calls, whatever is calculated and however often calls fail.          *)
THEOREM FrameAliveHolds == Spec => []FrameAlive
  <1>1. FramesSound => FrameAlive
    BY DEF FramesSound, FrameSound, FrameAlive
  <1> QED
    BY <1>1, RpcInvariance, PTL

(* A caller that sleeps although done is set is about to be notified.        *)
THEOREM CallerWakesHolds == Spec => []CallerWakes
  <1>1. FramesSound => CallerWakes
    BY DEF FramesSound, FrameSound, CallerWakes
  <1> QED
    BY <1>1, RpcInvariance, PTL

-----------------------------------------------------------------------------
(* What becomes of one request.                                              *)
RootId == <<ProblemId, Len(input.operands)>>

(* The values an operand can have.                                           *)
OperandValues == ({"Scalar"} \X Int) \cup ({"List"} \X Seq(Int))

(* A result the user's client can print, ...                                 *)
Printable(result) == Info(FormatCalculationReply(ToReply(result)))

(* ... and a row of dynamic_data that holds one.                             *)
ResultRow(bytes) ==
    /\ FromField(ParseField(bytes)) # Exception
    /\ Printable(FromField(ParseField(bytes)))

Waiting(c) == call[c].phase \in {"sent", "completed"}

Resting(c) == call[c].phase \in {"none", "completed"}

(* The handler and the pool thread, side by side: one of the two is at work. *)
Turns ==
    /\ input \in Inputs /\ failures \in Nat
    /\ handler.pc = "idle" => pool.pc = "idle"
    /\ handler.pc = "waiting" => pool.pc \in {"extract", "reading", "writing", "dead"}
    /\ handler.pc \in {"computed", "reading", "clearing"} => pool.pc = "finished"
    /\ handler.pc = "over" => pool.pc \in {"idle", "finished"}
    /\ handler.pc \in {"idle", "waiting", "computed", "reading", "clearing", "over"}
    /\ handler.pc \in {"idle", "waiting", "computed", "over"} => Resting("handler")
    /\ pool.pc \in {"idle", "extract", "finished", "dead"} => Resting("pool")

(* The pool thread asks for the operands of the task, one by one, and writes *)
(* a result.                                                                 *)
PoolSound ==
    /\ DOMAIN pool = {"pc", "task", "operands"}
    /\ pool.pc # "idle" => pool.task = TaskOf(input)
    /\ pool.operands \in Seq(OperandValues)
    /\ pool.pc = "reading" =>
        /\ Waiting("pool")
        /\ call["pool"].request.method = "ReadData"
        /\ call["pool"].request.message
             = StaticRecordId(call["pool"].request.message.static_id.identifier)
        /\ FromField(call["pool"].reply) \in OperandValues \cup {Exception}
    /\ pool.pc = "writing" =>
        /\ Waiting("pool")
        /\ call["pool"].request.method = "WriteDynamicData"
        /\ call["pool"].request.message.record_id
             = [problem_id |-> ProblemId, task_id |-> Len(input.operands)]
        /\ ResultRow(SerializeField(call["pool"].request.message.field))

(* The database holds the result of this request at most; a handler that     *)
(* reads nothing while it is there, or does not clear it, saw its own call   *)
(* fail; and unless some call failed, it is there from the end of the write  *)
(* to the clearing.                                                          *)
RowSound ==
    /\ DOMAIN db \subseteq {RootId}
    /\ \A id \in DOMAIN db : ResultRow(db[id])
    /\ pool.pc = "idle" => DOMAIN db = {}
    /\ DOMAIN db # {} /\ call["handler"].phase = "completed" =>
        /\ handler.pc = "reading" /\ FromField(call["handler"].reply) = Exception
            => call["handler"].s = "error"
        /\ handler.pc \in {"clearing", "over"} => call["handler"].s = "error"
    /\ DOMAIN db # {} /\ handler.pc = "over" => call["handler"].phase = "completed"
    /\ failures = 0 =>
        /\ pool.pc = "writing" /\ call["pool"].phase = "completed" => RootId \in DOMAIN db
        /\ handler.pc \in {"computed", "reading"} => RootId \in DOMAIN db
        /\ handler.pc = "clearing" /\ call["handler"].phase = "completed" => DOMAIN db = {}
        /\ handler.pc = "over" => DOMAIN db = {}

(* The handler reads that result, can print what it read, and finds it there *)
(* unless a call failed.                                                     *)
HandlerSound ==
    /\ DOMAIN handler = {"pc", "result"}
    /\ handler.pc = "reading" =>
        /\ Waiting("handler")
        /\ call["handler"].request
             = [method |-> "ReadData", message |-> DynRecordId(ProblemId, Len(input.operands))]
        /\ LET result == FromField(call["handler"].reply)
           IN  /\ result # Exception => Printable(result)
               /\ failures = 0 /\ call["handler"].phase = "completed" => result # Exception
    /\ handler.pc = "clearing" =>
        /\ Waiting("handler")
        /\ call["handler"].request
             = [method |-> "ClearIntermediateCalculations", message |-> ProblemId]
        /\ Printable(handler.result)

(* A failure is the client's own or has come all the way to it.              *)
Excused == failures > 0 \/ ~Parses(input)

ClientSound ==
    /\ client \in {"start", "terminated"} => call["client"].phase = "none"
    /\ client = "failure" => Excused
    /\ frame["client"].status = "error" => Excused
    /\ call["client"].phase # "none" =>
        /\ call["client"].s = "error" => Excused
        /\ Info(FormatCalculationReply(call["client"].reply))

PathInv == Turns /\ PoolSound /\ RowSound /\ HandlerSound /\ ClientSound

-----------------------------------------------------------------------------
(* A value is what is left of it after its way through the client's message, *)
(* the bytes of SQLite and back.                                             *)
LEMMA RoundTrip ==
    ASSUME NEW x
    PROVE  /\ FromField(ParseField(SerializeField(ToField(Scalar(x))))) = Scalar(x)
           /\ FromField(ParseField(SerializeField(ToField(List(x))))) = List(x)
  BY DEF FromField, ParseField, SerializeField, ToField, Scalar, List, Has, Tagged

(* The row of a variable is read as the value data.json gives it.            *)
LEMMA VariableRoundTrip ==
    ASSUME NEW v \in DOMAIN Variables
    PROVE  FromField(ParseField(StaticData[v])) = Variables[v] /\ Variables[v] \in OperandValues
  <1>1. Variables[v] \in OperandValues /\ StaticData[v] = SetupRow(Variables[v])
    BY CallPathAssumption DEF OperandValues
  <1>2. CASE Variables[v] \in {"Scalar"} \X Int
    <2>1. Variables[v] = Scalar(Variables[v][2]) /\ Variables[v][1] = "Scalar"
      BY <1>2 DEF Scalar
    <2> QED
      BY <1>1, <2>1, RoundTrip DEF SetupRow, ToField, Scalar
  <1>3. CASE Variables[v] \in {"List"} \X Seq(Int)
    <2>1. Variables[v] = List(Variables[v][2]) /\ Variables[v][1] = "List"
      BY <1>3 DEF List
    <2> QED
      BY <1>1, <2>1, RoundTrip DEF SetupRow, ToField, List
  <1> QED
    BY <1>1, <1>2, <1>3 DEF OperandValues

(* What is calculated from operands is a scalar or a list with a length.     *)
LEMMA CalculatedForm ==
    ASSUME NEW type, NEW operands \in Seq(OperandValues), operands # <<>>,
           CalculateTaskImpl(type, operands) # Exception
    PROVE  \/ \E x : CalculateTaskImpl(type, operands) = Scalar(x)
           \/ \E l : CalculateTaskImpl(type, operands) = List(l) /\ Len(l) \in Nat
  <1> DEFINE lhs == operands[1]
             rhs == operands[Len(operands)]
             value == Apply(type, lhs[2], rhs[2])
  <1>1. /\ value # Exception
        /\ lhs[1] = LhsAlternative(type)
        /\ CalculateTaskImpl(type, operands)
             = IF YieldsList(type) THEN List(value) ELSE Scalar(value)
    BY DEF CalculateTaskImpl
  <1>2. CASE ~YieldsList(type)
    BY <1>1, <1>2
  <1>3. CASE YieldsList(type)
    <2>1. lhs[2] \in Seq(Int)
      <3>1. lhs \in OperandValues /\ lhs[1] = "List"
        BY <1>1, <1>3 DEF YieldsList, LhsAlternative, MixedOps, ListOps, ScalarOps
      <3> QED
        BY <3>1 DEF OperandValues
    <2>2. ASSUME NEW f, NEW l \in Seq(Int), DOMAIN f = DOMAIN l, f = [i \in DOMAIN l |-> f[i]]
          PROVE  Len(f) \in Nat
      <3>1. f \in Seq({f[i] : i \in DOMAIN l})
        BY <2>2
      <3> QED
        BY <3>1
    <2>3. ASSUME NEW f, f = [i \in DOMAIN lhs[2] |-> f[i]], value = OrException(f)
          PROVE  Len(value) \in Nat
      BY <1>1, <2>1, <2>2, <2>3 DEF OrException
    <2> HIDE DEF lhs, rhs
    <2>4. CASE type = "me_add"
      <3> DEFINE f == [i \in DOMAIN lhs[2] |-> Sum(lhs[2][i], rhs[2])]
      <3>1. value = OrException(f)
        BY <1>1, <2>4 DEF Apply, SumListScalar, Transform
      <3>2. f = [i \in DOMAIN lhs[2] |-> f[i]]
        OBVIOUS
      <3> QED
        BY <1>1, <1>3, <2>3, <3>1, <3>2
    <2>5. CASE type = "me_mul"
      <3> DEFINE f == [i \in DOMAIN lhs[2] |-> Mul(lhs[2][i], rhs[2])]
      <3>1. value = OrException(f)
        BY <1>1, <2>5 DEF Apply, MulListScalar, Transform
      <3>2. f = [i \in DOMAIN lhs[2] |-> f[i]]
        OBVIOUS
      <3> QED
        BY <1>1, <1>3, <2>3, <3>1, <3>2
    <2>6. CASE type = "me_div"
      <3> DEFINE f == [i \in DOMAIN lhs[2] |-> Div(lhs[2][i], rhs[2])]
      <3>1. value = OrException(f)
        BY <1>1, <2>6 DEF Apply, DivListScalar, Transform
      <3>2. f = [i \in DOMAIN lhs[2] |-> f[i]]
        OBVIOUS
      <3> QED
        BY <1>1, <1>3, <2>3, <3>1, <3>2
    <2>7. CASE type = "lo_add"
      <3> DEFINE f == [i \in DOMAIN lhs[2] |-> Sum(lhs[2][i], rhs[2][i])]
      <3>1. value = OrException(f)
        BY <1>1, <2>7 DEF Apply, SumLists, ElementWise
      <3>2. f = [i \in DOMAIN lhs[2] |-> f[i]]
        OBVIOUS
      <3> QED
        BY <1>1, <1>3, <2>3, <3>1, <3>2
    <2>8. CASE type = "lo_mul"
      <3> DEFINE f == [i \in DOMAIN lhs[2] |-> Mul(lhs[2][i], rhs[2][i])]
      <3>1. value = OrException(f)
        BY <1>1, <2>8 DEF Apply, MulLists, ElementWise
      <3>2. f = [i \in DOMAIN lhs[2] |-> f[i]]
        OBVIOUS
      <3> QED
        BY <1>1, <1>3, <2>3, <3>1, <3>2
    <2>9. CASE type = "lo_div"
      <3> DEFINE f == [i \in DOMAIN lhs[2] |-> Div(lhs[2][i], rhs[2][i])]
      <3>1. value = OrException(f)
        BY <1>1, <2>9 DEF Apply, DivLists, ElementWise
      <3>2. f = [i \in DOMAIN lhs[2] |-> f[i]]
        OBVIOUS
      <3> QED
        BY <1>1, <1>3, <2>3, <3>1, <3>2
    <2> QED
      BY <1>3, <2>4, <2>5, <2>6, <2>7, <2>8, <2>9 DEF YieldsList, MixedOps, ListOps
  <1> QED
    BY <1>2, <1>3

-----------------------------------------------------------------------------
(* What a call leaves behind, ...                                            *)
LEMMA CallEffect ==
    ASSUME CallsSound, FramesSound,
           NEW c \in Callers, NEW request, NEW reply, Call(c, request, reply)
    PROVE  /\ call'[c] = [phase |-> "sent", request |-> request, reply |-> reply, s |-> "OK"]
           /\ frame'[c].status = "OK"
           /\ \A d \in Callers \ {c} : call'[d] = call[d] /\ frame'[d] = frame[d]
  BY DEF Call, CallsSound, FramesSound, NoFrame

(* ... and what its completion does.                                         *)
LEMMA CompleteEffect ==
    ASSUME CallsSound, FramesSound,
           NEW c \in Callers, NEW reply, NEW s, Complete(c, reply, s),
           call[c].phase \in {"sent", "served"}
    PROVE  /\ call'[c].phase = "completed" /\ call'[c].request = call[c].request
           /\ call'[c].reply = reply /\ call'[c].s = s
           /\ \A d \in Callers \ {c} : call'[d] = call[d]
           /\ \A d \in Callers : frame'[d].status = frame[d].status
  <1> DEFINE y == call[c]
  <1>1. y = [phase |-> y.phase, request |-> y.request, reply |-> y.reply, s |-> y.s]
    BY DEF CallsSound, CallSound, NoCall
  <1>2. DOMAIN y = {"phase", "request", "reply", "s"}
    BY <1>1
  <1>3. /\ call'[c] = [y EXCEPT !.phase = "completed", !.reply = reply, !.s = s]
        /\ \A d \in Callers \ {c} : call'[d] = call[d]
    BY DEF Complete, CallsSound
  <1>4. \A d \in Callers : frame'[d].status = frame[d].status
    BY DEF Complete, FramesSound, Frames
  <1> HIDE DEF y
  <1>5. /\ call'[c].phase = "completed" /\ call'[c].request = y.request
        /\ call'[c].reply = reply /\ call'[c].s = s
    BY <1>2, <1>3
  <1> QED
    BY <1>3, <1>4, <1>5 DEF y

(* A caller that has returned has been answered.                             *)
LEMMA ReturnedCall ==
    ASSUME CallsSound, FramesSound, NEW c \in Callers, frame[c].caller = "returned"
    PROVE  call[c].phase = "completed"
  BY DEF CallsSound, CallSound, FramesSound, FrameSound, NoCall

Sound == CallsSound /\ FramesSound /\ PathInv

(* A step of the caller or of the callback moves the frame only, and the     *)
(* status comes from the call.                                               *)
LEMMA RpcPath ==
    ASSUME Sound, NEW c \in Callers, CallbackStep(c) \/ CallerStep(c) \/ WakeSpuriously(c),
           UNCHANGED <<input, client, handler, pool, failures, db>>
    PROVE  PathInv'
  <1>1. UNCHANGED call
    BY DEF CallbackStep, CallerStep, WakeSpuriously, SetStatus, CallbackLock, SetDone, NotifyOne,
           CallbackUnlock, CallerLock, TestDone, Wait
  <1>2. (Turns /\ PoolSound /\ RowSound /\ HandlerSound)'
    BY <1>1
       DEF Sound, PathInv, Turns, PoolSound, RowSound, HandlerSound, Resting, Waiting, RootId,
           HasRow, ResultRow, Printable
  <1>3. frame'["client"].status = "error" => Excused
    <2>1. CASE SetStatus(c)
      <3>1. CASE c = "client"
        <4>1. call[c].phase # "none" /\ frame'[c].status = call[c].s
          BY <2>1 DEF SetStatus, Sound, FramesSound, FrameSound, Frames
        <4> QED
          BY <3>1, <4>1 DEF Sound, PathInv, ClientSound
      <3>2. CASE c # "client"
        BY <2>1, <3>2, CallPathAssumption DEF SetStatus, Sound, FramesSound, PathInv, ClientSound
      <3> QED
        BY <3>1, <3>2
    <2>2. CASE ~SetStatus(c)
      <3>1. \A d \in Callers : frame'[d].status = frame[d].status
        BY <2>2
           DEF Sound, FramesSound, Frames, CallbackStep, CallerStep, WakeSpuriously, CallbackLock,
               SetDone, NotifyOne, CallbackUnlock, CallerLock, TestDone, Wait
      <3> QED
        BY <3>1, CallPathAssumption DEF Sound, PathInv, ClientSound
    <2> QED
      BY <2>1, <2>2
  <1>4. ClientSound'
    BY <1>1, <1>3 DEF Sound, PathInv, ClientSound, Excused, Parses
  <1> QED
    BY <1>2, <1>4 DEF PathInv

(* RunClient makes its call or ends.                                         *)
LEMMA RunClientPath ==
    ASSUME Sound, RunClient
    PROVE  PathInv'
  <1> USE CallPathAssumption DEF Sound, PathInv
  <1>1. /\ \A d \in {"handler", "pool"} : call'[d] = call[d]
        /\ UNCHANGED <<input, handler, pool, failures, db>>
    <2>1. (\E q : Call("client", q, Unset)) \/ UNCHANGED rpcVars
      BY DEF RunClient
    <2> QED
      BY <2>1, CallEffect DEF RunClient, rpcVars
  <1>2. (Turns /\ PoolSound /\ RowSound /\ HandlerSound)'
    BY <1>1
       DEF Turns, PoolSound, RowSound, HandlerSound, Resting, Waiting, RootId, ResultRow, Printable
  <1>3. ClientSound'
    <2>1. CASE client' = "calling"
      <3>1. /\ call'["client"].s = "OK" /\ call'["client"].reply = Unset
            /\ frame'["client"].status = "OK"
        <4>1. PICK q : Call("client", q, Unset)
          BY <2>1 DEF RunClient
        <4>2. /\ call'["client"] = [phase |-> "sent", request |-> q, reply |-> Unset, s |-> "OK"]
              /\ frame'["client"].status = "OK"
          BY <4>1, CallEffect
        <4> QED
          BY <4>2
      <3>2. Info(FormatCalculationReply(Unset))
        BY DEF FormatCalculationReply, Unset, Has, Info
      <3> QED
        BY <2>1, <3>1, <3>2 DEF ClientSound
    <2>2. CASE client' = "terminated"
      BY <1>1, <2>2 DEF RunClient, rpcVars, ClientSound, Excused, Parses
    <2> QED
      BY <2>1, <2>2 DEF RunClient
  <1> QED
    BY <1>2, <1>3

(* The end of the client's call: it is a failure of somebody's.              *)
LEMMA GotResultPath ==
    ASSUME Sound, GotResult
    PROVE  PathInv'
  <1> USE CallPathAssumption DEF Sound, PathInv
  <1>1. UNCHANGED <<input, handler, pool, call, failures, db>>
    BY DEF GotResult
  <1>2. (Turns /\ PoolSound /\ RowSound /\ HandlerSound)'
    BY <1>1
       DEF Turns, PoolSound, RowSound, HandlerSound, Resting, Waiting, RootId, ResultRow, Printable
  <1>3. call["client"].phase = "completed"
    BY ReturnedCall DEF GotResult
  <1>4. /\ client' \in {"success", "failure"}
        /\ client' = "failure" => frame["client"].status # "OK"
        /\ frame'["client"].status = "OK"
    BY <1>3 DEF GotResult, ClientSound, FramesSound, NoFrame
  <1>5. frame["client"].status \in {"OK", "error"}
    BY DEF FramesSound, Frames
  <1> QED
    BY <1>1, <1>2, <1>4, <1>5 DEF ClientSound, Excused, Parses

(* The handler refuses the AST, or a pool thread has the task.               *)
LEMMA HandlePath ==
    ASSUME Sound, HandleCalculateProblem
    PROVE  PathInv'
  <1> USE CallPathAssumption DEF Sound, PathInv
  <1>0. /\ handler.pc = "idle" /\ pool.pc = "idle" /\ call["client"].phase = "sent"
        /\ UNCHANGED <<input, client, failures, db>>
        /\ client \notin {"start", "terminated"}
    BY DEF HandleCalculateProblem, Turns, ClientSound
  <1>1. CASE ~Parses(input)
    <2>1. /\ Complete("client", Unset, "error") /\ handler' = [handler EXCEPT !.pc = "over"]
          /\ UNCHANGED pool
      BY <1>1 DEF HandleCalculateProblem
    <2>2. /\ \A d \in {"handler", "pool"} : call'[d] = call[d]
          /\ call'["client"].reply = Unset
          /\ frame'["client"].status = frame["client"].status
      BY <1>0, <2>1, CompleteEffect
    <2>3. Turns'
      BY <1>0, <2>1, <2>2 DEF Turns, Resting, HandlerSound
    <2>4. (PoolSound /\ RowSound /\ HandlerSound)'
      BY <1>0, <2>1, <2>2 DEF PoolSound, RowSound, HandlerSound, Waiting, RootId, ResultRow, Printable
    <2>5. Excused' /\ Info(FormatCalculationReply(Unset))
      BY <1>0, <1>1 DEF Excused, Parses, FormatCalculationReply, Unset, Has, Info
    <2>6. ClientSound'
      BY <1>0, <2>2, <2>5 DEF ClientSound
    <2> QED
      BY <2>3, <2>4, <2>6
  <1>2. CASE Parses(input)
    <2>1. /\ call' = [call EXCEPT !["client"].phase = "served"]
          /\ handler' = [handler EXCEPT !.pc = "waiting"]
          /\ pool' = [pool EXCEPT !.pc = "extract", !.task = TaskOf(input)]
          /\ UNCHANGED frame
      BY <1>2 DEF HandleCalculateProblem
    <2>2. /\ \A d \in {"handler", "pool"} : call'[d] = call[d]
          /\ call'["client"].reply = call["client"].reply
          /\ call'["client"].s = call["client"].s
      BY <1>0, <2>1 DEF CallsSound, CallSound, NoCall
    <2>3. /\ handler'.pc = "waiting" /\ DOMAIN handler' = DOMAIN handler
          /\ pool'.pc = "extract" /\ pool'.task = TaskOf(input) /\ pool'.operands = pool.operands
          /\ DOMAIN pool' = DOMAIN pool
      BY <2>1 DEF HandlerSound, PoolSound
    <2>4. Turns'
      BY <1>0, <2>2, <2>3 DEF Turns, Resting
    <2>5. PoolSound'
      BY <1>0, <2>2, <2>3 DEF PoolSound, TaskOf
    <2>6. (RowSound /\ HandlerSound)'
      BY <1>0, <2>2, <2>3 DEF RowSound, HandlerSound, RootId, ResultRow, Printable
    <2>7. ClientSound'
      BY <1>0, <2>1, <2>2 DEF ClientSound, Excused, Parses
    <2> QED
      BY <2>4, <2>5, <2>6, <2>7
  <1> QED
    BY <1>1, <1>2

(* The handler asks for the result.                                          *)
LEMMA AskResultPath ==
    ASSUME Sound, AskResult
    PROVE  PathInv'
  <1> USE CallPathAssumption DEF Sound, PathInv
  <1>1. /\ handler.pc = "computed" /\ handler'.pc = "reading" /\ DOMAIN handler' = DOMAIN handler
        /\ UNCHANGED <<input, client, pool, failures, db>>
        /\ call'["handler"]
             = [phase |-> "sent",
                request |-> [method |-> "ReadData",
                             message |-> DynRecordId(ProblemId, Len(input.operands))],
                reply |-> Unset, s |-> "OK"]
        /\ \A d \in {"client", "pool"} : call'[d] = call[d] /\ frame'[d] = frame[d]
    <2>1. PICK q : /\ q = [method |-> "ReadData",
                           message |-> DynRecordId(ProblemId, Len(input.operands))]
                   /\ Call("handler", q, Unset)
      BY DEF AskResult
    <2>2. /\ call'["handler"] = [phase |-> "sent", request |-> q, reply |-> Unset, s |-> "OK"]
          /\ \A d \in {"client", "pool"} : call'[d] = call[d] /\ frame'[d] = frame[d]
      BY <2>1, CallEffect
    <2> QED
      BY <2>1, <2>2 DEF AskResult, HandlerSound
  <1>2. FromField(Unset) = Exception
    BY DEF FromField, Unset, Has
  <1>3. Turns'
    BY <1>1 DEF Turns, Resting
  <1>4. (PoolSound /\ RowSound)'
    BY <1>1 DEF PoolSound, RowSound, Waiting, RootId, ResultRow, Printable
  <1>5. HandlerSound'
    BY <1>1, <1>2 DEF HandlerSound, Waiting, Printable
  <1>6. ClientSound'
    BY <1>1 DEF ClientSound, Excused, Parses
  <1> QED
    BY <1>3, <1>4, <1>5, <1>6

(* An answer to the client, if it still listens: an error is one of a call   *)
(* that failed.                                                              *)
LEMMA FinishPath ==
    ASSUME Sound, NEW reply, NEW s, Finish(reply, s),
           s = "error" => failures > 0, Info(FormatCalculationReply(reply)),
           UNCHANGED <<input, client, failures>>
    PROVE  /\ ClientSound'
           /\ \A d \in {"handler", "pool"} : call'[d] = call[d]
  <1> USE CallPathAssumption DEF Sound, PathInv
  <1>1. CASE call["client"].phase = "served"
    <2>1. Complete("client", reply, s)
      BY <1>1 DEF Finish
    <2>2. /\ call'["client"].reply = reply /\ call'["client"].s = s
          /\ frame'["client"].status = frame["client"].status
          /\ \A d \in {"handler", "pool"} : call'[d] = call[d]
      BY <1>1, <2>1, CompleteEffect
    <2>3. client \notin {"start", "terminated"}
      BY <1>1 DEF ClientSound
    <2> QED
      BY <2>2, <2>3 DEF ClientSound, Excused, Parses
  <1>2. CASE call["client"].phase # "served"
    BY <1>2 DEF Finish, rpcVars, ClientSound, Excused, Parses
  <1> QED
    BY <1>1, <1>2

(* The handler has read the result and clears the problem; without a result  *)
(* it fails, and then a call has failed.                                     *)
LEMMA ClearResultsPath ==
    ASSUME Sound, ClearResults
    PROVE  PathInv'
  <1> USE CallPathAssumption DEF Sound, PathInv
  <1> DEFINE read == FromField(call["handler"].reply)
  <1>1. /\ handler.pc = "reading" /\ pool.pc = "finished"
        /\ call["handler"].phase = "completed" /\ UNCHANGED <<input, client, pool, failures, db>>
    BY ReturnedCall DEF ClearResults, Turns
  <1>2. CASE read # Exception
    <2>1. /\ handler' = [pc |-> "clearing", result |-> read]
          /\ call'["handler"].phase = "sent"
          /\ call'["handler"].request
               = [method |-> "ClearIntermediateCalculations", message |-> ProblemId]
          /\ \A d \in {"client", "pool"} : call'[d] = call[d] /\ frame'[d] = frame[d]
      <3>1. /\ handler' = [pc |-> "clearing", result |-> read]
            /\ Call("handler", [method |-> "ClearIntermediateCalculations",
                                message |-> ProblemId], Unset)
        BY <1>2 DEF ClearResults
      <3>2. PICK q : /\ q = [method |-> "ClearIntermediateCalculations", message |-> ProblemId]
                     /\ Call("handler", q, Unset)
        BY <3>1
      <3>3. /\ call'["handler"] = [phase |-> "sent", request |-> q, reply |-> Unset, s |-> "OK"]
            /\ \A d \in {"client", "pool"} : call'[d] = call[d] /\ frame'[d] = frame[d]
        BY <3>2, CallEffect
      <3> QED
        BY <3>1, <3>2, <3>3
    <2>2. Printable(read)
      BY <1>1, <1>2 DEF HandlerSound
    <2>3. (Turns /\ PoolSound /\ RowSound)'
      BY <1>1, <2>1 DEF Turns, Resting, PoolSound, RowSound, Waiting, RootId, ResultRow, Printable
    <2>4. HandlerSound'
      BY <1>1, <2>1, <2>2 DEF HandlerSound, Waiting, Printable
    <2>5. ClientSound'
      BY <1>1, <2>1 DEF ClientSound, Excused, Parses
    <2> QED
      BY <2>3, <2>4, <2>5
  <1>3. CASE read = Exception
    <2>1. /\ Finish(Unset, "error") /\ handler' = [handler EXCEPT !.pc = "over"]
          /\ failures > 0
      BY <1>1, <1>3 DEF ClearResults, HandlerSound, Turns
    <2>2. Info(FormatCalculationReply(Unset))
      BY DEF FormatCalculationReply, Unset, Has, Info
    <2>3. ClientSound' /\ \A d \in {"handler", "pool"} : call'[d] = call[d]
      BY <1>1, <2>1, <2>2, FinishPath
    <2>4. handler'.pc = "over" /\ DOMAIN handler' = DOMAIN handler
      BY <2>1 DEF HandlerSound
    <2>5. DOMAIN db # {} => call["handler"].s = "error"
      BY <1>1, <1>3 DEF RowSound
    <2>6. (Turns /\ PoolSound /\ HandlerSound)'
      BY <1>1, <2>1, <2>3, <2>4
         DEF Turns, Resting, PoolSound, HandlerSound, Waiting, RootId, ResultRow, Printable
    <2>7. RowSound'
      BY <1>1, <2>1, <2>3, <2>4, <2>5 DEF RowSound, RootId, ResultRow, Printable
    <2> QED
      BY <2>3, <2>6, <2>7
  <1> QED
    BY <1>2, <1>3

(* The handler replies: everything is cleared by then, unless a call failed. *)
LEMMA ReplyPath ==
    ASSUME Sound, Reply
    PROVE  PathInv'
  <1> USE CallPathAssumption DEF Sound, PathInv
  <1>1. /\ handler.pc = "clearing" /\ pool.pc = "finished"
        /\ call["handler"].phase = "completed" /\ UNCHANGED <<input, client, pool, failures, db>>
        /\ Finish(ToReply(handler.result), "OK") /\ handler' = [handler EXCEPT !.pc = "over"]
    BY ReturnedCall DEF Reply, Turns
  <1>2. ClientSound' /\ \A d \in {"handler", "pool"} : call'[d] = call[d]
    BY <1>1, FinishPath DEF HandlerSound, Printable
  <1>3. handler'.pc = "over" /\ DOMAIN handler' = DOMAIN handler
    BY <1>1 DEF HandlerSound
  <1>4. (Turns /\ PoolSound /\ RowSound /\ HandlerSound)'
    BY <1>1, <1>2, <1>3
       DEF Turns, Resting, PoolSound, RowSound, HandlerSound, Waiting, RootId, ResultRow, Printable
  <1> QED
    BY <1>2, <1>4

(* The pool thread asks for the next operand.                                *)
LEMMA AskOperandPath ==
    ASSUME Sound, AskOperand
    PROVE  PathInv'
  <1> USE CallPathAssumption DEF Sound, PathInv
  <1> DEFINE name == pool.task.operands[Len(pool.operands) + 1].identifier
  <1>1. /\ pool.pc = "extract" /\ UNCHANGED <<input, client, handler, failures, db>>
        /\ Call("pool", [method |-> "ReadData", message |-> StaticRecordId(name)], Unset)
        /\ pool' = [pool EXCEPT !.pc = "reading"]
    BY DEF AskOperand
  <1>2. /\ pool'.pc = "reading" /\ pool'.task = pool.task /\ pool'.operands = pool.operands
        /\ DOMAIN pool' = DOMAIN pool
    BY <1>1 DEF PoolSound
  <1>3. /\ call'["pool"].phase = "sent" /\ call'["pool"].reply = Unset
        /\ call'["pool"].request = [method |-> "ReadData", message |-> StaticRecordId(name)]
        /\ \A d \in {"client", "handler"} : call'[d] = call[d] /\ frame'[d] = frame[d]
    <2>1. PICK q : /\ q = [method |-> "ReadData", message |-> StaticRecordId(name)]
                   /\ Call("pool", q, Unset)
      BY <1>1
    <2>2. /\ call'["pool"] = [phase |-> "sent", request |-> q, reply |-> Unset, s |-> "OK"]
          /\ \A d \in {"client", "handler"} : call'[d] = call[d] /\ frame'[d] = frame[d]
      BY <2>1, CallEffect
    <2> QED
      BY <2>1, <2>2
  <1>4. FromField(Unset) = Exception
    BY DEF FromField, Unset, Has
  <1>5. call'["pool"].request.message
          = StaticRecordId(call'["pool"].request.message.static_id.identifier)
    BY <1>3 DEF StaticRecordId
  <1>6. Turns'
    BY <1>1, <1>2, <1>3 DEF Turns, Resting
  <1>7. PoolSound'
    BY <1>1, <1>2, <1>3, <1>4, <1>5 DEF PoolSound, Waiting, TaskOf
  <1>8. (RowSound /\ HandlerSound)'
    BY <1>1, <1>2, <1>3 DEF RowSound, HandlerSound, Turns, Waiting, RootId, ResultRow, Printable
  <1>9. ClientSound'
    BY <1>1, <1>3 DEF ClientSound, Excused, Parses
  <1> QED
    BY <1>6, <1>7, <1>8, <1>9

(* The operand is there, or the worker dies.                                 *)
LEMMA GotOperandPath ==
    ASSUME Sound, GotOperand
    PROVE  PathInv'
  <1> USE CallPathAssumption DEF Sound, PathInv
  <1> DEFINE operand == FromField(call["pool"].reply)
  <1>1. /\ pool.pc = "reading" /\ call["pool"].phase = "completed"
        /\ UNCHANGED <<input, client, handler, call, frame, failures, db>>
        /\ pool' = IF operand = Exception
                   THEN [pool EXCEPT !.pc = "dead"]
                   ELSE [pool EXCEPT !.pc = "extract", !.operands = Append(@, operand)]
    BY ReturnedCall DEF GotOperand
  <1>2. operand # Exception => operand \in OperandValues
    BY <1>1 DEF PoolSound
  <1>3. /\ pool'.pc \in {"dead", "extract"} /\ pool'.task = pool.task
        /\ pool'.operands \in Seq(OperandValues) /\ DOMAIN pool' = DOMAIN pool
    BY <1>1, <1>2 DEF PoolSound
  <1>4. Turns'
    BY <1>1, <1>3 DEF Turns, Resting
  <1>5. PoolSound'
    BY <1>1, <1>3 DEF PoolSound, TaskOf
  <1>6. (RowSound /\ HandlerSound)'
    BY <1>1, <1>3 DEF RowSound, HandlerSound, Turns, Waiting, RootId, ResultRow, Printable
  <1>7. ClientSound'
    BY <1>1 DEF ClientSound, Excused, Parses
  <1> QED
    BY <1>4, <1>5, <1>6, <1>7

(* The task is calculated and its result is on its way to the database, or   *)
(* the worker dies.                                                          *)
LEMMA CalculatePath ==
    ASSUME Sound, Calculate
    PROVE  PathInv'
  <1> USE CallPathAssumption DEF Sound, PathInv
  <1> DEFINE type == ExprType[pool.task.operation_type + 1]
             result == CalculateTaskImpl(type, pool.operands)
             record == DynamicRecord(pool.task.id, result)
  <1>1. /\ pool.pc = "extract" /\ UNCHANGED <<input, client, handler, failures, db>>
        /\ Len(pool.operands) = Len(pool.task.operands)
        /\ \/ /\ result # Exception
              /\ Call("pool", [method |-> "WriteDynamicData", message |-> record], Unset)
              /\ pool' = [pool EXCEPT !.pc = "writing"]
           \/ /\ result = Exception
              /\ pool' = [pool EXCEPT !.pc = "dead"]
              /\ UNCHANGED rpcVars
    BY DEF Calculate
  <1>2. /\ pool'.pc \in {"writing", "dead"} /\ pool'.task = pool.task
        /\ pool'.operands = pool.operands /\ DOMAIN pool' = DOMAIN pool
        /\ pool'.pc = "dead" => UNCHANGED rpcVars
        /\ pool'.pc = "writing" => result # Exception
    BY <1>1 DEF PoolSound
  <1>3. pool.task.id = RootId /\ pool.operands # <<>>
    <2>1. pool.task = TaskOf(input) /\ input.operands \in Seq(STRING) /\ input.operands # <<>>
      BY <1>1 DEF PoolSound, Turns
    <2>2. Len(pool.task.operands) = Len(input.operands)
      <3>1. DOMAIN input.operands = 1..Len(input.operands) /\ Len(input.operands) \in Nat
        BY <2>1
      <3>2. pool.task.operands = [i \in 1..Len(input.operands) |-> StaticOperand(input.operands[i])]
        BY <2>1, <3>1 DEF TaskOf
      <3> QED
        BY <3>1, <3>2
    <2> QED
      BY <1>1, <2>1, <2>2 DEF TaskOf, RootId
  <1>4. ASSUME pool'.pc = "writing"
        PROVE  /\ record.record_id = [problem_id |-> ProblemId, task_id |-> Len(input.operands)]
               /\ ResultRow(SerializeField(record.field))
    <2>1. record.field = ToField(result)
          /\ record.record_id = [problem_id |-> ProblemId, task_id |-> Len(input.operands)]
      BY <1>3 DEF DynamicRecord, RootId
    <2>2. \/ \E x : result = Scalar(x)
          \/ \E l : result = List(l) /\ Len(l) \in Nat
      BY <1>2, <1>3, <1>4, CalculatedForm DEF PoolSound
    <2>3. FromField(ParseField(SerializeField(ToField(result)))) = result
      BY <2>2, RoundTrip
    <2>4. Printable(result)
      <3> HIDE DEF result
      <3>1. CASE \E x : result = Scalar(x)
        BY <3>1 DEF Printable, ToReply, Scalar, FormatCalculationReply, Has, Info
      <3>2. CASE \E l : result = List(l) /\ Len(l) \in Nat
        BY <3>2 DEF Printable, ToReply, List, FormatCalculationReply, FormatList, Has, Info
      <3> QED
        BY <2>2, <3>1, <3>2
    <2> QED
      BY <1>2, <1>4, <2>1, <2>3, <2>4 DEF ResultRow
  <1>5. ASSUME pool'.pc = "writing"
        PROVE  /\ call'["pool"].phase = "sent"
               /\ call'["pool"].request = [method |-> "WriteDynamicData", message |-> record]
               /\ \A d \in {"client", "handler"} : call'[d] = call[d] /\ frame'[d] = frame[d]
    <2>1. Call("pool", [method |-> "WriteDynamicData", message |-> record], Unset)
      BY <1>1, <1>5 DEF PoolSound
    <2>2. PICK q : /\ q = [method |-> "WriteDynamicData", message |-> record]
                   /\ Call("pool", q, Unset)
      BY <2>1
    <2>3. /\ call'["pool"] = [phase |-> "sent", request |-> q, reply |-> Unset, s |-> "OK"]
          /\ \A d \in {"client", "handler"} : call'[d] = call[d] /\ frame'[d] = frame[d]
      BY <2>2, CallEffect
    <2> HIDE DEF record
    <2> QED
      BY <2>2, <2>3
  <1> HIDE DEF record, result
  <1>6. \A d \in {"client", "handler"} : call'[d] = call[d] /\ frame'[d] = frame[d]
    BY <1>2, <1>5 DEF rpcVars
  <1>7. Turns'
    BY <1>1, <1>2, <1>5, <1>6 DEF Turns, Resting, rpcVars
  <1>8. PoolSound'
    BY <1>1, <1>2, <1>4, <1>5 DEF PoolSound, Waiting, TaskOf, ResultRow, Printable
  <1>9. (RowSound /\ HandlerSound)'
    BY <1>1, <1>2, <1>5, <1>6 DEF RowSound, HandlerSound, Turns, Waiting, RootId, ResultRow, Printable
  <1>10. ClientSound'
    BY <1>1, <1>6 DEF ClientSound, Excused, Parses
  <1> QED
    BY <1>7, <1>8, <1>9, <1>10

(* The write is over; the handler is woken.                                  *)
LEMMA FinishedPath ==
    ASSUME Sound, Finished
    PROVE  PathInv'
  <1> USE CallPathAssumption DEF Sound, PathInv
  <1>1. /\ pool.pc = "writing" /\ call["pool"].phase = "completed"
        /\ UNCHANGED <<input, client, call, frame, failures, db>>
        /\ pool' = [pool EXCEPT !.pc = "finished"] /\ handler' = [handler EXCEPT !.pc = "computed"]
    BY ReturnedCall DEF Finished
  <1>2. /\ pool'.pc = "finished" /\ pool'.task = pool.task /\ pool'.operands = pool.operands
        /\ DOMAIN pool' = DOMAIN pool
        /\ handler'.pc = "computed" /\ DOMAIN handler' = DOMAIN handler
    BY <1>1 DEF PoolSound, HandlerSound
  <1>3. handler.pc = "waiting"
    BY <1>1 DEF Turns
  <1>4. Turns'
    BY <1>1, <1>2, <1>3 DEF Turns, Resting
  <1>5. (PoolSound /\ RowSound /\ HandlerSound)'
    BY <1>1, <1>2 DEF PoolSound, RowSound, HandlerSound, TaskOf, RootId, ResultRow, Printable
  <1>6. ClientSound'
    BY <1>1 DEF ClientSound, Excused, Parses
  <1> QED
    BY <1>4, <1>5, <1>6

-----------------------------------------------------------------------------
(* A call that fails is an excuse, whatever the database did about it.       *)
LEMMA FailedCallPath ==
    ASSUME Sound, NEW c \in Callers, call[c].phase \in {"sent", "served"},
           Complete(c, Unset, "error"), failures' = failures + 1,
           UNCHANGED <<input, client, handler, pool>>, RowSound'
    PROVE  PathInv'
  <1> USE CallPathAssumption DEF Sound, PathInv
  <1>1. /\ call'[c].phase = "completed" /\ call'[c].request = call[c].request
        /\ call'[c].reply = Unset
        /\ \A d \in Callers \ {c} : call'[d] = call[d]
        /\ \A d \in Callers : frame'[d].status = frame[d].status
    BY CompleteEffect
  <1>2. FromField(Unset) = Exception /\ Info(FormatCalculationReply(Unset))
    BY DEF FromField, FormatCalculationReply, Unset, Has, Info
  <1>3. failures' \in Nat /\ failures' > 0 /\ Excused'
    BY DEF Turns, Excused
  <1>4. Turns'
    BY <1>1, <1>3 DEF Turns, Resting
  <1>5. PoolSound'
    <2>1. c = "pool" => call'["pool"].request = call["pool"].request
      BY <1>1
    <2> QED
      BY <1>1, <1>2, <2>1 DEF PoolSound, Waiting, TaskOf, ResultRow, Printable
  <1>6. HandlerSound'
    BY <1>1, <1>2, <1>3 DEF HandlerSound, Waiting, Printable
  <1>7. ClientSound'
    BY <1>1, <1>2, <1>3 DEF ClientSound
  <1> QED
    BY <1>4, <1>5, <1>6, <1>7

(* What the database does about a request, heard or not.                     *)
LEMMA ServedRow ==
    ASSUME Sound, NEW c \in DatabaseCallers, call[c].phase = "sent",
           UNCHANGED <<input, pool, handler>>, failures' \in {failures, failures + 1},
           \A d \in Callers \ {c} : call'[d] = call[d],
           c = "handler" /\ handler.pc = "reading" /\ DOMAIN db # {} =>
                FromField(call'[c].reply) # Exception \/ call'[c].s = "error",
           \/ /\ call[c].request.method = "WriteDynamicData"
              /\ WriteDynamicData(<<call[c].request.message.record_id.problem_id,
                                    call[c].request.message.record_id.task_id>>,
                                  SerializeField(call[c].request.message.field))
           \/ call[c].request.method = "ReadData" /\ UNCHANGED db
           \/ /\ call[c].request.method = "ClearIntermediateCalculations"
              /\ ClearIntermediateCalculations(call[c].request.message)
    PROVE  RowSound'
  <1> USE CallPathAssumption DEF Sound, PathInv
  <1>1. /\ c \in {"handler", "pool"}
        /\ c = "handler" => handler.pc \in {"reading", "clearing"} /\ pool.pc = "finished"
        /\ c = "pool" => pool.pc \in {"reading", "writing"} /\ handler.pc = "waiting"
    BY DEF DatabaseCallers, Turns, Resting
  <1>2. failures' = 0 => failures = 0
    BY DEF Turns
  <1>3. CASE call[c].request.method = "ReadData"
    <2>1. UNCHANGED db /\ handler.pc # "clearing" /\ pool.pc # "writing"
      BY <1>1, <1>3 DEF HandlerSound, PoolSound
    <2>2. c = "pool" => call'["handler"] = call["handler"]
      BY <1>1
    <2> QED
      BY <1>1, <1>2, <2>1, <2>2 DEF RowSound, RootId, ResultRow, Printable
  <1>4. CASE call[c].request.method = "WriteDynamicData"
    <2>1. c = "pool" /\ pool.pc = "writing"
      BY <1>1, <1>4 DEF HandlerSound, PoolSound
    <2>2. WriteDynamicData(RootId, SerializeField(call[c].request.message.field))
      BY <1>4, <2>1 DEF PoolSound, RootId
    <2>3. ResultRow(SerializeField(call[c].request.message.field))
      BY <2>1 DEF PoolSound
    <2>4. DOMAIN db' = {RootId} /\ ResultRow(db'[RootId])
      BY <2>2, <2>3 DEF WriteDynamicData, RowSound
    <2> QED
      BY <1>1, <2>1, <2>4 DEF RowSound, RootId, ResultRow, Printable
  <1>5. CASE call[c].request.method = "ClearIntermediateCalculations"
    <2>1. c = "handler" /\ handler.pc = "clearing" /\ call[c].request.message = ProblemId
      BY <1>1, <1>5 DEF HandlerSound, PoolSound
    <2>3. ClearIntermediateCalculations(ProblemId)
      BY <1>5, <2>1
    <2>4. RootId[1] = ProblemId
      BY DEF RootId
    <2>5. {i \in DOMAIN db : i[1] # ProblemId} = {}
      BY <2>4 DEF RowSound
    <2>2. DOMAIN db' = {}
      BY <2>3, <2>5 DEF ClearIntermediateCalculations
    <2> QED
      BY <1>1, <2>1, <2>2 DEF RowSound, RootId, ResultRow, Printable
  <1> QED
    BY <1>3, <1>4, <1>5

(* Serve, without the log lines.                                             *)
LEMMA ServedRequest ==
    ASSUME CallsSound, NEW c \in DatabaseCallers, ServeCall(c) \/ ServeUnheard(c)
    PROVE  \/ /\ call[c].request.method = "WriteDynamicData"
              /\ WriteDynamicData(<<call[c].request.message.record_id.problem_id,
                                    call[c].request.message.record_id.task_id>>,
                                  SerializeField(call[c].request.message.field))
           \/ call[c].request.method = "ReadData" /\ UNCHANGED db
           \/ /\ call[c].request.method = "ClearIntermediateCalculations"
              /\ ClearIntermediateCalculations(call[c].request.message)
  <1>1. call[c].request.method \in Methods
    BY SentBefore, KnownMethod DEF DatabaseCallers
  <1>2. CASE ServeCall(c)
    BY <1>1, <1>2 DEF ServeCall, Serve, Methods
  <1>3. CASE ServeUnheard(c)
    BY <1>1, <1>3 DEF ServeUnheard, Serve, Methods
  <1> QED
    BY <1>2, <1>3

(* A request served, and its answer lost.                                    *)
LEMMA ServeUnheardPath ==
    ASSUME Sound, NEW c \in DatabaseCallers, ServeUnheard(c)
    PROVE  PathInv'
  <1> USE CallPathAssumption DEF Sound
  <1>1. call[c].request.method \in Methods /\ call[c].phase = "sent" /\ c \in Callers
    BY SentBefore, KnownMethod DEF DatabaseCallers
  <1>2. Complete(c, Unset, "error")
    BY <1>1 DEF ServeUnheard, Serve, Methods
  <1>3. failures' = failures + 1 /\ UNCHANGED <<input, client, handler, pool>>
    BY Zenon DEF ServeUnheard
  <1>4. call'[c].s = "error" /\ \A d \in Callers \ {c} : call'[d] = call[d]
    BY <1>1, <1>2, CompleteEffect
  <1>5. RowSound'
    BY <1>1, <1>3, <1>4, ServedRequest, ServedRow
  <1> QED
    BY <1>1, <1>2, <1>3, <1>5, FailedCallPath

(* A request lost on its way leaves the database alone.                      *)
LEMMA LosePath ==
    ASSUME Sound, (\E c \in Callers : LoseRequest(c)) \/ LoseClient
    PROVE  PathInv'
  <1> USE CallPathAssumption DEF Sound
  <1>1. PICK c \in Callers : /\ call[c].phase = "sent" \/ (call[c].phase = "served" /\ c = "client")
                            /\ Complete(c, Unset, "error")
                            /\ failures' = failures + 1
                            /\ UNCHANGED <<input, client, handler, pool, db>>
    BY DEF LoseRequest, LoseClient
  <1>2. /\ call'[c].phase = "completed" /\ call'[c].s = "error"
        /\ \A d \in Callers \ {c} : call'[d] = call[d]
    BY <1>1, CompleteEffect
  <1>3. failures' > 0
    BY <1>1 DEF PathInv, Turns
  <1>4. RowSound'
    BY <1>1, <1>2, <1>3 DEF PathInv, RowSound, RootId, ResultRow, Printable
  <1> QED
    BY <1>1, <1>4, FailedCallPath

(* A request served and answered.                                            *)
LEMMA ServeCallPath ==
    ASSUME Sound, NEW c \in DatabaseCallers, ServeCall(c)
    PROVE  PathInv'
  <1> USE CallPathAssumption DEF Sound, PathInv
  <1>1. call[c].request.method \in Methods /\ call[c].phase = "sent"
        /\ c \in Callers /\ c # "client"
    BY SentBefore, KnownMethod DEF DatabaseCallers
  <1>2. UNCHANGED <<input, client, handler, pool, failures>>
    BY Zenon DEF ServeCall
  <1>3. PICK reply, s :
          /\ Complete(c, reply, s)
          /\ call[c].request.method = "ReadData" =>
               reply = IF HasRow(call[c].request.message)
                       THEN ReadDataImpl(call[c].request.message) ELSE Unset
    BY <1>1 DEF ServeCall, Serve, Methods
  <1>4. /\ call'[c].phase = "completed" /\ call'[c].request = call[c].request
        /\ call'[c].reply = reply
        /\ \A d \in Callers \ {c} : call'[d] = call[d]
        /\ \A d \in Callers : frame'[d].status = frame[d].status
    BY <1>1, <1>3, CompleteEffect
  <1>5. FromField(Unset) = Exception
    BY DEF FromField, Unset, Has
  <1>6. Turns'
    BY <1>1, <1>2, <1>4 DEF Turns, Resting
  <1>7. ASSUME c = "handler", handler.pc = "reading"
        PROVE  /\ FromField(reply) # Exception => Printable(FromField(reply))
               /\ failures = 0 \/ DOMAIN db # {} => FromField(reply) # Exception
    <2> DEFINE m == call[c].request.message
    <2>1. m = DynRecordId(ProblemId, Len(input.operands)) /\ call[c].request.method = "ReadData"
      BY <1>7 DEF HandlerSound
    <2>2. /\ "dyn_id" \in DOMAIN m
          /\ <<m.dyn_id.problem_id, m.dyn_id.task_id>> = RootId
      BY <2>1 DEF DynRecordId, RootId
    <2>3. CASE RootId \in DOMAIN db
      <3>1. reply = ParseField(db[RootId])
        BY <1>3, <2>1, <2>2, <2>3 DEF HasRow, Has, ReadDataImpl, ReadDynamicData
      <3> QED
        BY <2>3, <3>1 DEF RowSound, ResultRow
    <2>4. CASE RootId \notin DOMAIN db
      <3>1. reply = Unset
        BY <1>3, <2>1, <2>2, <2>4 DEF HasRow, Has
      <3> QED
        BY <1>5, <1>7, <2>4, <3>1 DEF RowSound
    <2> QED
      BY <2>3, <2>4
  <1>8. PoolSound'
    <2>1. ASSUME c = "pool", pool.pc = "reading"
          PROVE  FromField(reply) \in OperandValues \cup {Exception}
      <3> DEFINE m == call[c].request.message
      <3>1. m = StaticRecordId(m.static_id.identifier) /\ call[c].request.method = "ReadData"
        BY <2>1 DEF PoolSound
      <3>2. "dyn_id" \notin DOMAIN m
        BY <3>1 DEF StaticRecordId
      <3>3. CASE HasRow(m)
        <4>1. /\ m.static_id.identifier \in DOMAIN StaticData
              /\ reply = ParseField(StaticData[m.static_id.identifier])
          BY <1>3, <3>1, <3>2, <3>3 DEF HasRow, Has, ReadDataImpl, ReadStaticData
        <4>2. DOMAIN StaticData = DOMAIN Variables
          OBVIOUS
        <4> QED
          BY <4>1, <4>2, VariableRoundTrip
      <3>4. CASE ~HasRow(m)
        BY <1>3, <1>5, <3>1, <3>4
      <3> QED
        BY <3>3, <3>4
    <2> QED
      BY <1>2, <1>4, <2>1 DEF PoolSound, Waiting, TaskOf, ResultRow, Printable
  <1>9. HandlerSound'
    BY <1>2, <1>4, <1>7 DEF HandlerSound, Waiting, Printable
  <1>10. ClientSound'
    BY <1>1, <1>2, <1>4 DEF ClientSound, Excused, Parses
  <1>11. RowSound'
    BY <1>1, <1>2, <1>4, <1>7, ServedRequest, ServedRow
  <1> QED
    BY <1>6, <1>8, <1>9, <1>10, <1>11

-----------------------------------------------------------------------------
(* The invariant of the path of a request holds in every reachable state.    *)
LEMMA PathInvariance == Spec => []Sound
  <1>1. Init => Sound
    <2> SUFFICES ASSUME Init PROVE Sound
      OBVIOUS
    <2>1. CallsSound /\ FramesSound
      BY DEF Init, RpcInit, CallsSound, CallSound, FramesSound, FrameSound, Frames, NoFrame, NoCall,
             CallerPcs, CallbackPcs
    <2>2. \A c \in Callers : call[c].phase = "none" /\ frame[c].status = "OK"
      BY DEF Init, RpcInit, NoCall, NoFrame
    <2>3. Turns /\ PoolSound /\ RowSound /\ HandlerSound /\ ClientSound
      BY <2>2, CallPathAssumption
         DEF Init, DatabaseInit, Turns, Resting, PoolSound, RowSound, HandlerSound, ClientSound
    <2> QED
      BY <2>1, <2>3 DEF Sound, PathInv
  <1>2. Sound /\ [Next]_vars => Sound'
    <2> SUFFICES ASSUME Sound, [Next]_vars PROVE Sound'
      OBVIOUS
    <2>1. CallsSound' /\ FramesSound'
      BY CallsStep, FramesStep DEF Sound
    <2>2. CASE UNCHANGED vars
      BY <2>2
         DEF vars, rpcVars, Sound, PathInv, Turns, Resting, Waiting, PoolSound, RowSound, HandlerSound,
             ClientSound, RootId, ResultRow, Printable, Excused, Parses, TaskOf, CallsSound, FramesSound
    <2>3. CASE Program
      BY <2>1, <2>3, RunClientPath, GotResultPath, HandlePath, AskResultPath, ClearResultsPath,
         ReplyPath, AskOperandPath, GotOperandPath, CalculatePath, FinishedPath DEF Program, Sound
    <2>4. CASE \E c \in Callers : Step(c)
      BY <2>1, <2>4, RpcPath DEF Step, Sound
    <2>5. CASE \E c \in Callers : /\ WakeSpuriously(c)
                                  /\ UNCHANGED <<input, client, handler, pool, failures, db>>
      BY <2>1, <2>5, RpcPath DEF Sound
    <2>6. CASE \E c \in DatabaseCallers : ServeCall(c) \/ ServeUnheard(c)
      BY <2>1, <2>6, ServeCallPath, ServeUnheardPath DEF Sound
    <2>7. CASE (\E c \in Callers : LoseRequest(c)) \/ LoseClient
      BY <2>1, <2>7, LosePath DEF Sound
    <2> QED
      BY <2>2, <2>3, <2>4, <2>5, <2>6, <2>7 DEF Next
  <1> QED
    BY <1>1, <1>2, PTL DEF Spec

(* The user's client reports a failure only when a call failed or its AST    *)
(* was refused, and never dies of a reply it got: for every input, and all   *)
(* variables of data.json.                                                   *)
THEOREM FailureHasCauseHolds == Spec => []FailureHasCause
  <1>1. Sound => FailureHasCause
    BY DEF Sound, PathInv, ClientSound, Excused, FailureHasCause
  <1> QED
    BY <1>1, PathInvariance, PTL

(* A handler that is through has left nothing in the database, unless its    *)
(* own last call failed.                                                     *)
THEOREM NothingLeftBehindHolds == Spec => []NothingLeftBehind
  <1>1. Sound => NothingLeftBehind
    BY DEF Sound, PathInv, RowSound, NothingLeftBehind
  <1> QED
    BY <1>1, PathInvariance, PTL
=============================================================================
