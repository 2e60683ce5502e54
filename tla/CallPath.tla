------------------------------ MODULE CallPath ------------------------------
(***************************************************************************)
(* The way of one request through the processes, call by call: the user's  *)
(* client calls the manager, a thread of a worker's pool reads the         *)
(* operands from the database, calculates and writes the result, and the   *)
(* manager's handler reads the result, clears it and replies.  What lies   *)
(* between the handler and the pool thread is left to modules Manager and  *)
(* Pool: here the task of a request goes straight to a thread, and its     *)
(* completion straight back.  The request is one operation on variables,   *)
(* chosen from Inputs; calls may fail, on the way to the server or on the  *)
(* way back.                                                               *)
(***************************************************************************)
EXTENDS Database, Messages, Rpc, FiniteSets

CONSTANTS
    Inputs,             \* [op, operands]: an operation and the names of its variables
    Variables,          \* data.json: the name of a variable -> its value
    MaxFailures         \* bound on the number of failing calls

ASSUME CallPathAssumption ==
    /\ IntMin \in Int /\ IntMax \in Int /\ IntMin < 0 /\ 0 < IntMax
    /\ MaxFailures \in Nat
    /\ Callers = {"client", "handler", "pool"}
    /\ \A in \in Inputs : in.operands \in Seq(STRING) \ {<<>>}
    /\ \A v \in DOMAIN Variables :
        Variables[v] \in ({"Scalar"} \X Int) \cup ({"List"} \X Seq(Int))
    /\ StaticData = [v \in DOMAIN Variables |-> SetupRow(Variables[v])]

VARIABLES
    input,              \* the file of the user's client, parsed
    client,             \* where the client is
    handler,            \* the manager's handler: its pc and expr_result
    pool,               \* the pool thread: its pc, task and operands read so far
    failures            \* calls failed so far

vars == <<input, client, handler, pool, failures, rpcVars, db>>

ProblemId == 0

Identity == "worker"

(* The variables are decomposed before the operation on them.                *)
TaskOf(in) ==
    [id |-> <<ProblemId, Len(in.operands)>>,
     operation_type |-> Number(in.op),
     operands |-> [i \in DOMAIN in.operands |-> StaticOperand(in.operands[i])]]

NoResult == <<>>

Init ==
    /\ input \in Inputs
    /\ client = "start"
    /\ handler = [pc |-> "idle", result |-> NoResult]
    /\ pool = [pc |-> "idle", task |-> Unset, operands |-> <<>>]
    /\ failures = 0
    /\ RpcInit /\ DatabaseInit

-----------------------------------------------------------------------------
(* The user's client.                                                        *)

(* RunClient: ReadFile, then CalculateProblem.                               *)
RunClient ==
    /\ client = "start"
    /\ \/ /\ Call("client", [method |-> "CalculateProblem", message |-> input], Unset)
          /\ client' = "calling"
       \/ \* invalid_argument("Unable to open file")
          /\ client' = "terminated"
          /\ UNCHANGED rpcVars
    /\ UNCHANGED <<input, handler, pool, failures, db>>

(* The end of CalculateProblem, and what RunClient makes of it.              *)
GotResult ==
    /\ client = "calling" /\ frame["client"].caller = "returned"
    /\ client' = IF ~Info(FormatCalculationReply(call["client"].reply)) THEN "terminated"
                 ELSE IF frame["client"].status = "OK" THEN "success" ELSE "failure"
    /\ frame' = [frame EXCEPT !["client"] = NoFrame]
    /\ UNCHANGED <<input, handler, pool, call, failures, db>>

-----------------------------------------------------------------------------
(* The manager.                                                              *)

(* reactor->Finish, or the exception that left the handler.  Nobody listens  *)
(* any more when the client's connection broke.                              *)
Finish(reply, s) ==
    IF call["client"].phase = "served"
    THEN Complete("client", reply, s)
    ELSE UNCHANGED rpcVars

(* STRING_TO_EXPR_TYPE.at of the key, and Expr::New of the type.             *)
Parses(in) == in.op \in {ExprType[i] : i \in DOMAIN ExprType} \ {"invalid"}

(* CalculateProblem: AST::FromJson throws at an operation it does not know;  *)
(* otherwise the problem is registered and its task reaches a thread.        *)
HandleCalculateProblem ==
    /\ handler.pc = "idle" /\ call["client"].phase = "sent"
    /\ \/ /\ ~Parses(input)
          /\ Complete("client", Unset, "error")
          /\ handler' = [handler EXCEPT !.pc = "over"]
          /\ UNCHANGED pool
       \/ /\ Parses(input)
          /\ call' = [call EXCEPT !["client"].phase = "served"]
          /\ handler' = [handler EXCEPT !.pc = "waiting"]
          /\ Info(FormatTask(TaskOf(input)))
          /\ Info(FormatWorkerTask(Identity, TaskOf(input)))
          /\ pool' = [pool EXCEPT !.pc = "extract", !.task = TaskOf(input)]
          /\ UNCHANGED frame
    /\ UNCHANGED <<input, client, failures, db>>

(* Dispatcher::CalculateProblem, woken: db_client_.ReadData of the root.     *)
AskResult ==
    /\ handler.pc = "computed"
    /\ Call("handler", [method |-> "ReadData",
                        message |-> DynRecordId(ProblemId, Len(input.operands))], Unset)
    /\ handler' = [handler EXCEPT !.pc = "reading"]
    /\ UNCHANGED <<input, client, pool, failures, db>>

(* ReadData returns or throws; ClearIntermediateCalculations.                *)
ClearResults ==
    /\ handler.pc = "reading" /\ frame["handler"].caller = "returned"
    /\ LET result == FromField(call["handler"].reply)
       IN  \/ /\ result # Exception
              /\ Call("handler", [method |-> "ClearIntermediateCalculations",
                                  message |-> ProblemId], Unset)
              /\ handler' = [pc |-> "clearing", result |-> result]
           \/ /\ result = Exception
              /\ Finish(Unset, "error")
              /\ handler' = [handler EXCEPT !.pc = "over"]
    /\ UNCHANGED <<input, client, pool, failures, db>>

Reply ==
    /\ handler.pc = "clearing" /\ frame["handler"].caller = "returned"
    /\ Finish(ToReply(handler.result), "OK")
    /\ handler' = [handler EXCEPT !.pc = "over"]
    /\ UNCHANGED <<input, client, pool, failures, db>>

-----------------------------------------------------------------------------
(* The pool thread.                                                          *)

(* ExtractOperands: the next operand is asked for.                           *)
AskOperand ==
    /\ pool.pc = "extract" /\ Len(pool.operands) < Len(pool.task.operands)
    /\ LET operand == pool.task.operands[Len(pool.operands) + 1]
       IN  Call("pool", [method |-> "ReadData",
                         message |-> StaticRecordId(operand.identifier)], Unset)
    /\ pool' = [pool EXCEPT !.pc = "reading"]
    /\ UNCHANGED <<input, client, handler, failures, db>>

(* It is there; an exception ends the worker process.                        *)
GotOperand ==
    /\ pool.pc = "reading" /\ frame["pool"].caller = "returned"
    /\ LET operand == FromField(call["pool"].reply)
       IN  /\ Info(FormatField(call["pool"].reply))
           /\ pool' = IF operand = Exception
                      THEN [pool EXCEPT !.pc = "dead"]
                      ELSE [pool EXCEPT !.pc = "extract", !.operands = Append(@, operand)]
    /\ UNCHANGED <<input, client, handler, call, frame, failures, db>>

(* CalculateTaskImpl of the type in the message, and WriteDynamicData.       *)
Calculate ==
    /\ pool.pc = "extract" /\ Len(pool.operands) = Len(pool.task.operands)
    /\ LET result == CalculateTaskImpl(ExprType[pool.task.operation_type + 1], pool.operands)
       IN  \/ /\ result # Exception
              /\ Info(FormatExprResult(result))
              /\ Call("pool", [method |-> "WriteDynamicData",
                               message |-> DynamicRecord(pool.task.id, result)], Unset)
              /\ pool' = [pool EXCEPT !.pc = "writing"]
           \/ /\ result = Exception
              /\ pool' = [pool EXCEPT !.pc = "dead"]
              /\ UNCHANGED rpcVars
    /\ UNCHANGED <<input, client, handler, failures, db>>

(* The write is over, with whatever status; the task id is pushed, goes to   *)
(* the broker and the manager, and wakes the handler in the end.             *)
Finished ==
    /\ pool.pc = "writing" /\ frame["pool"].caller = "returned"
    /\ Info(FormatDynamicRecord(call["pool"].request.message))
    /\ LET message == [task_id |-> [identity |-> Identity, id |-> pool.task.id]]
       IN  Info(FormatWorkerMessage(message)) /\ Info(FormatTaskId(message.task_id.id))
    /\ pool' = [pool EXCEPT !.pc = "finished"]
    /\ handler' = [handler EXCEPT !.pc = "computed"]
    /\ UNCHANGED <<input, client, call, frame, failures, db>>

-----------------------------------------------------------------------------
(* The database server.                                                      *)

(* executeStep finds the row; without one, getColumn throws.                 *)
HasRow(id) ==
    IF Has(id, "dyn_id")
    THEN <<id.dyn_id.problem_id, id.dyn_id.task_id>> \in DOMAIN db
    ELSE id.static_id.identifier \in DOMAIN StaticData

(* ReadDataImpl: the bytes of the row, parsed.                               *)
ReadDataImpl(id) ==
    ParseField(IF Has(id, "dyn_id")
               THEN ReadDynamicData(<<id.dyn_id.problem_id, id.dyn_id.task_id>>)
               ELSE ReadStaticData(id.static_id.identifier))

(* The handler of a request, from the log line to reactor->Finish.  What it  *)
(* throws becomes an error status.                                           *)
Serve(request, Answer(_, _)) ==
    CASE request.method = "WriteDynamicData" ->
            LET id == <<request.message.record_id.problem_id, request.message.record_id.task_id>>
            IN  /\ Info(FormatDynamicRecord(request.message))
                /\ WriteDynamicData(id, SerializeField(request.message.field))
                /\ Answer(Unset, IF id \in DOMAIN db THEN "error" ELSE "OK")
      [] request.method = "ReadData" ->
            LET field == ReadDataImpl(request.message)
            IN  /\ Info(FormatRecordId(request.message))
                /\ IF HasRow(request.message)
                   THEN Info(FormatField(field)) /\ Answer(field, "OK")
                   ELSE Answer(Unset, "error")
                /\ UNCHANGED db
      [] request.method = "ClearIntermediateCalculations" ->
            /\ Info(FormatProblemId(request.message))
            /\ ClearIntermediateCalculations(request.message)
            /\ Answer(Unset, "OK")

DatabaseCallers == Callers \ {"client"}

ServeCall(c) ==
    /\ call[c].phase = "sent"
    /\ Serve(call[c].request, LAMBDA reply, s : Complete(c, reply, s))
    /\ UNCHANGED <<input, client, handler, pool, failures>>

(* The database did it, its answer is lost.                                  *)
ServeUnheard(c) ==
    /\ call[c].phase = "sent" /\ failures < MaxFailures
    /\ Serve(call[c].request, LAMBDA reply, s : Complete(c, Unset, "error"))
    /\ failures' = failures + 1
    /\ UNCHANGED <<input, client, handler, pool>>

(* The call fails before its handler runs.                                   *)
LoseRequest(c) ==
    /\ call[c].phase = "sent" /\ failures < MaxFailures
    /\ Complete(c, Unset, "error")
    /\ failures' = failures + 1
    /\ UNCHANGED <<input, client, handler, pool, db>>

(* The client's connection breaks while its request is being handled.        *)
LoseClient ==
    /\ call["client"].phase = "served" /\ failures < MaxFailures
    /\ Complete("client", Unset, "error")
    /\ failures' = failures + 1
    /\ UNCHANGED <<input, client, handler, pool, db>>

-----------------------------------------------------------------------------
Step(c) == (CallbackStep(c) \/ CallerStep(c)) /\ UNCHANGED <<input, client, handler, pool, failures, db>>

Program ==
    \/ RunClient \/ GotResult
    \/ HandleCalculateProblem \/ AskResult \/ ClearResults \/ Reply
    \/ AskOperand \/ GotOperand \/ Calculate \/ Finished

Next ==
    \/ Program
    \/ \E c \in Callers : Step(c)
    \/ \E c \in Callers : WakeSpuriously(c) /\ UNCHANGED <<input, client, handler, pool, failures, db>>
    \/ \E c \in DatabaseCallers : ServeCall(c) \/ ServeUnheard(c)
    \/ \E c \in Callers : LoseRequest(c)
    \/ LoseClient

Spec == Init /\ [][Next]_vars

(* Every thread and every server goes on as long as it can, the caller's and *)
(* the callback's each for itself; no call has to fail.                      *)
Fairness ==
    /\ WF_vars(Program)
    /\ \A c \in Callers :
        /\ WF_vars(CallbackStep(c) /\ UNCHANGED <<input, client, handler, pool, failures, db>>)
        /\ SF_vars(CallbackLock(c) /\ UNCHANGED <<input, client, handler, pool, failures, db>>)
        /\ WF_vars(CallerStep(c) /\ UNCHANGED <<input, client, handler, pool, failures, db>>)
    /\ \A c \in DatabaseCallers : WF_vars(ServeCall(c))

FairSpec == Spec /\ Fairness

-----------------------------------------------------------------------------
(* The variables of the request, as data.json gives them.                    *)
Operand(i) == Variables[input.operands[i]]

Lhs == Operand(1)[2]

Rhs == Operand(Len(input.operands))[2]

Elements(l) == {l[i] : i \in DOMAIN l}

(* When the worker has nothing to calculate: a variable that does not exist  *)
(* or is of the wrong kind, lists of different lengths, an extremum of       *)
(* nothing, a quotient that is not an int.                                   *)
NoQuotient(x, y) == y = 0 \/ (x = IntMin /\ y = -1)

WrongKind ==
    \/ \E i \in DOMAIN input.operands : input.operands[i] \notin DOMAIN Variables
    \/ (Operand(1)[1] = "Scalar") # (input.op \in ScalarOps)
    \/ input.op \notin ReduceOps
         /\ (Operand(2)[1] = "List") # (input.op \in ListOps)

Undefined ==
    \/ WrongKind
    \/ input.op \in {"re_min", "re_max"} /\ Lhs = <<>>
    \/ input.op \in ListOps /\ Len(Lhs) # Len(Rhs)
    \/ input.op = "so_div" /\ NoQuotient(Lhs, Rhs)
    \/ input.op = "me_div" /\ \E x \in Elements(Lhs) : NoQuotient(x, Rhs)
    \/ input.op = "lo_div" /\ \E i \in DOMAIN Lhs : NoQuotient(Lhs[i], Rhs[i])

(* What an operation means, over the integers.                               *)
Product(l) ==
    LET upTo[i \in 0..Len(l)] == IF i = 0 THEN 1 ELSE upTo[i - 1] * l[i]
    IN  upTo[Len(l)]

Total(l) ==
    LET upTo[i \in 0..Len(l)] == IF i = 0 THEN 0 ELSE upTo[i - 1] + l[i]
    IN  upTo[Len(l)]

Quotient(x, y) ==
    CHOOSE q \in IntMin..IntMax :
        /\ Magnitude(x - q * y) < Magnitude(y)
        /\ Magnitude(q * y) <= Magnitude(x)

Exact(x, y) ==
    CASE input.op \in {"so_add", "me_add", "lo_add"} -> x + y
      [] input.op \in {"so_mul", "me_mul", "lo_mul"} -> x * y
      [] input.op \in {"so_div", "me_div", "lo_div"} -> Quotient(x, y)
      [] input.op = "so_max" -> IF x > y THEN x ELSE y
      [] input.op = "so_min" -> IF x < y THEN x ELSE y

(* x is the int that stands for the integer y.                               *)
Represents(x, y) == x \in IntMin..IntMax /\ (x - y) % (IntMax - IntMin + 1) = 0

RepresentsAll(l, Value(_)) == /\ Len(l) = Len(Lhs)
                              /\ \A i \in DOMAIN l : Represents(l[i], Value(i))

(* What the client's last line shows of the reply.                           *)
Printed == FormatCalculationReply(call["client"].reply)

Shows(line, value) == Len(line) = 1 /\ Represents(line[1], value)

IsValue(line) ==
    CASE input.op \in {"re_min", "re_max"} -> \E x \in Elements(Lhs) : Shows(line, x)
      [] input.op = "re_sum" -> Shows(line, Total(Lhs))
      [] input.op = "re_mul" -> Shows(line, Product(Lhs))
      [] input.op = "re_size" -> Shows(line, Cardinality(DOMAIN Lhs))
      [] input.op = "lo_dot" -> Shows(line, Total([i \in DOMAIN Lhs |-> Lhs[i] * Rhs[i]]))
      [] input.op \in ScalarOps -> Shows(line, Exact(Lhs, Rhs))
      [] input.op \in MixedOps -> RepresentsAll(line, LAMBDA i : Exact(Lhs[i], Rhs))
      [] OTHER -> RepresentsAll(line, LAMBDA i : Exact(Lhs[i], Rhs[i]))

(* A client that reports success has printed the value of its operation:     *)
(* through six conversions, whatever calls fail on the way, and although the *)
(* status of no database call is looked at.  (Of re_min and re_max the code  *)
(* yields the first element: only that it is one of the list is shown.)      *)
SuccessIsValue == client = "success" => ~Undefined /\ IsValue(Printed)

(* A worker process ends only over what has no value, or over an operand it  *)
(* could not read: no operand a database can hold does any harm otherwise.   *)
WorkerDiesOnlyOfUndefined == pool.pc = "dead" => failures > 0 \/ Undefined

(* A client that has made its call ends by reporting success or failure, and *)
(* it reports a failure only when a call failed or its AST was refused.      *)
FailureHasCause ==
    /\ client = "failure" => failures > 0 \/ ~Parses(input)
    /\ client = "terminated" => call["client"].phase = "none"

(* Once the handler is through, a result is left behind in the database     *)
(* only if the handler's own last call, to read or to clear it, failed:      *)
(* whatever fails in the worker, unseen as its status is, leaves none.       *)
NothingLeftBehind ==
    handler.pc = "over" /\ DOMAIN db # {} => call["handler"].s = "error"

(* README: "User sends AST to decomposer and decomposer sends result when    *)
(* computation is finished."  The client's call comes to an end, unless the  *)
(* worker process did first.                                                 *)
ClientAnswered == <>(client \in {"success", "failure", "terminated"} \/ pool.pc = "dead")
=============================================================================
