# TLA+ models of distributed-task-dispatch

The program calculates expressions over numbers and lists. A user sends an abstract
syntax tree (AST); the *manager* splits it into atomic tasks and sends those that can be
calculated to the *broker*; the broker hands them to *workers*, which read the operands
from a *database*, write the result there and report back; the manager sends further
tasks and finally reads the result.

## Inventory

| Component | State | Operations | Talks to |
|---|---|---|---|
| Decomposition (`manager/src/decomposition`) | `records_`, graph, `tasks_` | `FromJson`, `Visit`, `BuildGraph`, sort, `GetIndependentTasks`, `GetComputableTasks` | called by the dispatcher |
| Dispatcher (`manager/src/dispatch`) | two maps by problem id, `m_`, `PROBLEM_ID`, a `SyncData` per handler | `CalculateProblem` (one thread per request), `RunDispatcher` (one thread) | broker (PAIR), database (gRPC) |
| gRPC server (`manager/src/grpc-server`) | none of its own | one handler call per request | dispatcher |
| Broker (`broker`) | free cores per worker, `task_queue_` | registration, replies, tasks of the manager | manager (PAIR), workers (PUB, ROUTER) |
| Worker (`worker`) | thread pool queue, `finished_tasks_` | announce, read a task, send an answer | broker (SUB, DEALER), database |
| Thread pool (`worker`) | `tasks_`, condition variable | take, calculate, write, answer | database |
| Database (`database`) | `static_data`, `dynamic_data` | write, read, clear a problem | manager, workers |
| Domain arithmetic (`common/domain`) | none | operations on scalars and lists | thread pool |
| Client (`client`) | a call under way | read a file, call `CalculateProblem`, print the reply | manager (gRPC) |
| Messages (`proto`, `common`) | none | conversions between results, fields, bytes, replies and log lines | everybody |
| Startup of the processes (`New`, constructors, `main`) | contexts, sockets, `poll_items_`, threads | build, move into members, start threads | cppzmq |
| cppzmq, magic_enum (`lib`) | handles and buffers; none | ownership of what libzmq hands out; names of enumerators | everybody; the log |

What is hard: four kinds of processes and many threads; a condition variable on the stack
of one thread that another notifies; maps read without their mutex; counts that must agree
with messages in flight on sockets that may drop them; callbacks of gRPC that use the
caller's stack; database calls whose status nobody looks at; a database that outlives the
manager; exceptions that end a call, a worker, the broker or the manager. The hazards,
each with its line and the properties aimed at it, are in `PROJECT.json`.

What makes the parts correct:

* decomposition: the graph is the expression, common subexpressions shared, root last;
* dispatcher: a task is sent once, when its operands are in the database; a finished
  request returns the value of its expression and leaves nothing behind; every request is
  answered; no thread touches the `SyncData` of a handler that has left;
* broker and workers: every task is calculated and reported once, its result stored
  before it is reported; no worker gets more tasks than it announced cores; no core is
  lost; no task waits beside a core that has just become free;
* the way of one request: a client that reports success has printed the value of its
  expression, whichever call fails; a worker ends only over what has no value; every call
  comes back and its callback never uses a frame that is gone;
* startup: every handle has one owner, a loop polls the sockets it reads, and no thread
  runs before the members it uses exist.

## Modules

| Module | Models |
|---|---|
| `BrokerPipe` | the PAIR socket: two FIFO queues, senders wait at the mark `PipeHwm` |
| `WorkerSockets` | PUB-SUB (late subscriptions, drops at `PubHwm`) and DEALER-ROUTER |
| `Database` | the statements on `dynamic_data` and `static_data`, and what a failing one is for its caller |
| `Broker` | `broker_impl.cpp`: one action per message handler; `SendResultToManager`, which may block, is a step of its own |
| `Worker` | `worker_impl.cpp` and `thread_pool.cpp`: main thread and pool threads, one step per critical section, notification or database call |
| `Pool` | `Broker` and `Worker` composed, with a manager that sends any task, and with stops and restarts of workers; the invariants of the accounting |
| `TaskService`, `TaskServiceSpec` | abstract: what the manager may expect of broker and workers |
| `PoolService` | `Pool` implements `TaskServiceSpec` |
| `TaskGraph` | the questions the dispatcher asks a `TaskDecompositor` (no recursion, for proofs) |
| `Dispatcher` | `dispatch.cpp`, `task_dealer.cpp`: the handler threads and the dispatcher thread |
| `Calculator` | abstract: every request is answered with the value of its expression |
| `Manager` | `Dispatcher` over `TaskService`, with duplicated replies and restarts of the manager; it implements `Calculator` |
| `Decomposition` | `expression.cpp`, `dag_visitor.cpp`, `decomposition.cpp` as operators |
| `Decomposer` | one decomposition step by step |
| `Domain` | `domain.cpp` and `CalculateTaskImpl`: every operation on scalars and lists of a fixed width, or the exception, assertion or trap that ends the worker |
| `MagicEnum` | how `enum_name` finds the name of an enumerator |
| `Messages` | results, `db::Field`, bytes, `CalculationReply`, the formatters of `log_format.h` (a line is the values it prints) and what spdlog does with an exception |
| `Rpc` | one callback call: the caller's frame with mutex, condition variable, `done` and status, the callback, spurious wakeups |
| `CallPath` | one request from the client through handler and pool thread to the database and back, each of its calls an `Rpc`, any of which may fail, be lost before it is served or after |
| `Answers` | what a request must be answered with; shared by `Manager` and `System` |
| `System` | `Dispatcher`, `Broker` and `Worker` composed over the real pipe |
| `CppZmq` | `context_t`, `socket_t`, `message_t`, `monitor_t` of `zmq.hpp` and the tables of libzmq behind them |
| `Startup` | what `main` of broker, worker, manager and database server does up to its loop, as a sequence of calls of cppzmq, constructed members and started threads; two further processes call cppzmq in any order |
| `Operations`, `Exceptions` | a constant operator for what a task computes; the value that stands for a throw |
| `PoolProofs`, `PoolServiceProofs` | the theorems about `Pool`: types, accounting, threads, idle and lost cores; and about `PoolService`: every task in one place, the refinement of the task service |
| `AnswersProofs` | the lemmas that `ManagerProofs` and `SystemProofs` share: the values of a graph and the tasks of its vertices |
| `ManagerProofs`, `ManagerFlow` | the theorems about `Manager`: locks, wakeups and right answers; a reliable run and the refinement of `Calculator` |
| `SystemProofs` | the theorems about `System` |
| `StartupProofs` | the theorems about `Startup` and the objects of `CppZmq` |
| `CallPathProofs` | the theorems about `CallPath` and its calls (`Rpc`) |
| `MCPool`, `MCManager`, `MCDecomposer`, `MCCallPath`, `MCStartup`, `MCSystem` | the instances for TLC |

Variables keep the names of the code without the trailing underscore; the comment at each
declaration gives the member it stands for. `TaskService` and `Calculator` describe
promises and not code, so they have no lines in the map.

How the state corresponds to the code, where it is not one to one:

* A lock that is held across a blocking call or a read by others is a variable (`m`); the
  critical sections of `tasks_m_`, `output_m_` and `cv_m` are single steps.
* `revents` holds the result of the broker's last `zmq::poll`; both sockets are served
  from it before the next poll.
* `calcData[id].request` stands for the decompositor and for `task_to_variable_id`, which
  do not change once `CalculationData::New` has run.
* `SendComputableTasks` removes tasks from the computable set one at a time, the code all
  at once after its loop; nobody can look in between, because `m_` is held.
* The lookups of a waiting handler in `problem_id_to_sync_data_` are a data race while
  another handler is inside `emplace` or `erase`: `RaceOutcomes` says what they may do
  (find the entry, throw `out_of_range`, end the process).
* An exception that leaves a gRPC handler ends that call; one that leaves a pool thread,
  the broker's loop or the dispatcher thread ends the process.
* In the pool, the manager and the system a value is a term and what the operations
  compute a constant operator; `CallPath` uses the arithmetic of `Domain`. Signed overflow,
  undefined in C++, wraps around there, as the build (no optimisation flags) compiles it;
  division by zero and `INT_MIN / -1` trap.
* A protobuf message is a record of the fields that are present. Bytes are the tagged
  fields they encode, without the ones that have their default value.
* A context, socket or message object is a name; what it holds is a value of `ptr`,
  `handle` or `msg`. Calls of libzmq fail at will; that it refuses a closed handle, counts
  references and waits in `zmq_ctx_term` is external.
* Constructors are part of the step sequence of their process in the order of the member
  declarations; a thread is in `threads` as soon as it may run.
* An expression is a record; equality of records is `operator==`, which compares the type
  and the operands of both sides.

## Runs

| Run | Result | Shows |
|---|---|---|
| `pool_service` | pass | one worker with two spare cores, three tasks (so that one is queued), nothing lost: `Pool` implements the task service (`ImplementsTaskService`, `ExactlyOnce`), `NoCoreLeak`, `PoolNeverFull`, `QueuedTaskHasAwakeThread`, `NoIdleCoreWhileQueued`, `EveryTaskAnswered` |
| `pool_hostile` | pass | two workers, late subscriptions, PUB drops, an unknown variable, a stop and a restart: `TypeOK`, `OwnTasksOnly`, `NoOvercommit`; what is lost has a cause (`LossHasCause`), and so has the end of the broker (`BrokerEndHasCause`) |
| `pool_overload` | violation | two tasks in the queue: `task_queue_.back()` is copied and the front removed |
| `pool_late_worker` | violation | a task queued behind a worker without spare cores is not given to a worker that registers later |
| `manager` | pass | a quotient, a square and a request refused for its constant, at once: `ImplementsCalculator` (its fairness included), `TypeOK`, `ProcessingIsInFlight`, `OperandsReady`, `NoResidue` |
| `manager_faults` | pass | one duplicated reply, one restart and every outcome of the racing lookups: `SyncDataAlive`, `NoLostWakeup`, `CorrectUnlessRestarted`, and the end of the manager has one of the causes named in `ManagerEndHasCause` |
| `manager_race` | violation | two simultaneous requests may end the process: `ManagerSurvives` |
| `manager_variable` | violation | an AST that is a variable is never answered |
| `decomposer` | pass | 906 requests, among them malformed ones: `OneTaskPerSubexpression`, `GraphIsExpression`, `TopologicalOrder`, `RootIsLast` |
| `call_path` | pass | 160 requests of every operation on boundary values of a four-bit int, on operands of the wrong kind or missing, and a key the parser does not know; one call may fail: `FrameAlive`, `CallerWakes`, `SuccessIsValue`, `WorkerDiesOnlyOfUndefined`, `FailureHasCause`, `NothingLeftBehind`, `ClientAnswered` |
| `startup` | pass | the four servers, with an exception at every call that may throw one, and arbitrary use of cppzmq: `ObjectsAlive`, `HandlesOwned`, `BuffersCounted`, `PollItemsAreMembers`, `ThreadsSeeConstructed`, `Reachable` |
| `system` | pass | two requests, three of whose four tasks are out at once, a worker with two spare cores, pipes with marks of one: `NoMutualWait`, `AnswersAreValues`, no deadlock |

Each property of a passing run has a mutant: an operator, defined just before the one it
replaces, with a plausible mistake that makes TLC report the property.

The passing pool runs stay within the part of the behaviour where the findings do not
strike: at most one queued task in `pool_service`, and
`SubscribeFirst`, the assumption that a subscription reaches the broker before the worker
announces itself. `pool_hostile` makes no such restriction. There the code does lose cores
and tasks, and the broker and the worker do end; what can be shown is that nothing gets
lost, and nothing ends, in any other way. `LossHasCause` names three: the worker that held
it ended; it was handed to a worker that does not hear of it; or it was the older of two
queued tasks. Without either of the first two TLC reports a violation of `LossHasCause` in
this run; the third takes more tasks than the run has, arises in `pool_overload`, and is
covered by the theorem. Of each cause in `ManagerEndHasCause` the same was tried: all four
arise in `manager_faults`. `SyncDataAlive`, too, says what holds although some lookups
race: until `notify_all` the problem is in the map, and its handler in its scope.

`NothingLeftBehind` allows any call to fail, and lets only the handler's own last call be
the reason for a row that stays: `ReadData`, after whose exception nothing is cleared, or
`ClearIntermediateCalculations`, whose status nobody looks at. Of the theorems only
those restrict the behaviour whose conclusion is false otherwise; they name the restriction
as a hypothesis.

### Known limits of the program

These follow from the code and no line of the repository promises otherwise, or another
run already shows their cause; they are stated here and kept out of the passing runs:

* A task published before the subscription of its worker has arrived, or to a worker whose
  queue is at its mark, is lost, and its core with it; the tasks of a worker that ends are
  lost with the worker (`LossHasCause`).
* A worker started again under its old identity registers a second time, which ends the
  broker (`BrokerEndHasCause`); a reply given twice or one from before a restart of the
  manager ends the manager (`ManagerEndHasCause`).
* `std::mutex` is not fair: the dispatcher thread, which takes and releases `m_` in a busy
  loop, may keep a handler waiting for ever. No property covers this hazard:
  `ImplementsCalculator` assumes that it does not happen (see Fairness).
* After a restart of the manager `PROBLEM_ID` starts at 0 again while the database keeps
  the old rows: the new result cannot be inserted, the status is ignored and the request
  is answered with the old row. No property covers this hazard, since it is what the code
  does; `CorrectUnlessRestarted` says that nothing else gives a request a wrong answer.
* With more than `2 * PipeHwm + 1` tasks between manager and broker at once both may wait
  in `send`, the manager with `m_` held: `NoMutualWait` then fails. The mark is 1000.
* `Min` and `Max` of a list compare its iterators and not its elements (`domain.cpp:37`,
  `39`) and so yield the first one: `SuccessIsValue` only asks for an element there.
* The client sets no deadline and the manager none on the worker: when a worker ends, the
  requests whose tasks it held are never answered.
* A key outside `STRING_TO_EXPR_TYPE`, such as `so_sum` in `ASTs/example1.json`, makes the
  call fail.

### Bounds

* `PipeHwm`, `PubHwm`: the default mark of ZeroMQ is 1000; 1 to 3 makes senders wait, or
  PUB drop, within a few messages.
* `MaxRestarts`, `MaxManagerRestarts`, `MaxDuplicates`: one of each is enough to meet the
  old state with the new process.
* `pool_hostile`: its two workers have the same number of cores and the properties treat
  them alike, so that states which differ only in their names are one (`SYMMETRY`).
* Requests: `Quotient` has two independent tasks and one that needs both in order;
  `Square` uses one task twice (a parallel edge); `Sum` and `Size` have the same task ids
  and differ in their values, so that a mix-up shows. Their graphs are written out in
  `MCManager`, which assumes them equal to what `Decomposition` makes of the JSON.
* `call_path`: four bits are enough for every edge of the arithmetic (the smallest number,
  -1, 0, overflow of sums and products). One failure at any call; a second one would only
  meet a process that has already given up.
* `startup`: two objects of each kind, two contexts, three sockets and two buffers of
  libzmq: enough for moved-from, closed and reused handles and for shared buffers.
* `system`: three tasks at once fill both pipes and the hands of one process, with marks
  of one; the fourth would be one too many (see the known limits).
* Expressions of depth two over two lists and a scalar of the same name, unary and binary
  operations: sharing, repeated operands and equal names of different types all occur.

CHECK_DEADLOCK is off where the system may really stop: after the end of the broker, of
all workers or of the manager, and at the end of a decomposition.

### Fairness

All loops run for ever, so a step that stays possible is taken (weak fairness). Strong
fairness is assumed in three places. A ROUTER socket serves its peers in turn, hence every
worker whose message is readable again and again. And a thread that waits for `m_` gets it
if `m_` is free again and again: the dispatcher thread takes and releases it in a busy
loop, and `std::mutex` gives no guarantee, so this is an assumption on the platform's
mutex without which no handler is sure to progress. The same holds of a callback that
waits for the mutex of its caller's frame, which spurious wakeups may take again and again
(`call_path`); there gRPC completes every call, with an error if need be. Nothing makes a
spurious wakeup, a restart or a duplicate happen.

## Proofs

The theorems hold for every value of the constants that satisfies the assumptions named in
the modules. None of them is about the instances of the runs; the runs check the same
formulas, and the inductive invariants were checked on them first.

### Broker and workers

For any set of workers, any numbers of cores, tasks and restarts and any marks, from
finitely many workers, each with at least one core, and task ids that identify tasks:

| Theorem | States |
|---|---|
| `TypeCorrect`, `OwnTasksOnlyHolds`, `NoOvercommitHolds`, `PoolNeverFullHolds` | `Spec => []` of the property of that name |
| `QueuedTaskHasAwakeThreadHolds` | `Spec => []QueuedTaskHasAwakeThread` |
| `NoIdleCoreWhileQueuedHolds` | `Spec => NoIdleCoreWhileQueued` |
| `LossHasCauseHolds`, `BrokerEndHasCauseHolds` | `Spec => LossHasCause`, `Spec => []BrokerEndHasCause` |
| `NoCoreLeakHolds` | `SubscribeFirst => (Spec /\ []NothingLost => []NoCoreLeak)` |
| `ExactlyOnceHolds` | `SubscribeFirst => (Spec /\ []NothingLost /\ []QueueShort => []ExactlyOnce)` |
| `ImplementsTaskServiceHolds` | the same hypotheses `=> ImplementsTaskService` |

* `Inv == TypeOK /\ OwnTasksOnly /\ NoOvercommit` is inductive. `NoOvercommit` alone is
  not: a reply gives a core back to the worker it names, and that this is the worker whose
  task is over rests on `OwnTasksOnly`. `NoOvercommit` adds to the count of free cores
  everything in flight for a worker: published tasks, queued and running ones, finished
  ones and answers on the DEALER. Every step moves a task from one of these places to the
  next, drops it, or exchanges it for a free core, so the sum never grows. The lemmas count
  the messages of a sequence and show what one step does to each term.
* `QueuedTaskHasAwakeThread` is inductive with the types: a thread falls asleep only when
  the queue is empty, a thread that takes a task was awake, and a task is pushed together
  with the pending `notify_one`.
* `NoIdleCoreWhileQueued`, an action property, needs the types only: a reply gives a core
  back and `SendTaskToWorkerFromQueue` takes it again within the same handler.
* `LossHasCause`, an action property without any hypothesis, follows from `Inv` and, of the
  tasks, from the same moves between places as `ExactlyOnce`: a step carries a task on or
  leaves it where it is, except that a stop empties the places of one worker, a publication
  reaches nobody that is deaf, and the queue pops another task than the one it copies.
  The balance of `NoOvercommit` gives the part about the cores.
* `BrokerEndHasCause` needs that a worker that was never started again has announced itself
  at most once: as long as its announcement is on the way, it is not registered.
* `NoCoreLeak` is false in general (see the known limits). The theorem names everything
  that can go wrong: if subscriptions arrive before announcements, then as long as every
  worker is up and no subscriber's queue is at its mark (`NothingLost`), no core is lost.
  Its invariant adds that whoever has announced itself is subscribed, and makes the
  balance of `NoOvercommit` exact. `pool_service` is a run in which `NothingLost` holds.
* `ExactlyOnce` needs one hypothesis more: with two tasks in `task_queue_` the broker sends
  the last one and forgets the first (`pool_overload`), hence `QueueShort`. The proof looks
  at the copies of a task in every place a task can be (`Where`), and shows of each step
  that it carries the only copy of one task from one place to another and leaves the other
  tasks where they are; the reply of a worker with a task in the queue is two such moves.
* The refinement adds `WriteSound`: a thread that is about to write has calculated its
  result from operands which can still be read and have not changed since, because rows
  are only added. Then writing is the step of the task service that calculates the task, handing the
  answer to the pipe the one that replies, and all other steps leave the service alone.
  `pool_service` is an instance in which all three hypotheses hold.

### Manager

For any finite set of requests, any graphs in which operands are listed before what uses
them and every vertex is the last one or is needed for it (`GraphAssumption`;
`TopologicalOrder` checks it of what the decomposition makes), any set of outcomes of a racing lookup and any bounds:

| Theorem | States |
|---|---|
| `ManagerTypeCorrect`, `SyncDataAliveHolds`, `NoLostWakeupHolds` | `Spec => []` of `TypeOK`, `SyncDataAlive`, `NoLostWakeup` |
| `CorrectUnlessRestartedHolds` | `Spec => []CorrectUnlessRestarted` |
| `ProcessingIsInFlightHolds`, `OperandsReadyHolds`, `NoResidueHolds`, `ManagerSurvivesHolds` | `Spec => [](Reliable => ...)` |
| `ImplementsCalculatorSafely` | `Spec => (Reliable => ...)`: the initial states and the steps of `Calculator` |

* `ManagerEndHasCause` is proved in the form of `ManagerSurvivesHolds`: without restarts,
  repeated replies and racing lookups the manager does not end. Which of them is to blame
  in a given state is model-checked.
* `SyncInv` (module `ManagerProofs`) holds with restarts, repeated replies and every
  outcome of a lookup. Its strengthening is the discipline of `m_`: who holds it at which
  step, that a waiting handler is in both maps, and that the problem the dispatcher thread
  is about to report is registered. `PROBLEM_ID` is bounded by counting the handlers past
  `PushProblem`.
* `AnswerInv` (module `ManagerProofs`) says, until a restart, that problem ids are unique,
  that every task on its way is one of a posed problem with its operands, and that every
  row of the database is the value of the vertex it names. A repeated reply and a lookup
  that throws disturb none of this. What a value is, a recursive function says
  (`Values`); that it satisfies its equation on every graph with operands first is proved
  by a least counterexample, the one induction over data that the provers manage.
* `FlowInv` (module `ManagerFlow`) needs `Reliable`: no restart, no repeated reply, and
  lookups that find their entry. Without it the properties are false, as `manager_race` and
  the known limits show. It relates the books of a problem (`StatusSound`,
  `ProcessingIsInFlight`) to what is on its way and to the database (`WrittenFirst`,
  `OperandsReady`, `RootKnown`); none of its parts is inductive alone.
* The refinement theorem is the safety part of `ImplementsCalculator`: a step of the
  manager is the answer to one request or leaves `Calculator` alone.

### One request

For any inputs with at least one operand, any variables of the database that are numbers or
lists of numbers (`CallPathAssumption`) and any number of failing calls: `FrameAliveHolds`,
`CallerWakesHolds`, `FailureHasCauseHolds`, `NothingLeftBehindHolds`, all
`Spec => []...`.

* `FramesSound` gives, for each frame, the states of caller and callback that go together:
  who holds the mutex, whether `done` is set, whether the callback has still to unlock.
* `PathInv` follows the request: handler and pool thread take turns (`Turns`), the only row
  is the result of this request, and stays only if the handler saw its own call fail
  (`RowSound`), it can be read back and printed
  (`HandlerSound`), and an error status has a failed call behind it (`ClientSound`). That a
  value survives its way through message, bytes, message and reply are lemmas on the
  conversions (`RoundTrip`, `VariableRoundTrip`).

### The whole system

For any requests, graphs, workers, cores and marks, with late subscriptions and messages
that PUB drops:

| Theorem | States |
|---|---|
| `NoMutualWaitHolds` | `Spec => [](FewUnderWay => NoMutualWait)` |
| `CorrectResultHolds` | `Spec => []CorrectResult` |
| `AnswersAreValuesHolds` | `Spec => ("out_of_range" \notin RaceOutcomes => AnswersAreValues)` |

`FewUnderWay` says that at most `2 * PipeHwm + 1` tasks are noted as in process or are
still to be sent, in the books of all problems together; it is the condition under which
the known limit above does not strike. `WaitInv` counts: the tasks in the pipe, in
`task_queue_`, with the workers, in the broker's hand and in the reply pipe are never more
than the tasks the dispatcher has noted as in process (`Conserved`). Two full pipes, the
reply in the broker's hand and the task in the dispatcher's are then `2 * PipeHwm + 2`
tasks under way. The broker may lose tasks or send one twice; the number never grows, and
this is all the proof needs. That the dispatcher does not note a task twice and does not
forget one it has sent is the sound state of its books (`BooksSound`), for which the
discipline of `m_` (`LockHeld`) is needed and that a problem is only cleared when its root
is calculated and with it everything else (`ToldWhenDone`, `RootCalculated`).

The other two need `AnswerInv` of `SystemProofs`, on top of `WaitInv`. Along every queue
from the dispatcher to a pool thread there are only tasks of posed problems with their
operands (`TasksGenuine`); a row, and a result a thread is about to write, is the value of
the vertex it names (`RowsCorrect`, from the uniqueness of the ids and the equation of
`Values`); and along every queue back, an answer is about a row that is in the database
until its problem is over (`ReportsStored`), so that a handler that is told finds the
result of its root (`ToldStored`). The proof says of each process what the messages it
leaves behind are made of (`WorkerPasses`, `BrokerProvenance`, `ManagerPasses`) and then
shows each part once per process. A task that is sent twice is calculated twice to the
same value, and one that is lost delays an answer without changing it. The hypothesis of
the last theorem is the race on `problem_id_to_sync_data_`: a lookup that throws ends a
call with an error. A crash of the process (`manager_race`) is not excluded: nobody is
answered after it, and nobody wrongly.

### Startup and cppzmq

For any number of objects, handles and buffers, with failures at every call: `ObjectsAliveHolds`,
`HandlesOwnedHolds`, `BuffersCountedHolds`, all `Spec => []...`.

* `ScriptInv`: what is left of the calls of a process can be made from the objects alive
  now, one after the other, and leaves the members of its class. Each script is shown to
  run once, by the pieces it consists of (`Runs`); a step takes its first call away.
* `OwnInv`: a handle in the tables of libzmq is in exactly one object, and every socket is
  in a context that exists. Moves, assignments and swaps rearrange the handles among the
  objects; that each of them works on living objects is `ObjectsAlive`.
* `CountInv`: a reference count is the number of message objects that hold the buffer plus
  the number of queued parts with it, and no buffer without a reference exists.

### Only model-checked

* Liveness (`EveryTaskAnswered`, `ClientAnswered`, the fairness of the refinements): the
  prover has no rule for fairness.
* The decomposition: its operators are recursive, and a recursive operator takes the SMT
  backend away.
* `SuccessIsValue`, `WorkerDiesOnlyOfUndefined`: what the folds of `Domain` compute needs an
  induction over lists.
* `PollItemsAreMembers`, `ThreadsSeeConstructed`, `Reachable`: about
  four fixed sequences of calls, which TLC goes through completely, with every failure.

## Plan

1. Done: all the components named above; the theorems about broker and workers, the task
   service, the manager, one request, startup and the whole.
2. Left: the properties that are only model-checked, each for the reason given above.

## Not modelled

* The transport of gRPC and its thread pool (a handler blocks the callback thread it runs
  on), SQLite beyond the three statements, libzmq beyond what its wrapper relies on.
* Of `zmq.hpp` the tables of options, the buffer views and `poller_t`; `zmq_addon.hpp`; of
  magic_enum the flags, containers, switches, hashing and casts from names: the program
  uses none of this.
* The Print functions of the decomposition and `client_config.cpp`, which nobody calls.
* The wording of log lines, and their order.
* `CORE_COUNT=0`, for which `core_count_ - 1` wraps around, is excluded by an assumption.
* A `nullptr` operand in an AST (undefined behaviour in `PostorderTraverse`) is found by
  `Decomposer`, which then stops; `Dispatcher` starts from a well-formed graph or a refusal.
