------------------------------- MODULE MCPool -------------------------------
(* Small instances of the broker with its workers. *)
EXTENDS PoolService, TLC

CONSTANTS w1, w2, Throws

StaticTask(n) == [id |-> <<0, n>>, op |-> "re_sum", operands |-> <<StaticOperand("L")>>]

(* An operand that static_data does not hold. *)
UnknownVariableTask(n) == [id |-> <<0, n>>, op |-> "re_sum", operands |-> <<StaticOperand("Z")>>]

OneTask == {StaticTask(1)}
ThreeTasks == {StaticTask(n) : n \in 1..3}
FaultyTasks == {StaticTask(1), UnknownVariableTask(2)}

MCStaticData == [v \in {"L"} |-> 7]

MCCalculate(op, operands) == operands[1]

OneWorker == {w1}
TwoWorkers == {w1, w2}

(* Two workers with as many cores may be exchanged. *)
WorkerSymmetry == Permutations(TwoWorkers)

OneWorkerTwoCores == [w \in {w1} |-> 2]
OneWorkerThreeCores == [w \in {w1} |-> 3]
TwoByTwoCores == [w \in {w1, w2} |-> 2]
OneAndTwoCores == [w \in {w1, w2} |-> IF w = w1 THEN 1 ELSE 2]
=============================================================================
