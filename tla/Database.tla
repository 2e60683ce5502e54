------------------------------ MODULE Database ------------------------------
(***************************************************************************)
(* The database server with the client calls made on it.  A record of      *)
(* dynamic_data is keyed by <<problem_id, task_id>>; static_data is fixed  *)
(* when the database is set up.  Every call is one SQL statement; the      *)
(* caller waits for its completion callback and never looks at the status  *)
(* of the call, so a statement that fails is, for the caller, a call that  *)
(* changed nothing and answered an empty message.                          *)
(***************************************************************************)
EXTENDS Exceptions

CONSTANT StaticData     \* static_data: variable identifier -> value

VARIABLE db             \* dynamic_data: <<problem_id, task_id>> -> value

DatabaseInit == db = [id \in {} |-> Exception]

(* INSERT: the primary key makes it fail, and change nothing, when the       *)
(* record already exists.                                                    *)
WriteDynamicData(id, value) ==
    db' = IF id \in DOMAIN db
          THEN db
          ELSE [i \in DOMAIN db \cup {id} |-> IF i = id THEN value ELSE db[i]]

(* A missing row leaves the reply without a value: the client throws         *)
(* logic_error("Invalid message").                                           *)
ReadDynamicData(id) ==
    IF id \in DOMAIN db THEN db[id] ELSE Exception

ReadStaticData(identifier) ==
    IF identifier \in DOMAIN StaticData THEN StaticData[identifier] ELSE Exception

(* Mutant: the other problems are cleared.                                   *)
ClearOtherCalculations(problem) ==
    db' = [id \in {i \in DOMAIN db : i[1] = problem} |-> db[id]]

ClearIntermediateCalculations(problem) ==
    db' = [id \in {i \in DOMAIN db : i[1] # problem} |-> db[id]]

(* task.proto: an Operand is a StaticOperand or a DynOperand.                *)
StaticOperand(identifier) == [identifier |-> identifier]

DynOperand(id) == [id |-> id]

ReadData(operand) ==
    IF "identifier" \in DOMAIN operand
    THEN ReadStaticData(operand.identifier)
    ELSE ReadDynamicData(operand.id)
=============================================================================
