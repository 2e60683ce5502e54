------------------------------ MODULE Messages ------------------------------
(***************************************************************************)
(* The values of a calculation on their way between the processes:         *)
(* domain::ExprResult in the worker and the manager, db::Field between     *)
(* them and the database, a column of bytes in SQLite, and                 *)
(* dcmp::CalculationReply for the user.  A protobuf message is a record of *)
(* the fields that are present: a oneof has at most one of its members, a  *)
(* message nobody filled in has none.  Bytes are kept as the sequence of   *)
(* the tagged fields they encode; a number that is zero and an empty       *)
(* repeated field take no bytes (proto3), a member of a oneof always does. *)
(***************************************************************************)
EXTENDS Domain, MagicEnum

Unset == [field \in {} |-> 0]

Has(message, field) == field \in DOMAIN message

(* ExprResultVisitor of the database client.                                 *)
ToField(result) ==
    IF result[1] = "Scalar"
    THEN [scalar |-> [value |-> result[2]]]
    ELSE [list |-> [values |-> result[2]]]

(* The last part of DatabaseClient::ReadData.                                *)
FromField(field) ==
    IF Has(field, "scalar") THEN Scalar(field.scalar.value)
    ELSE IF Has(field, "list") THEN List(field.list.values)
    ELSE Exception

(* RecordIdVisitor: a variable by its name, a result by its ids.             *)
StaticRecordId(identifier) == [static_id |-> [identifier |-> identifier]]

DynRecordId(problem, task) == [dyn_id |-> [problem_id |-> problem, task_id |-> task]]

(* BuildWriteRequest *)
DynamicRecord(id, result) ==
    [record_id |-> [problem_id |-> id[1], task_id |-> id[2]], field |-> ToField(result)]

(* ExprResultVisitor of the manager's gRPC server.                           *)
ToReply(result) ==
    IF result[1] = "Scalar"
    THEN [scalar |-> result[2]]
    ELSE [list |-> [values |-> result[2]]]

-----------------------------------------------------------------------------
Tagged(tag, payload) == << <<tag, payload>> >>

(* Mutant: a oneof member without bytes of its own is dropped.               *)
SerializeFieldImplicit(field) ==
    IF Has(field, "scalar")
    THEN IF field.scalar.value = 0 THEN <<>> ELSE Tagged(5, Tagged(1, field.scalar.value))
    ELSE IF field.list.values = <<>> THEN <<>> ELSE Tagged(6, Tagged(2, field.list.values))

SerializeField(field) ==
    IF Has(field, "scalar")
    THEN Tagged(5, IF field.scalar.value = 0 THEN <<>> ELSE Tagged(1, field.scalar.value))
    ELSE Tagged(6, IF field.list.values = <<>> THEN <<>> ELSE Tagged(2, field.list.values))

(* ParseFromArray: what is absent has its default value.                     *)
ParseField(bytes) ==
    IF bytes = <<>> THEN Unset
    ELSE LET payload == bytes[1][2]
         IN  IF bytes[1][1] = 5
             THEN [scalar |-> [value |-> IF payload = <<>> THEN 0 ELSE payload[1][2]]]
             ELSE [list |-> [values |-> IF payload = <<>> THEN <<>> ELSE payload[1][2]]]

(* setup_database.py: the row of a variable of data.json, a Scalar when its  *)
(* name is in lower case and a List otherwise.                               *)
SetupRow(value) ==
    SerializeField(IF value[1] = "Scalar" THEN [scalar |-> [value |-> value[2]]]
                                          ELSE [list |-> [values |-> value[2]]])

-----------------------------------------------------------------------------
(* log_format.h: a formatter yields a line, here the values it prints in     *)
(* their order, or throws when a oneof that must have a member has none.     *)
FormatScalar(scalar) == <<scalar.value>>

FormatList(list) == list.values

FormatField(field) ==
    IF Has(field, "scalar") THEN FormatScalar(field.scalar)
    ELSE IF Has(field, "list") THEN FormatList(field.list)
    ELSE Exception

FormatProblemId(problem) == <<problem>>

FormatStaticRecordId(id) == <<id.identifier>>

FormatDynamicRecordId(id) == <<id.problem_id, id.task_id>>

FormatRecordId(id) ==
    IF Has(id, "dyn_id") THEN FormatDynamicRecordId(id.dyn_id)
    ELSE IF Has(id, "static_id") THEN FormatStaticRecordId(id.static_id)
    ELSE Exception

FormatDynamicRecord(record) ==
    LET field == FormatField(record.field)
    IN  IF field = Exception THEN Exception
        ELSE FormatDynamicRecordId(record.record_id) \o field

FormatExprResult(result) == IF result[1] = "List" THEN result[2] ELSE <<result[2]>>

FormatCalculationReply(reply) ==
    IF Has(reply, "scalar") THEN <<reply.scalar>>
    ELSE IF Has(reply, "list") THEN FormatList(reply.list)
    ELSE Exception

(* The formatters of tasks never throw: an operand without a member, or a    *)
(* message, is printed as Invalid.                                           *)
FormatStaticOperand(operand) == <<operand.identifier>>

FormatDynOperand(operand) == operand.id

FormatOperand(operand) ==
    IF Has(operand, "identifier") THEN FormatStaticOperand(operand)
    ELSE IF Has(operand, "id") THEN FormatDynOperand(operand)
    ELSE <<"Invalid">>

FormatTaskId(id) == id

ExprTypeNames == [v \in 0..(Len(ExprType) - 1) |-> ExprType[v + 1]]

FormatTask(task) ==
    FormatTaskId(task.id)
      \o <<EnumName(ExprTypeNames, task.operation_type)>>
      \o Seqs!FlattenSeq([i \in DOMAIN task.operands |-> FormatOperand(task.operands[i])])

FormatWorkerTask(identity, task) == <<identity>> \o FormatTask(task)

FormatWorkerTaskId(identity, id) == <<identity>> \o FormatTaskId(id)

FormatWorkerMessage(message) ==
    IF Has(message, "task_id")
    THEN FormatWorkerTaskId(message.task_id.identity, message.task_id.id)
    ELSE IF Has(message, "core_count") THEN <<message.core_count>>
    ELSE <<"Invalid">>

(* Mutant: the exception of a formatter leaves the call.                     *)
InfoThrows(line) == line # Exception

(* spdlog::info goes on with its caller in any case: what a formatter throws *)
(* is caught there, and only the line is lost.                               *)
Info(line) == line # Exception => Len(line) \in Nat
=============================================================================
