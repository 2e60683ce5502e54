CONSTANTS
    Throws = Throws
    Exception = Throws
    Jsons <- MCJsons
SPECIFICATION Spec
INVARIANTS OneTaskPerSubexpression GraphIsExpression TopologicalOrder RootIsLast
CHECK_DEADLOCK FALSE
