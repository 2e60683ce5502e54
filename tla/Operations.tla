----------------------------- MODULE Operations -----------------------------
(* What a task calculates: ThreadPool::CalculateTaskImpl, as module Domain   *)
(* defines it, or a stand-in that tells any two calculations apart.          *)
CONSTANT
    CalculateTaskImpl(_, _)     \* operation, operands -> value or Exception
=============================================================================
