----------------------------- MODULE Exceptions -----------------------------
(* A C++ operation that throws, or ends its process, has no value.           *)
CONSTANT Exception      \* what it yields in place of one
=============================================================================
