----------------------------- MODULE MCStartup -----------------------------
(* The server processes, and arbitrary use of cppzmq on a few objects. *)
EXTENDS Startup, TLC

CONSTANTS p1, p2, k1, k2, k3, b1, b2

AllProcesses == {"broker", "manager", "worker", "database", "any", "monitor"}
MCContextHandles == {p1, p2}
MCSocketHandles == {k1, k2, k3}
MCBuffers == {b1, b2}
TwoContexts == {<<"any", "c1">>, <<"any", "c2">>}
TwoSockets == {<<"any", "s1">>, <<"any", "s2">>}
TwoMonitors == {<<"any", "n1">>, <<"any", "n2">>}
TwoMessages == {"m1", "m2"}

HandleSymmetry ==
    Permutations(MCContextHandles) \cup Permutations(MCSocketHandles) \cup Permutations(MCBuffers)
=============================================================================
