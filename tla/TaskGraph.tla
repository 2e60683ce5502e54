----------------------------- MODULE TaskGraph -----------------------------
(***************************************************************************)
(* TaskDecompositor as the dispatcher uses it: the graph of the atomic     *)
(* tasks of one request and the questions asked of it.  A graph g is a     *)
(* record                                                                  *)
(*    tasks   the vertices in topological order, operands first (tasks_)   *)
(*    type    type[v]: the domain::ExprType of vertex v                    *)
(*    data    data[v]: the variable of a leaf                              *)
(*    adj     adj[v]: the operands of v in the order lhs, rhs (a vertex    *)
(*            used twice is listed twice: the graph has parallel edges)    *)
(***************************************************************************)
EXTENDS Integers, Sequences

LeafTypes == {"list", "scalar_const", "scalar_var"}

Vertices(g) == DOMAIN g.type

(* GetSortedTasks().back()                                                   *)
RootTask(g) == g.tasks[Len(g.tasks)]

(* GetIndependentTasks: vertex -> variable identifier, for every leaf.  The  *)
(* data of a scalar_const is a number, and std::get<VariableId> of it throws *)
(* bad_variant_access: the map exists only for graphs without constants.     *)
IndependentTasksThrow(g) == \E v \in Vertices(g) : g.type[v] = "scalar_const"

GetIndependentTasks(g) ==
    [v \in {u \in Vertices(g) : g.type[u] \in LeafTypes} |-> g.data[v]]

(* Mutant: any_of in place of all_of.                                        *)
GetComputableTasksAnyOf(g, computedTasks, excludedTasks) ==
    [v \in {u \in Vertices(g) \ (computedTasks \cup excludedTasks) :
                \E i \in DOMAIN g.adj[u] : g.adj[u][i] \in computedTasks}
        |-> g.adj[v]]

(* GetComputableTasks: vertex -> its operands, for every vertex neither      *)
(* computed nor excluded whose operands are all computed.                    *)
GetComputableTasks(g, computedTasks, excludedTasks) ==
    [v \in {u \in Vertices(g) \ (computedTasks \cup excludedTasks) :
                \A i \in DOMAIN g.adj[u] : g.adj[u][i] \in computedTasks}
        |-> g.adj[v]]

(* What TaskDecompositor makes of an expression: every vertex is listed      *)
(* after its operands, of which a leaf has none, ...                         *)
OperandsFirst(g) ==
    /\ g.tasks \in Seq(Vertices(g)) /\ g.tasks # <<>>
    /\ Vertices(g) = {g.tasks[i] : i \in DOMAIN g.tasks}
    /\ g.adj \in [Vertices(g) -> Seq(Vertices(g))]
    /\ \A v \in Vertices(g) : g.type[v] \in LeafTypes => g.adj[v] = <<>>
    /\ \A i \in DOMAIN g.tasks : \A k \in DOMAIN g.adj[g.tasks[i]] :
        \E j \in 1..(i - 1) : g.tasks[j] = g.adj[g.tasks[i]][k]

(* ... and is the last one, or an operand of an operand ... of the last one. *)
OneRoot(g) ==
    \A S \in SUBSET Vertices(g) :
        RootTask(g) \in S /\ (\A v \in S : \A k \in DOMAIN g.adj[v] : g.adj[v][k] \in S)
            => S = Vertices(g)
=============================================================================
