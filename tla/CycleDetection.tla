--------------------------- MODULE CycleDetection ----------------------------
(***************************************************************************)
(* TaskRepository._detect_cycle: a depth-first search over the dependency  *)
(* lists with a set of visited tasks and a set of the tasks on the search  *)
(* path.  A task is expanded once, so its list is read once: taking its    *)
(* dependencies in any order covers every order of the list.               *)
(***************************************************************************)
EXTENDS Naturals, Sequences, SequencesExt

CONSTANT Nodes      \* task ids, known or not

VARIABLES
    graph,      \* _build_graph: the known tasks and their dependencies
    todo,       \* the tasks that the outer loop has not come to
    calls,      \* the calls of visit() in progress: the task, the dependencies left
    visited, stack,
    answer      \* what _detect_cycle has returned, or "none" before

vars == <<graph, todo, calls, visited, stack, answer>>

\* _build_graph; _normalize_depends_on drops duplicates.
Graphs == UNION {[Known -> SUBSET Nodes] : Known \in SUBSET Nodes}

Call == [node : Nodes, deps : SUBSET Nodes]

\* The search knows no tasks but those of the graph.
TypeOK ==
    /\ graph \in Graphs
    /\ {todo, visited, stack} \subseteq SUBSET DOMAIN graph
    /\ calls \in Seq(Call)
    /\ answer \in {"none", "cycle", "dag"}

Init ==
    /\ graph \in Graphs
    /\ todo = DOMAIN graph
    /\ calls = <<>>
    /\ visited = {} /\ stack = {}
    /\ answer = "none"

-----------------------------------------------------------------------------
\* visit(node) called with callers in progress: a task on the path is a cycle,
\* one that has been visited is left alone, any other one is expanded.
Visit(node, callers) ==
    \/ /\ node \in stack
       /\ answer' = "cycle"
       /\ UNCHANGED <<calls, visited, stack>>
    \/ /\ node \in visited \ stack
       /\ calls' = callers
       /\ UNCHANGED <<visited, stack, answer>>
    \/ /\ node \notin visited \cup stack
       /\ visited' = visited \cup {node}
       /\ stack' = stack \cup {node}
       /\ calls' = Append(callers, [node |-> node, deps |-> graph[node]])
       /\ UNCHANGED answer

Top == Last(calls)

\* The outer loop: for node in graph.
Start(node) ==
    /\ answer = "none" /\ calls = <<>>
    /\ todo' = todo \ {node}
    /\ Visit(node, calls)
    /\ UNCHANGED graph

\* The calls when the loop of the innermost one has come to dep.
CameTo(dep) == [calls EXCEPT ![Len(calls)].deps = @ \ {dep}]

\* The loop of the innermost call; a dependency outside the graph is skipped.
Dependency(dep) ==
    /\ answer = "none" /\ calls # <<>>
    /\ dep \in Top.deps
    /\ IF dep \in DOMAIN graph THEN Visit(dep, CameTo(dep))
       ELSE calls' = CameTo(dep) /\ UNCHANGED <<visited, stack, answer>>
    /\ UNCHANGED <<graph, todo>>

\* Mutant: a task that has been left stays on the path.
LeaveStays ==
    /\ answer = "none" /\ calls # <<>> /\ Top.deps = {}
    /\ calls' = Front(calls)
    /\ UNCHANGED <<graph, todo, visited, stack, answer>>

\* visit() returns False to its caller.
Leave ==
    /\ answer = "none" /\ calls # <<>> /\ Top.deps = {}
    /\ stack' = stack \ {Top.node}
    /\ calls' = Front(calls)
    /\ UNCHANGED <<graph, todo, visited, answer>>

End ==
    /\ answer = "none" /\ calls = <<>> /\ todo = {}
    /\ answer' = "dag"
    /\ UNCHANGED <<graph, todo, calls, visited, stack>>

Next ==
    \/ \E node \in todo : Start(node)
    \/ \E dep \in Nodes : Dependency(dep)
    \/ Leave
    \/ End

Spec == Init /\ [][Next]_vars

-----------------------------------------------------------------------------
\* Tasks that wait for each other in a circle: a set of known tasks each of
\* which depends on one of them (TaskRepository!HasCycle).
Circular(g) == \E S \in SUBSET DOMAIN g : S # {} /\ \A n \in S : g[n] \cap S # {}

\* The search finds a cycle exactly when there is one, whatever the order of
\* the tasks and of their dependencies, and whichever of them are unknown.
DetectsExactly == answer # "none" => (answer = "cycle" <=> Circular(graph))
=============================================================================
