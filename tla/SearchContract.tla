--------------------------- MODULE SearchContract ---------------------------
(***************************************************************************)
(* What a deadlock search promises, whatever order it follows: its answer  *)
(* about the wait-for graph is right, the graph holds still until the      *)
(* answer is given, and what is done about a deadlock only removes edges.  *)
(* The thread search (AnyProgram) and the group search (GroupSearch) of    *)
(* src/detection.cpp are shown to implement it.                            *)
(***************************************************************************)
CONSTANT Nodes

VARIABLES
    graph,   \* node -> the nodes it waits for
    answer   \* "open" while nothing is known about the graph

contract == <<graph, answer>>

Graphs == [Nodes -> SUBSET Nodes]

(* Some non-empty set of nodes waits for itself. *)
HasCycle(g) == \E S \in SUBSET Nodes : /\ S # {}
                                       /\ \A n \in S : g[n] \cap S # {}

(* A call is recorded between two searches. *)
Record ==
    /\ answer = "open"
    /\ graph' \in Graphs
    /\ UNCHANGED answer

(* The search has its answer. *)
Answer ==
    /\ answer = "open"
    /\ answer' = IF HasCycle(graph) THEN "cyclic" ELSE "acyclic"
    /\ UNCHANGED graph

(* A deadlock is resolved; the search goes on or is given up. *)
Resolve ==
    /\ answer = "cyclic"
    /\ graph' \in Graphs
    /\ \A n \in Nodes : graph'[n] \subseteq graph[n]
    /\ answer' \in {"cyclic", "open"}

(* The search is over. *)
Close ==
    /\ answer # "open"
    /\ answer' = "open"
    /\ UNCHANGED graph

ContractInit == graph \in Graphs /\ answer = "open"

ContractNext == Record \/ Answer \/ Resolve \/ Close

ContractSpec == ContractInit /\ [][ContractNext]_contract

(* A search that has begun is answered. *)
FairContract == ContractSpec /\ WF_contract(Answer)

=============================================================================
