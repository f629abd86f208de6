--------------------------- MODULE ConflictGroups ---------------------------
(***************************************************************************)
(* The conflict groups of src/detection.cpp, as operators on the maps.     *)
(* A group is named by the thread that opened it.  The code walks          *)
(* unordered maps, so a grouping depends on the order in which the keys of *)
(* thread_locks come: every operator takes that order, and what the code   *)
(* computes is the value for one of the orders.                            *)
(***************************************************************************)
EXTENDS Monitoring, SequencesExt

Holders == {t \in Threads : thread_locks[t] # {}}   \* keys of thread_locks

Orders == SetToSeqs(Holders)

SharesLock(t, u) == thread_locks[t] \cap thread_locks[u] # {}

(* A slip: a thread that was visited is not skipped, and its group takes   *)
(* in what shares a lock with it.                                          *)
get_or_create_visited(groups, t) ==
    LET g == IF groups[t] # NoThread THEN groups[t] ELSE t
    IN  [u \in Threads |->
            IF groups[u] = NoThread /\ (u = t \/ SharesLock(t, u)) THEN g ELSE groups[u]]

(* The lambda get_or_create_group and the inner loop of phase 1: an        *)
(* ungrouped thread opens a group and takes in every ungrouped thread that *)
(* shares a lock with it.  Sharing is not followed further.                *)
get_or_create_group(groups, t) ==
    IF groups[t] # NoThread THEN groups
    ELSE [u \in Threads |->
            IF groups[u] = NoThread /\ (u = t \/ SharesLock(t, u)) THEN t ELSE groups[u]]

(* A slip: threads that only wait are in no group. *)
GroupsOfHolders(order) ==
    FoldLeft(get_or_create_group, [t \in Threads |-> NoThread], order)

(* analyze_conflict_groups, phase 1: thread -> the thread that opened its  *)
(* group.  A thread that only waits is a group of its own.                 *)
analyze_conflict_groups(order) ==
    LET byLocks == FoldLeft(get_or_create_group, [t \in Threads |-> NoThread], order)
    IN  [t \in Threads |->
            IF byLocks[t] = NoThread /\ t \in wait_keys THEN t ELSE byLocks[t]]

(* The group wait-for graph of find_group_cycles: a wait inside a group,   *)
(* or for a thread that is in no group, is not an edge.                    *)
GroupEdges(groups) ==
    {<<groups[e[1]], groups[e[2]]>> : e \in
        {d \in Threads \X Threads : /\ d[2] \in waits_for[d[1]]
                                    /\ groups[d[2]] # NoThread
                                    /\ groups[d[1]] # groups[d[2]]}}

(* A graph has a cycle iff some non-empty set of nodes has, for every      *)
(* member, a successor in the set.                                         *)
Cyclic(nodes, edges) ==
    \E S \in (SUBSET nodes) \ {{}} : \A n \in S : \E m \in S : <<n, m>> \in edges

(* find_group_cycles returns a cycle of at least two groups, so            *)
(* detect_group_deadlock reports a deadlock.                               *)
GroupCycle(order) ==
    Cyclic(Threads, GroupEdges(analyze_conflict_groups(order)))

(* The threads a cycle of groups expands to, one of each group, each       *)
(* waiting for a thread of the next.                                       *)
GroupVictims(order) ==
    LET groups == analyze_conflict_groups(order)
        Follows(c, i) == \E o \in waits_for[c[i]] : groups[o] = groups[c[(i % Len(c)) + 1]]
    IN  {V \in SUBSET Threads :
            /\ Cardinality(V) >= 2
            /\ \A t, u \in V : groups[t] = groups[u] => t = u
            /\ \E c \in SetToSeqs(V) : \A i \in 1..Len(c) : Follows(c, i)}

ThreadEdges == {e \in Threads \X Threads : e[2] \in waits_for[e[1]]}
ThreadCycle == Cyclic(Threads, ThreadEdges)

=============================================================================
