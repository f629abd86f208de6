---------------------------- MODULE GroupSearch ----------------------------
(***************************************************************************)
(* detect_group_deadlock of src/detection.cpp, step by step: the search of *)
(* find_group_cycles through the graph of groups, the choice of its largest*)
(* cycle, expand_group_cycle_to_threads and the choice of the victims.     *)
(* Detection takes it as one step with the outcome GroupCycle; the         *)
(* properties here say that this is what the search computes.              *)
(*                                                                         *)
(* A search starts from any maps of their types in which no thread waits   *)
(* for itself.  Handed-on locks, stale edges, empty sets left in waits_for *)
(* and what resolutions erased, a victim's locks with edges to it still    *)
(* there, are all among them.  The maps do not change during a search, so  *)
(* the three groupings it computes are one.                                *)
(***************************************************************************)
EXTENDS ConflictGroups

VARIABLES
    groups,        \* the grouping: thread -> the thread that opened its group
    group_wait_graph,  \* group -> the groups it waits for
    gpc,           \* where the search stands
    gvisited,      \* the sets of find_group_cycles
    in_stack,
    gframes,       \* the activations of its dfs, outermost first
    group_cycles,  \* the cycles found
    group_cycle,   \* the one returned
    thread_cycle,  \* its expansion to threads
    victims        \* group -> selected victim, or NoThread

result == <<group_cycle, thread_cycle, victims>>
grouping == <<groups, group_wait_graph>>
groupvars == <<vars, grouping, gpc, gvisited, in_stack, gframes, group_cycles, result>>

-----------------------------------------------------------------------------
(* find_group_cycles.                                                      *)

Keys == {g \in Threads : group_wait_graph[g] # {}}   \* keys of group_wait_graph

gtop == gframes[Len(gframes)]
path == [i \in 1..Len(gframes) |-> gframes[i].group]

(* The activation dfs(g), called from the activations frames. *)
Enter(g, frames) ==
    /\ gvisited' = gvisited \cup {g}
    /\ in_stack' = in_stack \cup {g}
    /\ gframes'  = Append(frames, [group |-> g, todo |-> group_wait_graph[g]])

Advanced(g) == [gframes EXCEPT ![Len(gframes)].todo = @ \ {g}]

NextGroup(g) ==
    /\ gpc = "groups"
    /\ g \in Keys \ gvisited
    /\ Enter(g, <<>>)
    /\ gpc' = "dfs"
    /\ UNCHANGED <<vars, grouping, group_cycles, result>>

(* The neighbour is not visited: recurse. *)
Explore(g) ==
    /\ gpc = "dfs"
    /\ g \in gtop.todo \ gvisited
    /\ Enter(g, Advanced(g))
    /\ UNCHANGED <<vars, grouping, gpc, group_cycles, result>>

(* A slip: the cycle is the whole path, with the part that leads to it. *)
CycleWholePath(g) == path

(* The part of the path that starts at g. *)
CycleFrom(g) == SubSeq(path, SelectInSeq(path, LAMBDA h : h = g), Len(path))

(* The neighbour is on the path: its cycle is kept, if it is not there yet. *)
CloseGroupCycle(g) ==
    /\ gpc = "dfs"
    /\ g \in gtop.todo \cap in_stack
    /\ gframes' = Advanced(g)
    /\ group_cycles' = IF Contains(group_cycles, CycleFrom(g)) THEN group_cycles
                       ELSE Append(group_cycles, CycleFrom(g))
    /\ UNCHANGED <<vars, grouping, gpc, gvisited, in_stack, result>>

(* A slip: every visited neighbour is passed over. *)
PassAnyVisited(g) ==
    /\ gpc = "dfs"
    /\ g \in gtop.todo \cap gvisited
    /\ gframes' = Advanced(g)
    /\ UNCHANGED <<vars, grouping, gpc, gvisited, in_stack, group_cycles, result>>

(* The neighbour was left before. *)
PassGroup(g) ==
    /\ gpc = "dfs"
    /\ g \in (gtop.todo \cap gvisited) \ in_stack
    /\ gframes' = Advanced(g)
    /\ UNCHANGED <<vars, grouping, gpc, gvisited, in_stack, group_cycles, result>>

(* Slips: the group stays on the stack, or the group can be visited again. *)
LeaveOnStack ==
    /\ gpc = "dfs"
    /\ gtop.todo = {}
    /\ gframes'  = Front(gframes)
    /\ gpc' = IF Len(gframes) = 1 THEN "groups" ELSE "dfs"
    /\ UNCHANGED <<vars, grouping, gvisited, in_stack, group_cycles, result>>
LeaveUnvisited ==
    /\ gpc = "dfs"
    /\ gtop.todo = {}
    /\ in_stack' = in_stack \ {gtop.group}
    /\ gvisited' = gvisited \ {gtop.group}
    /\ gframes'  = Front(gframes)
    /\ gpc' = IF Len(gframes) = 1 THEN "groups" ELSE "dfs"
    /\ UNCHANGED <<vars, grouping, group_cycles, result>>

(* No neighbour is left: the activation returns. *)
Leave ==
    /\ gpc = "dfs"
    /\ gtop.todo = {}
    /\ in_stack' = in_stack \ {gtop.group}
    /\ gframes'  = Front(gframes)
    /\ gpc' = IF Len(gframes) = 1 THEN "groups" ELSE "dfs"
    /\ UNCHANGED <<vars, grouping, gvisited, group_cycles, result>>

(* max_element: the first of the longest cycles. *)
Longest ==
    LET Longer(i) == \A j \in 1..Len(group_cycles) :
                        IF j < i THEN Len(group_cycles[j]) < Len(group_cycles[i])
                        ELSE Len(group_cycles[j]) <= Len(group_cycles[i])
    IN  group_cycles[CHOOSE i \in 1..Len(group_cycles) : Longer(i)]

(* Every key was visited: the largest cycle is returned, if there is one.  *)
ReturnCycle ==
    /\ gpc = "groups"
    /\ Keys \subseteq gvisited
    /\ IF group_cycles = <<>>
       THEN gpc' = "none" /\ UNCHANGED group_cycle
       ELSE gpc' = "expand" /\ group_cycle' = Longest
    /\ UNCHANGED <<vars, grouping, gvisited, in_stack, gframes, group_cycles, thread_cycle,
                   victims>>

-----------------------------------------------------------------------------
(* expand_group_cycle_to_threads and the rest of detect_group_deadlock.    *)

Members(g) == {t \in Threads : groups[t] = g}

(* Threads of g that wait for a thread of h. *)
WaitersInto(g, h) == {t \in Members(g) : \E o \in waits_for[t] : groups[o] = h}

(* A slip: the fallback, any thread of the group, is taken at once. *)
ExpandToAny ==
    /\ gpc = "expand"
    /\ \E t \in Members(group_cycle[Len(thread_cycle) + 1]) :
         thread_cycle' = Append(thread_cycle, t)
    /\ gpc' = IF Len(thread_cycle') = Len(group_cycle) THEN "victims" ELSE "expand"
    /\ UNCHANGED <<vars, grouping, gvisited, in_stack, gframes, group_cycles, group_cycle,
                   victims>>

(* One group of the cycle: a thread of it that waits for the next group,   *)
(* or any thread of it.                                                    *)
Expand ==
    LET i     == Len(thread_cycle) + 1
        g     == group_cycle[i]
        found == WaitersInto(g, group_cycle[(i % Len(group_cycle)) + 1])
    IN  /\ gpc = "expand"
        /\ \E t \in IF found # {} THEN found ELSE Members(g) :
             thread_cycle' = Append(thread_cycle, t)
        /\ gpc' = IF i = Len(group_cycle) THEN "victims" ELSE "expand"
        /\ UNCHANGED <<vars, grouping, gvisited, in_stack, gframes, group_cycles, group_cycle,
                       victims>>

(* A slip: any thread of the group will do. *)
SelectAnyVictim ==
    /\ gpc = "victims"
    /\ victims' \in [Threads -> Owners]
    /\ \A g \in Threads : IF Contains(group_cycle, g) THEN victims'[g] \in Members(g)
                          ELSE victims'[g] = NoThread
    /\ gpc' = "found"
    /\ UNCHANGED <<vars, grouping, gvisited, in_stack, gframes, group_cycles, group_cycle,
                   thread_cycle>>

(* The victim of a group is the first thread of the expansion in it. *)
SelectVictims ==
    /\ gpc = "victims"
    /\ victims' = [g \in Threads |->
          IF Contains(group_cycle, g)
          THEN thread_cycle[SelectInSeq(thread_cycle, LAMBDA t : groups[t] = g)]
          ELSE NoThread]
    /\ gpc' = "found"
    /\ UNCHANGED <<vars, grouping, gvisited, in_stack, gframes, group_cycles, group_cycle,
                   thread_cycle>>

(* A slip: the victim's locks instead of its group's. *)
locks_held_by_victim(g) == thread_locks[victims[g]]

(* Phase 2 of analyze_conflict_groups: the locks the members hold. *)
locks_held(g) == UNION {thread_locks[t] : t \in Members(g)}

(* The locks resolve_group_deadlock collects to unlock. *)
all_locks == UNION {locks_held(g) : g \in Range(group_cycle)}

-----------------------------------------------------------------------------
GroupInit ==
    /\ TypeOK
    /\ \A t \in Threads : t \notin waits_for[t]
    /\ groups \in {analyze_conflict_groups(order) : order \in Orders}
    /\ LET edges == GroupEdges(groups)
       IN  group_wait_graph = [g \in Threads |-> {h \in Threads : <<g, h>> \in edges}]
    /\ gpc = "groups"
    /\ gvisited = {} /\ in_stack = {}
    /\ gframes = <<>> /\ group_cycles = <<>> /\ group_cycle = <<>> /\ thread_cycle = <<>>
    /\ victims = [g \in Threads |-> NoThread]

GroupNext ==
    \/ \E g \in Threads : NextGroup(g) \/ Explore(g) \/ CloseGroupCycle(g) \/ PassGroup(g)
    \/ Leave
    \/ ReturnCycle
    \/ Expand
    \/ SelectVictims

GroupSpec == GroupInit /\ [][GroupNext]_groupvars /\ WF_groupvars(GroupNext)

-----------------------------------------------------------------------------
(* Properties.                                                             *)

(* The search has its types, and in_stack is the set of the groups on the  *)
(* path (find_group_cycles keeps both and uses either).                    *)
GroupTypeOK ==
    /\ gpc \in {"groups", "dfs", "none", "expand", "victims", "found"}
    /\ in_stack \subseteq gvisited /\ gvisited \subseteq Threads
    /\ in_stack = Range(path) /\ IsInjective(path)
    /\ thread_cycle \in Seq(Threads) /\ Len(thread_cycle) <= Len(group_cycle)
    /\ victims \in [Threads -> Owners]

(* What the greedy grouping is, in whatever order the hash map came: the   *)
(* threads in a group are those that hold or wait; the others of a group   *)
(* share a lock with the one that opened it, not always with each other;   *)
(* and no two openers share a lock (analyze_conflict_groups, phase 1).     *)
GroupsAreStars ==
    /\ \A t \in Threads : groups[t] # NoThread <=> t \in Holders \cup wait_keys
    /\ \A t \in Threads : groups[t] \notin {NoThread, t} => /\ groups[groups[t]] = groups[t]
                                                            /\ SharesLock(groups[t], t)
    /\ \A t, u \in Range(groups) \ {NoThread} : t # u => ~ SharesLock(t, u)

(* Each cycle kept is a cycle of the group graph in which no group occurs  *)
(* twice (the part of the path from the neighbour on).                     *)
KeptAreCycles ==
    \A n \in 1..Len(group_cycles) :
        LET c == group_cycles[n]
        IN  /\ Len(c) >= 2 /\ IsInjective(c)
            /\ \A i \in 1..Len(c) : c[(i % Len(c)) + 1] \in group_wait_graph[c[i]]

(* A search of the groups that returns nothing leaves no cycle of threads  *)
(* of several groups, though it follows every edge only once: every cycle  *)
(* left is inside a group somewhere.                                       *)
NoneMeansNoCycle ==
    gpc = "none" =>
        \A S \in SUBSET Threads :
            Cyclic(S, ThreadEdges) => \E t, o \in S : /\ o \in waits_for[t]
                                                      /\ groups[t] = groups[o]

(* The expansion never needs its fallback: each thread of it waits for     *)
(* some thread of the next group (a wait put the edge into the graph).     *)
ThreadsFollowGroups ==
    \A i \in 1..Len(thread_cycle) :
        thread_cycle[i] \in
            WaitersInto(group_cycle[i], group_cycle[(i % Len(group_cycle)) + 1])

(* The victims come one from each group of the cycle, and each waits for a *)
(* thread of a group of the cycle other than its own.                      *)
VictimsWait ==
    gpc = "found" =>
        \A g \in Range(group_cycle) :
            /\ groups[victims[g]] = g
            /\ \E o \in waits_for[victims[g]] : groups[o] \in Range(group_cycle) \ {g}

(* While no lock is held by two threads, a cycle of groups is a cycle of   *)
(* threads: the expansion is a deadlock among the very threads it names.   *)
(* With a lock held twice it need not be one (detect_group_deadlock).      *)
UnsharedIsThreadCycle ==
    gpc = "found" /\ (\A t, u \in Threads : t # u => ~ SharesLock(t, u)) =>
        \A i \in 1..Len(thread_cycle) :
            thread_cycle[(i % Len(thread_cycle)) + 1] \in waits_for[thread_cycle[i]]

(* Whatever victims were chosen, each of them waits at an address the      *)
(* resolution would unlock, although it collects held locks only, of the   *)
(* groups of the cycle (resolve_group_deadlock, step 3): if a lock is still*)
(* recorded behind each of its edges.  The lock of a thread strategy 1 took*)
(* as its victim is not, and nobody unlocks it.                            *)
UnlocksFreeVictims ==
    gpc = "found" =>
        \A g \in Range(group_cycle) :
            (\A o \in waits_for[victims[g]] :
                wait_start_times[victims[g]] \cap thread_locks[o] # {})
            => wait_start_times[victims[g]] \cap all_locks # {}

(* Detection takes the whole search as one step with the outcome           *)
(* GroupCycle and the victims GroupVictims: the search has no other.       *)
OneStepOutcome ==
    \A order \in Orders : groups = analyze_conflict_groups(order) =>
        /\ gpc = "none" => ~ GroupCycle(order)
        /\ gpc = "found" => /\ GroupCycle(order)
                            /\ {victims[g] : g \in Range(group_cycle)} \in GroupVictims(order)

(* What is known of the graph of groups. *)
GroupAnswer ==
    CASE gpc = "none" -> "acyclic"
      [] gpc \in {"expand", "victims", "found"} -> "cyclic"
      [] OTHER -> "open"

Contract == INSTANCE SearchContract WITH Nodes  <- Threads,
                                         graph  <- group_wait_graph,
                                         answer <- GroupAnswer

(* find_group_cycles implements the contract on the graph of groups: it    *)
(* always answers, and its answer is right.                                *)
GroupKeepsContract == Contract!FairContract

=============================================================================
