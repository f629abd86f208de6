----------------------------- MODULE AnyProgram -----------------------------
(***************************************************************************)
(* The detector watching the most general program, from any point at which *)
(* it has recorded waits and found nothing.  Before that point every       *)
(* thread has released a lock of its own and some have released one lock   *)
(* they share, so that the threads fall into one or several conflict       *)
(* groups; then threads have waited for each other's locks without closing *)
(* a cycle.  From there the program makes at most MaxCalls futex calls.    *)
(***************************************************************************)
EXTENDS Detection

CONSTANTS
    LockOf,      \* thread -> the lock it released
    SharedLock,  \* the lock some threads share
    MaxCalls     \* bound on the calls the program makes

VARIABLE calls   \* calls made

ASSUME LockAssumption ==
    /\ LockOf \in [Threads -> Addrs \ (JunkAddrs \cup {SharedLock})]
    /\ \A t, u \in Threads : LockOf[t] = LockOf[u] => t = u
    /\ SharedLock \in Addrs \ JunkAddrs
ASSUME CallsAssumption == MaxCalls \in Nat

allvars == <<vars, detector, calls>>

(* The maps after those releases and waits. *)
MapsInit ==
    /\ waits_for \in [Threads -> SUBSET Threads]
    /\ \A t \in Threads : t \notin waits_for[t]
    /\ wait_keys = {t \in Threads : waits_for[t] # {}}
    /\ futex_waiters = [a \in Addrs |-> {t \in Threads : \E o \in waits_for[t] : a = LockOf[o]}]
    /\ wait_start_times = [t \in Threads |-> {LockOf[o] : o \in waits_for[t]}]
    /\ \E sharers \in SUBSET Threads :
        /\ thread_locks = [t \in Threads |-> {LockOf[t]} \cup
                                             (IF t \in sharers THEN {SharedLock} ELSE {})]
        /\ \E last \in IF sharers = {} THEN {NoThread} ELSE sharers :
             lock_owners = [a \in Addrs |->
                IF a = SharedLock THEN last
                ELSE IF \E t \in Threads : a = LockOf[t]
                THEN CHOOSE t \in Threads : a = LockOf[t] ELSE NoThread]
    /\ ~ ThreadCycle
    /\ \A order \in Orders : ~ GroupCycle(order)

AnyInit ==
    /\ MapsInit
    /\ tracee = [t \in Threads |-> Idle]
    /\ DetectorInit
    /\ calls = 0

Call(t) ==
    /\ calls < MaxCalls
    /\ \E call \in Calls : EnterCall(t, call)
    /\ calls' = calls + 1
    /\ UNCHANGED detector

Environment(t) ==
    /\ KernelReturn(t) \/ Die(t)
    /\ UNCHANGED <<detector, calls>>

AnyNext ==
    \/ \E t \in Threads : Call(t) \/ Environment(t)
    \/ MainLoop /\ UNCHANGED calls

AnySpec == AnyInit /\ [][AnyNext]_allvars

-----------------------------------------------------------------------------
(* Properties.                                                             *)

(* The first cycle a pass finds is one: dfs_deadlock follows edges from    *)
(* its argument and closes on a thread of its own activations.  A later    *)
(* one need not be: the early returns leave the threads of the first in    *)
(* stack (detection.cpp:39), where the next roots run into them.           *)
FirstHitIsCycle ==
    mpc = "report" /\ hits = 1 => ClosedWalk(cycle)

(* A pass that ends without a finding has proved the wait-for graph        *)
(* acyclic: sharing visited between the keys loses nothing.                *)
MissMeansAcyclic ==
    mpc = "roots" /\ roots = {} /\ hits = 0 => ~ ThreadCycle

(* The group search precedes the thread search and leaves it the cycles    *)
(* inside one group: what the thread search finds first never spans        *)
(* groups, in whatever order they were formed (find_group_cycles,          *)
(* analyze_conflict_groups).                                               *)
FirstHitInOneGroup ==
    mpc = "report" /\ hits = 1 =>
        \A order \in Orders : ~ GroupCycle(order) =>
            LET groups == analyze_conflict_groups(order)
            IN  \A t, u \in Loop(cycle) : groups[t] = groups[u]

(* The monitor is off only while a resolution runs, or after a deadlock    *)
(* that is counted and not recorded: one of groups, or one whose victim's  *)
(* name could not be parsed.  Nothing turns it on again after these;       *)
(* strategy 1 does, on each of its paths.                                  *)
OffForAReason ==
    ~ monitoring_active =>
        \/ mpc = "shadow"
        \/ deadlock_counter > Len(detected_deadlocks)

(* The maps part only at the victims: an owner without the lock among its  *)
(* locks, and an edge without a recorded wait and lock behind it, are what *)
(* a resolution left of its victim, whose entries it erases while edges to *)
(* it and its other locks in lock_owners stay; of no other thread of the   *)
(* deadlock, and of no thread outside it (resolve_deadlock_strategy1,      *)
(* emergency_deadlock_break).                                              *)
MapsPartAtVictims ==
    /\ \A a \in Addrs : \A t \in Threads :
         lock_owners[a] = t => a \in thread_locks[t] \/ WasVictim(t)
    /\ \A t, o \in Threads :
         o \in waits_for[t] => \/ wait_start_times[t] \cap thread_locks[o] # {}
                              \/ WasVictim(o)

(* What is known of the graph while a pass runs. *)
PassAnswer ==
    IF hits > 0 /\ mpc \in {"roots", "dfs", "report", "shadow", "emergency"} THEN "cyclic"
    ELSE IF mpc = "roots" /\ roots = {} THEN "acyclic" ELSE "open"

Contract == INSTANCE SearchContract WITH Nodes  <- Threads,
                                         graph  <- waits_for,
                                         answer <- PassAnswer

(* A pass over the threads implements the contract: though it follows      *)
(* every edge once and shares visited between the keys, its first finding  *)
(* or its end without one is right about the whole graph, which no call,   *)
(* death or other thread changes meanwhile; a resolution adds no edge      *)
(* (dfs_deadlock, detect_and_resolve_deadlocks).                           *)
PassKeepsContract == Contract!ContractSpec

(* The threads as Monitoring shows them: the monitor is done with a stop   *)
(* as soon as it has recorded the call, though it resumes the thread later.*)
Handling == {"detect", "roots", "dfs", "report", "shadow", "emergency", "resume"}
AtOnce == [t \in Threads |-> IF t = current /\ mpc \in Handling /\ Stopped(t)
                             THEN Resumed(tracee[t]) ELSE tracee[t]]

Bookkeeping == INSTANCE Monitoring WITH tracee <- AtOnce

(* Until a deadlock is recorded, an iteration of the main loop is one step *)
(* of the bookkeeping: what happens between waitpid and the resuming of    *)
(* the thread, its own death included, cannot be told from an order in     *)
(* which the stop was handled at once (handle_event, resume_tid).  A       *)
(* resolution, which changes maps and threads, is no such step.            *)
HandledAtOnce ==
    [][detected_deadlocks' = <<>> => [Bookkeeping!Next]_(Bookkeeping!vars)]_allvars

-----------------------------------------------------------------------------
(* Statements of the repository that the code does not keep.               *)

(* strategy1.cpp:983, "Deadlock resolved!": strategy 1 leaves no cycle     *)
(* among the threads of the one it resolved.                               *)
ResolvedMeansBroken ==
    [][mpc = "shadow" /\ monitoring_active' /\ mpc' # "emergency"
          => ~ Cyclic(Loop(cycle), ThreadEdges)']_allvars

=============================================================================
