------------------------------ MODULE Detection ------------------------------
(***************************************************************************)
(* One iteration of the main loop of src/main.cpp: take the stop of a      *)
(* thread, record its call (Monitoring), search the wait-for graph for     *)
(* deadlocks (detect_and_resolve_deadlocks, dfs_deadlock), resolve what is *)
(* found (resolve_deadlock_strategy1, emergency_deadlock_break,            *)
(* resolve_group_deadlock) and resume the thread.                          *)
(*                                                                         *)
(* The recursion of dfs_deadlock is an explicit stack of frames, one       *)
(* action per neighbour.  The hash maps and sets are walked in an order    *)
(* the program does not choose.                                            *)
(*                                                                         *)
(* The resolutions act on the global target_pid, which is 0: main keeps    *)
(* the pid of its argument in a local of the same name (main.cpp:117,      *)
(* global_state.cpp:5).  list_threads(0) is empty, /proc/0/mem does not    *)
(* exist and FutexUnlocker(0) opens nothing, so no thread is detached and  *)
(* no futex word is written: what is left of the resolutions is what is    *)
(* modelled.                                                               *)
(***************************************************************************)
EXTENDS ConflictGroups

CONSTANT BadNames   \* threads whose name extract_tid_from_identifier cannot parse

ASSUME BadNamesAssumption == BadNames \subseteq Threads

VARIABLES
    mpc,                 \* where the monitor stands in its loop
    current,             \* the thread whose stop it handles
    monitoring_active,
    deadlock_counter,
    detected_deadlocks,  \* the recorded deadlocks
    roots,               \* keys of waits_for the pass has not reached yet
    root,                \* the key it has reached
    visited,             \* the sets and the vector of the pass
    stack,
    frames,              \* the activations of dfs_deadlock, outermost first
    cycle,
    victim,              \* the victim of the running resolution
    hits                 \* history: times dfs_deadlock returned true in this pass

search    == <<roots, root, visited, stack, frames, cycle, victim, hits>>
records   == <<monitoring_active, deadlock_counter, detected_deadlocks>>
detector  == <<mpc, current, search, records>>

-----------------------------------------------------------------------------
(* The main loop up to the search.                                         *)

(* waitpid returns the stop of t; no handling of it has begun. *)
TakeStop(t) ==
    /\ mpc = "wait"
    /\ Stopped(t)
    /\ mpc' = "handle"
    /\ current' = t
    /\ UNCHANGED <<maps, tracee, search, records>>

(* waitpid returns the end of t: the loop goes on. *)
TakeExit(t) ==
    /\ mpc = "wait"
    /\ Collect(t)
    /\ UNCHANGED detector

(* handle_event calls handle_syscall, which records nothing of a thread    *)
(* that was killed since: its registers cannot be read.  The search goes   *)
(* on all the same while the thread is a zombie.  With monitoring_active   *)
(* false detect_and_resolve_deadlocks returns.                             *)
RecordCall ==
    /\ mpc = "handle"
    /\ IF Stopped(current) THEN handle_syscall(current) ELSE UNCHANGED maps
    /\ mpc' = IF Alive(current) /\ monitoring_active
              THEN "detect" ELSE "resume"
    /\ UNCHANGED <<tracee, current, search, records>>

(* A slip: threads stopped at the exit of a call are left there. *)
ResumeEntriesOnly ==
    /\ mpc = "resume"
    /\ tracee' = IF tracee[current].phase = "entry"
                 THEN [tracee EXCEPT ![current] = Resumed(@)] ELSE tracee
    /\ mpc' = "wait"
    /\ UNCHANGED <<maps, current, search, records>>

(* resume_tid: PTRACE_SYSCALL succeeds on a stopped thread only. *)
ResumeThread ==
    /\ mpc = "resume"
    /\ tracee' = IF Stopped(current) THEN [tracee EXCEPT ![current] = Resumed(@)]
                 ELSE tracee
    /\ mpc' = "wait"
    /\ UNCHANGED <<maps, current, search, records>>

-----------------------------------------------------------------------------
(* detect_and_resolve_deadlocks.                                           *)

(* detect_group_deadlock takes the thread ids of its victims from their    *)
(* names.  An exception leaves detect_and_resolve_deadlocks before         *)
(* anything was changed, and handle_event swallows it.                     *)
GroupNameFails ==
    /\ mpc = "detect"
    /\ \E order \in Orders : \E V \in GroupVictims(order) : V \cap BadNames # {}
    /\ mpc' = "resume"
    /\ UNCHANGED <<maps, tracee, current, search, records>>

(* A cycle of groups: resolve_group_deadlock turns the monitoring off and, *)
(* with no target, changes nothing else.  It returns true.                 *)
GroupDeadlock ==
    /\ mpc = "detect"
    /\ \E order \in Orders : \E V \in GroupVictims(order) : V \cap BadNames = {}
    /\ deadlock_counter' = deadlock_counter + 1
    /\ monitoring_active' = FALSE
    /\ mpc' = "resume"
    /\ UNCHANGED <<maps, tracee, current, search, detected_deadlocks>>

(* No cycle of groups: a pass over the threads begins. *)
BeginPass ==
    /\ mpc = "detect"
    /\ \E order \in Orders : ~ GroupCycle(order)
    /\ roots' = wait_keys
    /\ visited' = {} /\ stack' = {} /\ frames' = <<>> /\ cycle' = <<>>
    /\ hits' = 0
    /\ mpc' = "roots"
    /\ UNCHANGED <<maps, tracee, current, records, root, victim>>

(* A slip: a visited key is not passed over. *)
NextRootAgain(t) ==
    /\ mpc = "roots"
    /\ t \in roots
    /\ roots' = IF t \in visited THEN roots ELSE roots \ {t}
    /\ root' = t
    /\ IF t \in visited
       THEN UNCHANGED <<mpc, visited, stack, frames, cycle>>
       ELSE /\ visited' = visited \cup {t}
            /\ stack'   = stack \cup {t}
            /\ frames'  = <<[node |-> t, todo |-> waits_for[t]]>>
            /\ cycle'   = <<>>
            /\ mpc'     = "dfs"
    /\ UNCHANGED <<maps, tracee, current, records, victim, hits>>

(* The next key of waits_for; dfs_deadlock is called if it is not visited. *)
NextRoot(t) ==
    /\ mpc = "roots"
    /\ t \in roots
    /\ roots' = roots \ {t}
    /\ root' = t
    /\ IF t \in visited
       THEN UNCHANGED <<mpc, visited, stack, frames, cycle>>
       ELSE /\ visited' = visited \cup {t}
            /\ stack'   = stack \cup {t}
            /\ frames'  = <<[node |-> t, todo |-> waits_for[t]]>>
            /\ cycle'   = <<>>
            /\ mpc'     = "dfs"
    /\ UNCHANGED <<maps, tracee, current, records, victim, hits>>

EndPass ==
    /\ mpc = "roots"
    /\ roots = {}
    /\ mpc' = "resume"
    /\ UNCHANGED <<maps, tracee, current, search, records>>

top == frames[Len(frames)]
Taken(n) == [frames EXCEPT ![Len(frames)].todo = @ \ {n}]

(* dfs_deadlock, a neighbour that is neither on the stack nor visited: recurse. *)
Descend(n) ==
    /\ mpc = "dfs"
    /\ n \in top.todo \ (stack \cup visited)
    /\ visited' = visited \cup {n}
    /\ stack'   = stack \cup {n}
    /\ frames'  = Append(Taken(n), [node |-> n, todo |-> waits_for[n]])
    /\ UNCHANGED <<maps, tracee, mpc, current, records, roots, root, cycle, victim, hits>>

(* A slip: every visited neighbour is passed over. *)
SkipAnyVisited(n) ==
    /\ mpc = "dfs"
    /\ n \in top.todo \cap visited
    /\ frames' = Taken(n)
    /\ UNCHANGED <<maps, tracee, mpc, current, records, roots, root, visited, stack,
                   cycle, victim, hits>>
(* dfs_deadlock, a visited neighbour: the loop goes on. *)
Skip(n) ==
    /\ mpc = "dfs"
    /\ n \in (top.todo \cap visited) \ stack
    /\ frames' = Taken(n)
    /\ UNCHANGED <<maps, tracee, mpc, current, records, roots, root, visited, stack,
                   cycle, victim, hits>>

(* Slips: the thread is not taken off the stack, or the outermost          *)
(* activation does not return.                                             *)
BacktrackOnStack ==
    /\ mpc = "dfs"
    /\ top.todo = {}
    /\ frames' = SubSeq(frames, 1, Len(frames) - 1)
    /\ mpc'    = IF Len(frames) = 1 THEN "roots" ELSE "dfs"
    /\ UNCHANGED <<maps, tracee, current, records, roots, root, visited, stack, cycle,
                   victim, hits>>
BacktrackPastRoot ==
    /\ mpc = "dfs"
    /\ top.todo = {}
    /\ stack'  = stack \ {top.node}
    /\ frames' = SubSeq(frames, 1, Len(frames) - 1)
    /\ UNCHANGED <<maps, tracee, mpc, current, records, roots, root, visited, cycle,
                   victim, hits>>

(* dfs_deadlock returns false: no neighbour is left. *)
Backtrack ==
    /\ mpc = "dfs"
    /\ top.todo = {}
    /\ stack'  = stack \ {top.node}
    /\ frames' = SubSeq(frames, 1, Len(frames) - 1)
    /\ mpc'    = IF Len(frames) = 1 THEN "roots" ELSE "dfs"
    /\ UNCHANGED <<maps, tracee, current, records, roots, root, visited, cycle, victim, hits>>

(* dfs_deadlock returns true, through all its activations: each appends    *)
(* its thread and none leaves the stack.  The vector is then reversed.     *)
CloseCycle(n) ==
    /\ mpc = "dfs"
    /\ n \in top.todo \cap stack
    /\ cycle'  = Append([i \in 1..Len(frames) |-> frames[i].node], n)
    /\ frames' = <<>>
    /\ hits'   = hits + 1
    /\ mpc'    = "report"
    /\ UNCHANGED <<maps, tracee, current, records, roots, root, visited, stack, victim>>

(* A slip: every finding is new. *)
is_new_always == TRUE

(* is_new: the same sequence was not recorded before. *)
is_new == \A i \in 1..Len(detected_deadlocks) : detected_deadlocks[i].cycle # cycle

KnownCycle ==
    /\ mpc = "report"
    /\ ~ is_new
    /\ mpc' = "roots"
    /\ UNCHANGED <<maps, tracee, current, search, records>>

(* find_locks_in_deadlock: locks owned by a thread of the cycle and waited *)
(* for by the thread after it.                                             *)
find_locks_in_deadlock(c) ==
    {a \in Addrs : \E i \in 1..Len(c) :
        /\ lock_owners[a] = c[i]
        /\ c[(i % Len(c)) + 1] \in futex_waiters[a]}

-----------------------------------------------------------------------------
(* The resolutions.                                                        *)

(* The first thread of the cycle that exists, be it as a zombie, or whose  *)
(* name cannot be parsed: where both resolutions stop looking for a victim.*)
Candidates == {cycle[i] : i \in {j \in 1..Len(cycle) :
                /\ Alive(cycle[j]) \/ cycle[j] \in BadNames
                /\ \A k \in 1..(j - 1) : ~ Alive(cycle[k]) /\ cycle[k] \notin BadNames}}
Victims == Candidates \ BadNames

Recorded(resolved) ==
    detected_deadlocks' = Append(detected_deadlocks,
        [cycle |-> cycle, involved |-> find_locks_in_deadlock(cycle), resolved |-> resolved])

(* waits_for.erase(victim), inside the loop over waits_for.  When the      *)
(* victim is the key the loop stands at, the loop's iterator is dangling   *)
(* and its increment undefined: it may go on, end, or crash the monitor.   *)
AfterErase(v) ==
    /\ mpc' \in IF v = root THEN {"roots", "resume", "crashed"} ELSE {"roots"}
    /\ roots' = roots \ {v}

(* No thread of the cycle is left: both resolutions fail. *)
NobodyToResolve ==
    /\ mpc = "report"
    /\ is_new
    /\ Candidates = {}
    /\ deadlock_counter' = deadlock_counter + 1
    /\ Recorded(FALSE)
    /\ mpc' = "roots"
    /\ UNCHANGED <<maps, tracee, current, search, monitoring_active>>

(* extract_tid_from_identifier throws in resolve_deadlock_strategy1: the   *)
(* exception ends the pass, handle_event swallows it, the monitoring stays *)
(* off and the deadlock unrecorded.                                        *)
NameFails ==
    /\ mpc = "report"
    /\ is_new
    /\ Candidates \cap BadNames # {}
    /\ deadlock_counter' = deadlock_counter + 1
    /\ monitoring_active' = FALSE
    /\ mpc' = "resume"
    /\ UNCHANGED <<maps, tracee, current, search, detected_deadlocks>>

(* resolve_deadlock_strategy1 up to the wait for its shadow process. *)
StartStrategy1 ==
    /\ mpc = "report"
    /\ is_new
    /\ \E v \in Victims : victim' = v
    /\ deadlock_counter' = deadlock_counter + 1
    /\ monitoring_active' = FALSE
    /\ mpc' = "shadow"
    /\ UNCHANGED <<maps, tracee, current, detected_deadlocks, roots, root, visited, stack,
                   frames, cycle, hits>>

(* A slip: the early return leaves the monitoring off. *)
ShadowFailsStayingOff ==
    /\ mpc = "shadow"
    /\ mpc' = "emergency"
    /\ UNCHANGED <<maps, tracee, current, search, records>>

(* fork or waitpid fails. *)
ShadowFails ==
    /\ mpc = "shadow"
    /\ monitoring_active' = TRUE
    /\ mpc' = "emergency"
    /\ UNCHANGED <<maps, tracee, current, search, deadlock_counter, detected_deadlocks>>

(* reattach_and_resume_tracing of a thread that is still traced: a stopped *)
(* thread is resumed, whether or not its stop was handled; PTRACE_ATTACH   *)
(* fails on a running one.                                                 *)
Reattached(v) == IF Stopped(v) THEN [tracee EXCEPT ![v] = Resumed(@)] ELSE tracee

(* A slip: every thread of the deadlock loses its locks. *)
FinishStrategy1All ==
    /\ mpc = "shadow"
    /\ tracee' = Reattached(victim)
    /\ waits_for'     = [waits_for EXCEPT ![victim] = {}]
    /\ wait_keys'     = wait_keys \ {victim}
    /\ thread_locks'  = [t \in Threads |-> IF Contains(cycle, t) THEN {} ELSE thread_locks[t]]
    /\ futex_waiters' = Unlisted(futex_waiters, victim)
    /\ monitoring_active' = TRUE
    /\ Recorded(TRUE)
    /\ AfterErase(victim)
    /\ UNCHANGED <<lock_owners, wait_start_times, current, deadlock_counter, root, visited,
                   stack, frames, cycle, victim, hits>>

(* The shadow process has exited: the victim is attached again and its     *)
(* entries are erased.  Only the involved locks lose their owner.          *)
FinishStrategy1 ==
    LET v == victim
        involved == find_locks_in_deadlock(cycle)
    IN  /\ mpc = "shadow"
        /\ tracee' = Reattached(v)
        /\ waits_for'     = [waits_for EXCEPT ![v] = {}]
        /\ wait_keys'     = wait_keys \ {v}
        /\ thread_locks'  = [thread_locks EXCEPT ![v] = {}]
        /\ lock_owners'   = [a \in Addrs |-> IF a \in involved /\ lock_owners[a] = v
                                             THEN NoThread ELSE lock_owners[a]]
        /\ futex_waiters' = Unlisted(futex_waiters, v)
        /\ monitoring_active' = TRUE
        /\ Recorded(TRUE)
        /\ AfterErase(v)
        /\ UNCHANGED <<wait_start_times, current, deadlock_counter, root, visited, stack,
                       frames, cycle, victim, hits>>

(* emergency_deadlock_break: SIGKILL to one thread kills its process. *)
EmergencyBreak ==
    /\ mpc = "emergency"
    /\ \E v \in Victims :
        /\ tracee' = [t \in Threads |-> IF Alive(t) THEN Zombie ELSE Dead]
        /\ waits_for'    = [waits_for EXCEPT ![v] = {}]
        /\ wait_keys'    = wait_keys \ {v}
        /\ thread_locks' = [thread_locks EXCEPT ![v] = {}]
        /\ lock_owners'  = [a \in Addrs |-> IF lock_owners[a] = v THEN NoThread ELSE lock_owners[a]]
        /\ AfterErase(v)
    /\ Recorded(TRUE)
    /\ UNCHANGED <<futex_waiters, wait_start_times, current, monitoring_active,
                   deadlock_counter, root, visited, stack, frames, cycle, victim, hits>>

(* ... or the name of the next thread throws, with the monitoring on. *)
EmergencyNameFails ==
    /\ mpc = "emergency"
    /\ Candidates \cap BadNames # {}
    /\ mpc' = "resume"
    /\ UNCHANGED <<maps, tracee, current, search, records>>

(* ... or there is nobody left to kill. *)
EmergencyFails ==
    /\ mpc = "emergency"
    /\ Candidates = {}
    /\ Recorded(FALSE)
    /\ mpc' = "roots"
    /\ UNCHANGED <<maps, tracee, current, search, monitoring_active, deadlock_counter>>

(* A crashed monitor takes the target along: every thread was attached     *)
(* with PTRACE_O_EXITKILL.                                                 *)
Crash ==
    /\ mpc = "crashed"
    /\ mpc' = "gone"
    /\ tracee' = [t \in Threads |-> Dead]
    /\ UNCHANGED <<maps, current, search, records>>

-----------------------------------------------------------------------------

Search ==
    \/ BeginPass
    \/ \E t \in Threads : NextRoot(t) \/ Descend(t) \/ Skip(t) \/ CloseCycle(t)
    \/ Backtrack
    \/ EndPass
    \/ KnownCycle

Resolution ==
    \/ GroupNameFails
    \/ GroupDeadlock
    \/ NobodyToResolve
    \/ NameFails
    \/ StartStrategy1
    \/ ShadowFails
    \/ FinishStrategy1
    \/ EmergencyBreak
    \/ EmergencyNameFails
    \/ EmergencyFails

MainLoop ==
    \/ \E t \in Threads : TakeStop(t) \/ TakeExit(t)
    \/ RecordCall
    \/ ResumeThread
    \/ Search
    \/ Resolution
    \/ Crash

Mpcs == {"wait", "handle", "detect", "roots", "dfs", "report", "shadow", "emergency",
         "resume", "crashed", "gone", "detach"}

DetectorInit ==
    /\ mpc = "wait"
    /\ current \in Threads
    /\ monitoring_active = TRUE
    /\ deadlock_counter = 0
    /\ detected_deadlocks = <<>>
    /\ roots = {} /\ visited = {} /\ stack = {}
    /\ frames = <<>> /\ cycle = <<>>
    /\ root = NoThread
    /\ victim = NoThread
    /\ hits = 0

-----------------------------------------------------------------------------
(* Properties every program that is watched can rely on.                   *)

(* The records of the detector have their types; an activation of          *)
(* dfs_deadlock exists exactly while the search runs.                      *)
DetectorTypeOK ==
    /\ mpc \in Mpcs
    /\ current \in Threads
    /\ monitoring_active \in BOOLEAN
    /\ deadlock_counter \in Nat
    /\ roots \subseteq Threads /\ visited \subseteq Threads /\ stack \subseteq Threads
    /\ root \in Owners /\ victim \in Owners
    /\ cycle \in Seq(Threads)
    /\ \A i \in 1..Len(frames) : frames[i] \in [node : Threads, todo : SUBSET Threads]
    /\ hits \in Nat
    /\ (mpc = "dfs") <=> (frames # <<>>)

(* Every iteration of the main loop ends, whatever the search finds and   *)
(* the resolution does: the monitor comes back to waitpid, unless the      *)
(* erased key crashed it (AfterErase).                                     *)
LoopReturns == mpc # "wait" ~> mpc \in {"wait", "gone"}

(* No deadlock is recorded twice as the same sequence (is_new). *)
RecordedOnce ==
    \A i, j \in 1..Len(detected_deadlocks) :
        detected_deadlocks[i].cycle = detected_deadlocks[j].cycle => i = j

(* c is a walk through the wait-for graph that closes: its last thread     *)
(* occurs before.                                                          *)
ClosedWalk(c) ==
    /\ \A i \in 1..(Len(c) - 1) : c[i + 1] \in waits_for[c[i]]
    /\ \E i \in 1..(Len(c) - 1) : c[i] = c[Len(c)]

(* The part of a closed walk that goes round. *)
Loop(c) ==
    LET first == CHOOSE i \in 1..Len(c) : /\ c[i] = c[Len(c)]
                                          /\ \A j \in 1..(i - 1) : c[j] # c[i]
    IN  {c[i] : i \in first..Len(c)}

(* v was the victim of a deadlock recorded as resolved: the threads before *)
(* it in the vector were gone.                                             *)
WasVictim(v) ==
    \E i \in 1..Len(detected_deadlocks) :
        LET d == detected_deadlocks[i]
        IN  d.resolved /\ \E k \in 1..Len(d.cycle) : /\ d.cycle[k] = v
                                                    /\ \A j \in 1..(k - 1) : ~ Alive(d.cycle[j])

=============================================================================
