----------------------------- MODULE Monitoring -----------------------------
(***************************************************************************)
(* The monitor's bookkeeping: what handle_syscall (src/monitoring.cpp)     *)
(* records about the futex calls of the traced threads.  Every traced      *)
(* thread stops twice per system call, at its entry and at its exit, and   *)
(* the main loop treats both stops alike: handle_syscall reads the call    *)
(* from the registers and updates the maps of src/global_state.cpp.        *)
(*                                                                         *)
(* The traced program is the most general one: any thread may make any     *)
(* futex call at any time, the kernel may complete it at any time (a wait  *)
(* returns when woken, at once with EAGAIN, on a timeout or a signal), and *)
(* a thread may die.  Interceptor composes this bookkeeping with a program *)
(* that really takes locks.                                                *)
(*                                                                         *)
(* An absent entry of a map and an entry with an empty set are the same    *)
(* value here, but for waits_for: on_lock empties sets of waits_for and    *)
(* leaves their keys, over which the detector iterates, so the keys are    *)
(* kept beside the sets, in wait_keys.  thread_locks has no empty sets, and*)
(* the readers of futex_waiters take an absent entry for an empty one.  A  *)
(* vector of waiters is the set of its elements: nothing modelled depends  *)
(* on their order or multiplicity.  lock_stats is left out: the handlers   *)
(* write it and nothing reads it.                                          *)
(***************************************************************************)
EXTENDS Naturals, FiniteSets

CONSTANTS
    Threads,    \* the traced threads, named as get_thread_identifier does
    Addrs,      \* futex words
    JunkAddrs,  \* those junk_addr rejects
    NoThread,   \* "no owner recorded"
    NoAddr      \* stands where a call has no futex address

ASSUME ThreadsAssumption  == IsFiniteSet(Threads)
ASSUME NoThreadAssumption == NoThread \notin Threads
ASSUME NoAddrAssumption   == NoAddr \notin Addrs
ASSUME JunkAssumption     == JunkAddrs \subseteq Addrs

VARIABLES
    futex_waiters,     \* address -> threads recorded as waiting there
    wait_start_times,  \* thread -> addresses it was ever recorded waiting at
    waits_for,         \* thread -> threads it is recorded to wait for
    wait_keys,         \* threads that are keys of waits_for
    thread_locks,      \* thread -> addresses it was recorded to lock
    lock_owners,       \* address -> recorded owner, or NoThread
    tracee             \* thread -> where it stands in its current system call

maps == <<futex_waiters, wait_start_times, waits_for, wait_keys, thread_locks,
          lock_owners>>
vars == <<maps, tracee>>

-----------------------------------------------------------------------------
(* The traced threads, as ptrace shows them to the monitor.                *)

WaitOps  == {"WAIT", "WAIT_BITSET", "WAKE_BITSET"}  \* handled by on_wait
FutexOps == WaitOps \cup {"WAKE"}
OtherCall == [op |-> "OTHER", addr |-> NoAddr]       \* any other call
Calls == [op : FutexOps, addr : Addrs] \cup {OtherCall}

Phases == {"user",    \* running program code
           "entry",   \* stopped at the entry of a call
           "kernel",  \* resumed, inside the call
           "exit",    \* stopped at the exit of the call
           "zombie",  \* it has died, and its status was not collected
           "dead"}    \* nothing is left of it

Idle == [phase |-> "user", call |-> OtherCall]
Zombie == [phase |-> "zombie", call |-> OtherCall]
Dead == [phase |-> "dead", call |-> OtherCall]
Tracees == [phase : Phases, call : Calls]

Stopped(t) == tracee[t].phase \in {"entry", "exit"}

(* kill(tid, 0) and thread_exists succeed: also for a zombie. *)
Alive(t) == tracee[t].phase # "dead"

(* PTRACE_SYSCALL: the stopped thread runs on to its next stop. *)
Resumed(tr) == IF tr.phase = "entry" THEN [tr EXCEPT !.phase = "kernel"] ELSE Idle

-----------------------------------------------------------------------------
(* The handlers of monitoring.cpp.                                         *)

(* A thread that is recorded as lock owner waits for nobody's lists. *)
Unlisted(fw, t) == [a \in Addrs |-> fw[a] \ {t}]

(* Slips the properties below catch: a set of locks overwritten instead of *)
(* extended, not extended at all, and the acquirer's own waits cleared.    *)
on_lock_replacing(t, a, fw) ==
    /\ lock_owners'   = [lock_owners EXCEPT ![a] = t]
    /\ thread_locks'  = [thread_locks EXCEPT ![t] = {a}]
    /\ waits_for'     = [u \in Threads |-> waits_for[u] \ {t}]
    /\ futex_waiters' = Unlisted(fw, t)
    /\ UNCHANGED wait_keys
on_lock_no_insert(t, a, fw) ==
    /\ lock_owners'   = [lock_owners EXCEPT ![a] = t]
    /\ waits_for'     = [u \in Threads |-> waits_for[u] \ {t}]
    /\ futex_waiters' = Unlisted(fw, t)
    /\ UNCHANGED <<wait_keys, thread_locks>>
on_lock_clearing_own(t, a, fw) ==
    /\ lock_owners'   = [lock_owners EXCEPT ![a] = t]
    /\ thread_locks'  = [thread_locks EXCEPT ![t] = @ \cup {a}]
    /\ waits_for'     = [u \in Threads |-> IF u = t THEN {} ELSE waits_for[u] \ {t}]
    /\ futex_waiters' = Unlisted(fw, t)
    /\ UNCHANGED wait_keys

(* on_lock(tid, addr), where fw are the waiters at its start. *)
on_lock(t, a, fw) ==
    IF a \in JunkAddrs
    THEN /\ futex_waiters' = fw
         /\ UNCHANGED <<lock_owners, thread_locks, waits_for, wait_keys>>
    ELSE /\ lock_owners'   = [lock_owners EXCEPT ![a] = t]
         /\ thread_locks'  = [thread_locks EXCEPT ![t] = @ \cup {a}]
         /\ waits_for'     = [u \in Threads |-> waits_for[u] \ {t}]
         /\ futex_waiters' = Unlisted(fw, t)
         /\ UNCHANGED wait_keys

(* on_wake(tid, addr): every recorded waiter is dropped.  Returns the      *)
(* waiters it leaves to the on_lock that always follows.                   *)
on_wake(a) == [futex_waiters EXCEPT ![a] = {}]

(* Slips: the owner is not looked up first, or may be the waiter itself. *)
NewEdgesNoCheck(t, a) == {lock_owners[a]} \ {t}
NewEdgesToSelf(t, a)  == {lock_owners[a]} \ {NoThread}

(* The edges on_wait adds for t: to the recorded owner, if it is another. *)
NewEdges(t, a) == {lock_owners[a]} \ {NoThread, t}

on_wait(t, a) ==
    /\ a \notin JunkAddrs
    /\ futex_waiters'    = [futex_waiters EXCEPT ![a] = @ \cup {t}]
    /\ wait_start_times' = [wait_start_times EXCEPT ![t] = @ \cup {a}]
    /\ waits_for'        = [waits_for EXCEPT ![t] = @ \cup NewEdges(t, a)]
    /\ wait_keys'        = IF NewEdges(t, a) = {} THEN wait_keys ELSE wait_keys \cup {t}
    /\ UNCHANGED <<thread_locks, lock_owners>>

(* A slip: the variant of the wait with a bit set is not recognised. *)
handle_syscall_no_bitset(t) ==
    IF tracee[t].call.op = "WAKE"
    THEN /\ on_lock(t, tracee[t].call.addr, on_wake(tracee[t].call.addr))
         /\ UNCHANGED wait_start_times
    ELSE UNCHANGED maps

(* handle_syscall(tid).  The registers are those of the current stop. *)
handle_syscall(t) ==
    LET op == tracee[t].call.op
        a  == tracee[t].call.addr
    IN  \/ /\ op \in WaitOps
           /\ on_wait(t, a)
        \/ /\ op = "WAKE"
           /\ on_lock(t, a, on_wake(a))
           /\ UNCHANGED wait_start_times
        \/ /\ op = "OTHER" \/ (op \in WaitOps /\ a \in JunkAddrs)
           /\ UNCHANGED maps

-----------------------------------------------------------------------------
(* The most general traced program.                                        *)

(* A thread running program code enters a system call and stops. *)
EnterCall(t, call) ==
    /\ tracee[t].phase = "user"
    /\ tracee' = [tracee EXCEPT ![t] = [phase |-> "entry", call |-> call]]
    /\ UNCHANGED maps

(* The kernel completes the call and the thread stops at its exit. *)
KernelReturn(t) ==
    /\ tracee[t].phase = "kernel"
    /\ tracee' = [tracee EXCEPT ![t].phase = "exit"]
    /\ UNCHANGED maps

(* The thread exits or is killed, and stays a zombie. *)
Die(t) ==
    /\ tracee[t].phase \notin {"zombie", "dead"}
    /\ tracee' = [tracee EXCEPT ![t] = Zombie]
    /\ UNCHANGED maps

(* waitpid collects its status, which the main loop ignores; no map is     *)
(* cleaned.  The first thread of a process stays a zombie until its parent *)
(* has collected it as well; this step stands for both.                    *)
Collect(t) ==
    /\ tracee[t].phase = "zombie"
    /\ tracee' = [tracee EXCEPT ![t] = Dead]
    /\ UNCHANGED maps

(* The monitor handles the stop of t and resumes it. *)
HandleStop(t) ==
    /\ Stopped(t)
    /\ handle_syscall(t)
    /\ tracee' = [tracee EXCEPT ![t] = Resumed(@)]

Init ==
    /\ futex_waiters    = [a \in Addrs |-> {}]
    /\ wait_start_times = [t \in Threads |-> {}]
    /\ waits_for        = [t \in Threads |-> {}]
    /\ wait_keys        = {}
    /\ thread_locks     = [t \in Threads |-> {}]
    /\ lock_owners      = [a \in Addrs |-> NoThread]
    /\ tracee = [t \in Threads |-> Idle]

Next ==
    \E t \in Threads :
        \/ \E call \in Calls : EnterCall(t, call)
        \/ KernelReturn(t)
        \/ Die(t)
        \/ Collect(t)
        \/ HandleStop(t)

Spec == Init /\ [][Next]_vars

-----------------------------------------------------------------------------
(* Properties.                                                             *)

Owners == Threads \cup {NoThread}

(* The keys of waits_for are threads, and a thread without one has no edge.*)
KeysOK ==
    /\ wait_keys \subseteq Threads
    /\ \A t \in Threads : waits_for[t] # {} => t \in wait_keys

(* Every map of global_state.cpp holds values of its declared type. *)
TypeOK ==
    /\ futex_waiters    \in [Addrs -> SUBSET Threads]
    /\ wait_start_times \in [Threads -> SUBSET Addrs]
    /\ waits_for        \in [Threads -> SUBSET Threads]
    /\ KeysOK
    /\ thread_locks     \in [Threads -> SUBSET Addrs]
    /\ lock_owners      \in [Addrs -> Owners]
    /\ tracee           \in [Threads -> Tracees]

(* The two ownership maps agree one way: the recorded owner of a lock has  *)
(* it among its locks (on_lock writes both, the detector joins them).  The *)
(* converse fails: thread_locks never shrinks.                             *)
OwnerHoldsLock ==
    \A t \in Threads, a \in Addrs : lock_owners[a] = t => a \in thread_locks[t]

(* An edge t -> o of the wait-for graph has a reason: t was recorded       *)
(* waiting at some address that o was recorded to lock.  As a lock is only *)
(* recorded when a thread makes a FUTEX_WAKE call, no thread that has not  *)
(* yet released a contended lock can be on a cycle (on_wait, on_lock).     *)
EdgeExplained ==
    \A t, o \in Threads :
        o \in waits_for[t] =>
            /\ o # t
            /\ wait_start_times[t] \cap thread_locks[o] # {}

(* A recorded edge t -> o outlives everything t does, its own wake-up and  *)
(* acquisition included: only the handling of a FUTEX_WAKE call of o       *)
(* removes it (on_lock erases the owner from the sets, never the waiter's  *)
(* own set).                                                               *)
EdgesEndWithOwner ==
    [][\A t, o \in Threads :
          o \in waits_for[t] /\ o \notin waits_for'[t]
              => Stopped(o) /\ tracee[o].call.op = "WAKE" /\ o # t]_vars

=============================================================================
