--------------------------- MODULE MCGroupSearch ---------------------------
(* GroupSearch on a small instance: every choice of the maps the search    *)
(* follows, and few values of the others.                                  *)
EXTENDS GroupSearch

CONSTANTS t1, t2, t3, a1, a2

(* A thread was recorded waiting at one lock of each thread it waits for,  *)
(* the same for all of them where they have it; some holder is the owner.  *)
MCMaps ==
    /\ thread_locks \in [Threads -> SUBSET Addrs]
    /\ waits_for \in [Threads -> SUBSET Threads]
    /\ wait_keys \in SUBSET Threads
    /\ \E a \in Addrs : wait_start_times = [t \in Threads |->
          UNION {IF a \in thread_locks[o] THEN {a} ELSE thread_locks[o] : o \in waits_for[t]}]
    /\ futex_waiters = [a \in Addrs |-> {t \in Threads : a \in wait_start_times[t]}]
    /\ lock_owners = [a \in Addrs |->
          LET holders == {t \in Threads : a \in thread_locks[t]}
          IN  IF holders = {} THEN NoThread ELSE CHOOSE t \in holders : TRUE]
    /\ tracee = [t \in Threads |-> Idle]

MCGroupInit == MCMaps /\ GroupInit

MCGroupSpec == MCGroupInit /\ [][GroupNext]_groupvars /\ WF_groupvars(GroupNext)

=============================================================================
