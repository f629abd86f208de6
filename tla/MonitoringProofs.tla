-------------------------- MODULE MonitoringProofs --------------------------
(* Proofs about Monitoring, for every set of threads and addresses.        *)
EXTENDS Monitoring, TLAPS

(* What a step of the monitor does to the maps: a wait call, a wake call   *)
(* or nothing.  Every proof below splits handle_syscall along these cases. *)
WaitStep(t) ==
    /\ tracee[t].call.op \in WaitOps
    /\ on_wait(t, tracee[t].call.addr)

WakeStep(t) ==
    /\ tracee[t].call.op = "WAKE"
    /\ on_lock(t, tracee[t].call.addr, on_wake(tracee[t].call.addr))
    /\ UNCHANGED wait_start_times

(* A step of Monitoring leaves the maps alone or handles one stopped       *)
(* thread's futex call.                                                    *)
LEMMA NextCases ==
    ASSUME [Next]_vars
    PROVE  \/ UNCHANGED maps
           \/ \E t \in Threads : Stopped(t) /\ WaitStep(t)
           \/ \E t \in Threads : Stopped(t) /\ WakeStep(t)
<1>1. CASE UNCHANGED vars
  BY <1>1 DEF vars
<1>2. ASSUME NEW t \in Threads, NEW call \in Calls, EnterCall(t, call)
      PROVE  UNCHANGED maps
  BY <1>2 DEF EnterCall
<1>3. ASSUME NEW t \in Threads, KernelReturn(t) \/ Die(t) \/ Collect(t)
      PROVE  UNCHANGED maps
  BY <1>3 DEF KernelReturn, Die, Collect
<1>4. ASSUME NEW t \in Threads, HandleStop(t)
      PROVE  UNCHANGED maps \/ (Stopped(t) /\ WaitStep(t)) \/ (Stopped(t) /\ WakeStep(t))
  BY <1>4 DEF HandleStop, handle_syscall, WaitStep, WakeStep
<1> QED
  BY <1>1, <1>2, <1>3, <1>4 DEF Next

(* The call of a stopped thread with a futex operation has an address. *)
LEMMA CallAddr ==
    ASSUME TypeOK, NEW t \in Threads, tracee[t].call.op # "OTHER"
    PROVE  tracee[t].call.addr \in Addrs
<1>1. tracee[t].call \in Calls
  BY DEF TypeOK, Tracees
<1> QED
  BY <1>1 DEF Calls, OtherCall

-----------------------------------------------------------------------------
(* Type correctness.                                                       *)

LEMMA TypeInit == Init => TypeOK
  BY DEF Init, TypeOK, KeysOK, Owners, Tracees, Phases, Idle, Calls, OtherCall

(* The phases of the traced threads stay well-typed. *)
LEMMA TraceeStep ==
    ASSUME TypeOK, [Next]_vars
    PROVE  tracee' \in [Threads -> Tracees]
<1> USE DEF TypeOK
<1>1. Idle \in Tracees /\ Zombie \in Tracees /\ Dead \in Tracees
  BY DEF Idle, Zombie, Dead, Tracees, Phases, Calls
<1>2. ASSUME NEW t \in Threads, NEW call \in Calls, EnterCall(t, call)
      PROVE  tracee' \in [Threads -> Tracees]
  BY <1>2 DEF EnterCall, Tracees, Phases
<1>3. ASSUME NEW t \in Threads, KernelReturn(t)
      PROVE  tracee' \in [Threads -> Tracees]
  BY <1>3 DEF KernelReturn, Tracees, Phases
<1>4. ASSUME NEW t \in Threads, Die(t) \/ Collect(t)
      PROVE  tracee' \in [Threads -> Tracees]
  BY <1>1, <1>4 DEF Die, Collect
<1>5. ASSUME NEW t \in Threads, HandleStop(t)
      PROVE  tracee' \in [Threads -> Tracees]
  <2>1. Resumed(tracee[t]) \in Tracees
    BY <1>1 DEF Resumed, Tracees, Phases
  <2> QED
    BY <2>1, <1>5 DEF HandleStop
<1> QED
  BY <1>2, <1>3, <1>4, <1>5 DEF Next, vars

LEMMA TypeWait ==
    ASSUME TypeOK, NEW t \in Threads, WaitStep(t)
    PROVE  /\ futex_waiters'    \in [Addrs -> SUBSET Threads]
           /\ wait_start_times' \in [Threads -> SUBSET Addrs]
           /\ waits_for'        \in [Threads -> SUBSET Threads]
           /\ thread_locks'     \in [Threads -> SUBSET Addrs]
           /\ lock_owners'      \in [Addrs -> Owners]
           /\ KeysOK'
<1> DEFINE a == tracee[t].call.addr
<1>1. a \in Addrs
  BY CallAddr DEF WaitStep, WaitOps
<1>2. NewEdges(t, a) \subseteq Threads
  BY <1>1 DEF NewEdges, TypeOK, Owners
<1>3. futex_waiters' \in [Addrs -> SUBSET Threads]
  BY <1>1 DEF WaitStep, on_wait, TypeOK
<1>4. waits_for' \in [Threads -> SUBSET Threads]
  BY <1>2 DEF WaitStep, on_wait, TypeOK
<1>5. wait_start_times' \in [Threads -> SUBSET Addrs]
  BY <1>1 DEF WaitStep, on_wait, TypeOK
<1>6. KeysOK'
  <2>1. /\ waits_for' = [waits_for EXCEPT ![t] = @ \cup NewEdges(t, a)]
        /\ wait_keys' = IF NewEdges(t, a) = {} THEN wait_keys ELSE wait_keys \cup {t}
    BY DEF WaitStep, on_wait
  <2> QED
    BY <2>1 DEF TypeOK, KeysOK
<1>7. thread_locks' = thread_locks /\ lock_owners' = lock_owners
  BY DEF WaitStep, on_wait
<1> QED
  BY <1>3, <1>4, <1>5, <1>6, <1>7 DEF TypeOK

LEMMA TypeWake ==
    ASSUME TypeOK, NEW t \in Threads, WakeStep(t)
    PROVE  /\ futex_waiters'    \in [Addrs -> SUBSET Threads]
           /\ wait_start_times' \in [Threads -> SUBSET Addrs]
           /\ waits_for'        \in [Threads -> SUBSET Threads]
           /\ thread_locks'     \in [Threads -> SUBSET Addrs]
           /\ lock_owners'      \in [Addrs -> Owners]
           /\ KeysOK'
<1> DEFINE a  == tracee[t].call.addr
           fw == on_wake(a)
<1>1. a \in Addrs
  BY CallAddr DEF WakeStep
<1>2. fw \in [Addrs -> SUBSET Threads] /\ Unlisted(fw, t) \in [Addrs -> SUBSET Threads]
  BY <1>1 DEF on_wake, Unlisted, TypeOK
<1>3. CASE a \in JunkAddrs
  BY <1>2, <1>3 DEF WakeStep, on_lock, TypeOK, KeysOK
<1>4. CASE a \notin JunkAddrs
  <2> HIDE DEF fw
  <2>1. futex_waiters' = Unlisted(fw, t)
    BY <1>4 DEF WakeStep, on_lock, fw
  <2>2. waits_for' = [u \in Threads |-> waits_for[u] \ {t}] /\ wait_keys' = wait_keys
    BY <1>4 DEF WakeStep, on_lock
  <2>3. /\ waits_for' \in [Threads -> SUBSET Threads]
        /\ KeysOK'
    BY <2>2 DEF TypeOK, KeysOK
  <2>4. thread_locks' \in [Threads -> SUBSET Addrs] /\ lock_owners' \in [Addrs -> Owners]
    <3>1. /\ thread_locks' = [thread_locks EXCEPT ![t] = @ \cup {a}]
          /\ lock_owners'  = [lock_owners EXCEPT ![a] = t]
      BY <1>4 DEF WakeStep, on_lock
    <3> QED
      BY <1>1, <3>1 DEF TypeOK, Owners
  <2> QED
    BY <1>2, <2>1, <2>2, <2>3, <2>4 DEF WakeStep, TypeOK
<1> QED
  BY <1>3, <1>4

LEMMA TypeStep == TypeOK /\ [Next]_vars => TypeOK'
<1> SUFFICES ASSUME TypeOK, [Next]_vars
             PROVE  TypeOK'
  OBVIOUS
<1>1. tracee' \in [Threads -> Tracees]
  BY TraceeStep
<1>2. CASE UNCHANGED maps
  BY <1>1, <1>2 DEF TypeOK, KeysOK, maps
<1>3. CASE \E t \in Threads : Stopped(t) /\ WaitStep(t)
  BY <1>1, <1>3, TypeWait DEF TypeOK
<1>4. CASE \E t \in Threads : Stopped(t) /\ WakeStep(t)
  BY <1>1, <1>4, TypeWake DEF TypeOK
<1> QED
  BY <1>2, <1>3, <1>4, NextCases

(* The maps of global_state.cpp always hold values of their types. *)
THEOREM TypeCorrect == Spec => []TypeOK
<1>1. Init => TypeOK
  BY TypeInit
<1>2. TypeOK /\ [Next]_vars => TypeOK'
  BY TypeStep
<1> QED
  BY <1>1, <1>2, PTL DEF Spec

-----------------------------------------------------------------------------
(* The ownership maps agree: on_lock is the only writer of both.           *)

LEMMA OwnerMaps ==
    ASSUME TypeOK, OwnerHoldsLock, NEW t \in Threads, WaitStep(t) \/ WakeStep(t)
    PROVE  OwnerHoldsLock'
<1>1. CASE WaitStep(t)
  BY <1>1 DEF OwnerHoldsLock, WaitStep, on_wait
<1>2. CASE WakeStep(t)
  BY <1>2, CallAddr DEF OwnerHoldsLock, TypeOK, WakeStep, on_lock
<1> QED
  BY <1>1, <1>2

LEMMA OwnerStep == TypeOK /\ OwnerHoldsLock /\ [Next]_vars => OwnerHoldsLock'
<1> SUFFICES ASSUME TypeOK, OwnerHoldsLock, [Next]_vars
             PROVE  OwnerHoldsLock'
  OBVIOUS
<1>1. CASE UNCHANGED maps
  BY <1>1 DEF OwnerHoldsLock, maps
<1> QED
  BY <1>1, NextCases, OwnerMaps

(* The recorded owner of a lock has it among its recorded locks. *)
THEOREM OwnersHold == Spec => []OwnerHoldsLock
<1>1. Init => OwnerHoldsLock
  BY NoThreadAssumption DEF Init, OwnerHoldsLock
<1> QED
  BY <1>1, TypeInit, TypeStep, OwnerStep, PTL DEF Spec

-----------------------------------------------------------------------------
(* Every edge of the wait-for graph has a recorded reason.  The edges are  *)
(* not inductive alone: an edge points to the recorded owner of an         *)
(* address, and only OwnerHoldsLock says that owner has it in thread_locks.*)

LEMMA EdgeWait ==
    ASSUME TypeOK, OwnerHoldsLock, EdgeExplained, NEW t \in Threads, WaitStep(t)
    PROVE  EdgeExplained'
<1> DEFINE a == tracee[t].call.addr
<1>1. a \in Addrs
  BY CallAddr DEF WaitStep, WaitOps
<1>2. SUFFICES ASSUME NEW w \in Threads, NEW o \in Threads, o \in waits_for'[w]
               PROVE  o # w /\ wait_start_times'[w] \cap thread_locks'[o] # {}
  BY DEF EdgeExplained
<1>3. /\ wait_start_times[w] \subseteq wait_start_times'[w]
      /\ thread_locks' = thread_locks
      /\ a \in wait_start_times'[t]
  BY <1>1 DEF WaitStep, on_wait, TypeOK
<1>4. CASE o \in waits_for[w]
  BY <1>3, <1>4 DEF EdgeExplained
<1>5. CASE o \notin waits_for[w]
  <2>1. w = t /\ o \in NewEdges(t, a)
    BY <1>2, <1>5 DEF WaitStep, on_wait, TypeOK
  <2>2. o # t /\ lock_owners[a] = o
    BY <2>1 DEF NewEdges
  <2>3. a \in thread_locks[o]
    BY <1>1, <2>2 DEF OwnerHoldsLock
  <2> QED
    BY <1>3, <2>1, <2>2, <2>3
<1> QED
  BY <1>4, <1>5

LEMMA EdgeWake ==
    ASSUME TypeOK, EdgeExplained, NEW t \in Threads, WakeStep(t)
    PROVE  EdgeExplained'
<1>1. SUFFICES ASSUME NEW w \in Threads, NEW o \in Threads, o \in waits_for'[w]
               PROVE  o # w /\ wait_start_times'[w] \cap thread_locks'[o] # {}
  BY DEF EdgeExplained
<1>2. /\ wait_start_times' = wait_start_times
      /\ thread_locks[o] \subseteq thread_locks'[o]
      /\ waits_for'[w] \subseteq waits_for[w]
  BY DEF WakeStep, on_lock, TypeOK
<1> QED
  BY <1>1, <1>2 DEF EdgeExplained

LEMMA EdgeStep ==
    TypeOK /\ OwnerHoldsLock /\ EdgeExplained /\ [Next]_vars => EdgeExplained'
<1> SUFFICES ASSUME TypeOK, OwnerHoldsLock, EdgeExplained, [Next]_vars
             PROVE  EdgeExplained'
  OBVIOUS
<1>1. CASE UNCHANGED maps
  BY <1>1 DEF EdgeExplained, maps
<1> QED
  BY <1>1, NextCases, EdgeWait, EdgeWake

(* An edge t -> o means t was recorded waiting at an address that o was    *)
(* recorded to lock, so o has made a FUTEX_WAKE call.                      *)
THEOREM EdgesExplained == Spec => []EdgeExplained
<1>1. Init => OwnerHoldsLock /\ EdgeExplained
  BY NoThreadAssumption DEF Init, OwnerHoldsLock, EdgeExplained
<1> QED
  BY <1>1, TypeInit, TypeStep, OwnerStep, EdgeStep, PTL DEF Spec

-----------------------------------------------------------------------------
(* Only the owner's own FUTEX_WAKE removes an edge.                        *)

(* A recorded edge t -> o lasts until the monitor handles a FUTEX_WAKE of o. *)
THEOREM EdgesEnd == Spec => EdgesEndWithOwner
<1> DEFINE Kept ==
      \A t, o \in Threads :
         o \in waits_for[t] /\ o \notin waits_for'[t]
             => Stopped(o) /\ tracee[o].call.op = "WAKE" /\ o # t
<1>1. TypeOK /\ EdgeExplained /\ [Next]_vars => Kept
  <2> SUFFICES ASSUME TypeOK, EdgeExplained, [Next]_vars,
                      NEW t \in Threads, NEW o \in Threads,
                      o \in waits_for[t], o \notin waits_for'[t]
               PROVE  Stopped(o) /\ tracee[o].call.op = "WAKE" /\ o # t
    OBVIOUS
  <2>1. o # t
    BY DEF EdgeExplained
  <2>2. ~ UNCHANGED maps
    BY DEF maps
  <2>3. ASSUME NEW u \in Threads, WaitStep(u)
        PROVE  FALSE
    BY <2>3 DEF WaitStep, on_wait, TypeOK
  <2>4. ASSUME NEW u \in Threads, Stopped(u), WakeStep(u)
        PROVE  Stopped(o) /\ tracee[o].call.op = "WAKE"
    <3>1. u = o
      BY <2>4 DEF WakeStep, on_lock, TypeOK
    <3> QED
      BY <2>4, <3>1 DEF WakeStep
  <2> QED
    BY <2>1, <2>2, <2>3, <2>4, NextCases
<1> QED
  BY <1>1, TypeCorrect, EdgesExplained, PTL DEF Spec, EdgesEndWithOwner

=============================================================================
