-------------------------- MODULE AnyProgramProofs --------------------------
(* What the detector guarantees to any program, for every set of threads   *)
(* and addresses, every number of calls and every set of broken names.     *)
EXTENDS AnyProgram, DetectionProofs, ConflictGroupsProofs

(* The inductive invariant. *)
AnyInv == TypeOK /\ DetectorTypes /\ RecordsInv /\ OffInv /\ PassInv /\ HitInv

LEMMA AnyInitInv == AnyInit => AnyInv
<1> SUFFICES ASSUME AnyInit PROVE AnyInv
  OBVIOUS
<1>1. \A t \in Threads : LockOf[t] \in Addrs
  BY LockAssumption
<1>2. /\ waits_for \in [Threads -> SUBSET Threads]
      /\ futex_waiters \in [Addrs -> SUBSET Threads]
      /\ wait_start_times \in [Threads -> SUBSET Addrs]
  BY <1>1 DEF AnyInit, MapsInit
<1>3. PICK sharers \in SUBSET Threads :
        /\ thread_locks = [t \in Threads |-> {LockOf[t]} \cup
                                             (IF t \in sharers THEN {SharedLock} ELSE {})]
        /\ \E last \in IF sharers = {} THEN {NoThread} ELSE sharers :
             lock_owners = [a \in Addrs |->
                IF a = SharedLock THEN last
                ELSE IF \E t \in Threads : a = LockOf[t]
                THEN CHOOSE t \in Threads : a = LockOf[t] ELSE NoThread]
  BY DEF AnyInit, MapsInit
<1>4. thread_locks \in [Threads -> SUBSET Addrs]
  BY <1>1, <1>3, LockAssumption
<1>5. lock_owners \in [Addrs -> Owners]
  BY <1>3 DEF Owners
<1>6. KeysOK
  BY DEF AnyInit, MapsInit, KeysOK
<1>7. tracee \in [Threads -> Tracees]
  BY DEF AnyInit, Idle, Tracees, Phases, Calls
<1>8. DetectorTypes
  BY DetectorTypesInit DEF AnyInit
<1>9. RecordsInv /\ OffInv /\ PassInv /\ HitInv
  BY DEF AnyInit, DetectorInit, RecordsInv, RecordedOnce, OffInv, PassInv, HitInv
<1> QED
  BY <1>2, <1>4, <1>5, <1>6, <1>7, <1>8, <1>9 DEF AnyInv, TypeOK

(* A step of the program leaves the monitor's state alone. *)
LEMMA ProgramStep ==
    ASSUME AnyInv, UNCHANGED <<maps, detector>>, tracee' \in [Threads -> Tracees]
    PROVE  AnyInv'
<1>1. TypeOK'
  BY DEF AnyInv, TypeOK, KeysOK, maps
<1>2. DetectorTypes' /\ RecordsInv'
  BY DetectorIdle DEF AnyInv
<1>3. OffInv'
  BY DEF AnyInv, OffInv, detector, records
<1>4. PassInv'
  BY DEF AnyInv, PassInv, PathInv, LeftInv, AcyclicInv, RootsInv, Done, Following,
     detector, search, maps
<1>5. HitInv'
  BY DEF AnyInv, HitInv, ClosedWalk, detector, search, maps
<1> QED
  BY <1>1, <1>2, <1>3, <1>4, <1>5 DEF AnyInv

LEMMA AnyStep == AnyInv /\ [AnyNext]_allvars => AnyInv'
<1> SUFFICES ASSUME AnyInv, [AnyNext]_allvars PROVE AnyInv'
  OBVIOUS
<1>0. TypeOK
  BY DEF AnyInv
<1>1. ASSUME NEW t \in Threads, Call(t)
      PROVE  AnyInv'
  <2>1. UNCHANGED <<maps, detector>> /\ [Next]_vars
    BY <1>1 DEF Call, EnterCall, Next
  <2> QED
    BY <1>0, <2>1, TraceeStep, ProgramStep
<1>2. ASSUME NEW t \in Threads, Environment(t)
      PROVE  AnyInv'
  <2>1. UNCHANGED <<maps, detector>> /\ [Next]_vars
    BY <1>2 DEF Environment, KernelReturn, Die, Next
  <2> QED
    BY <1>0, <2>1, TraceeStep, ProgramStep
<1>3. CASE MainLoop
  BY <1>3, MainLoopTypes, DetectorTypesStep, RecordsStep, OffStep, PassStep, HitStep DEF AnyInv
<1>4. CASE UNCHANGED allvars
  <2>1. UNCHANGED <<maps, detector>> /\ [Next]_vars
    BY <1>4 DEF allvars, vars
  <2> QED
    BY <1>0, <2>1, TraceeStep, ProgramStep
<1> QED
  BY <1>1, <1>2, <1>3, <1>4 DEF AnyNext

LEMMA AnyInvariant == AnySpec => []AnyInv
  BY AnyInitInv, AnyStep, PTL DEF AnySpec

(* The main loop keeps the types of its records and of its search, and an  *)
(* activation of dfs_deadlock exists exactly while the search runs.        *)
THEOREM DetectorTypeCorrect == AnySpec => []DetectorTypeOK
<1>1. AnyInv => DetectorTypeOK
  BY TypesAreOK DEF AnyInv
<1> QED
  BY <1>1, AnyInvariant, PTL

(* is_new keeps its promise although a resolution, with a shadow process   *)
(* and an emergency break that may follow it, lies between the question    *)
(* and the record.                                                         *)
THEOREM AnyRecordedOnce == AnySpec => []RecordedOnce
<1>1. AnyInv => RecordedOnce
  BY DEF AnyInv, RecordsInv
<1> QED
  BY <1>1, AnyInvariant, PTL

(* The monitoring is off only while strategy 1 runs, or after a deadlock   *)
(* that was counted and never recorded.                                    *)
THEOREM AnyOffForAReason == AnySpec => []OffForAReason
<1>1. AnyInv => OffForAReason
  <2>1. ASSUME DetectorTypes, Len(detected_deadlocks) < deadlock_counter
        PROVE  deadlock_counter > Len(detected_deadlocks)
    BY <2>1, LenProperties DEF DetectorTypes
  <2> QED
    BY <2>1 DEF AnyInv, OffInv, OffForAReason
<1> QED
  BY <1>1, AnyInvariant, PTL

(* The first sequence of threads a pass reports is a closed walk of the    *)
(* wait-for graph.                                                         *)
THEOREM AnyFirstHitIsCycle == AnySpec => []FirstHitIsCycle
<1>1. AnyInv => FirstHitIsCycle
  BY DEF AnyInv, HitInv, FirstHitIsCycle
<1> QED
  BY <1>1, AnyInvariant, PTL

(* The two notions of a cycle: Detection's and the contract's. *)
LEMMA SameCycles ==
    ThreadCycle <=> \E S \in SUBSET Threads : S # {} /\ \A n \in S : waits_for[n] \cap S # {}
<1>1. ASSUME NEW S \in SUBSET Threads, NEW n \in S
      PROVE  (\E m \in S : <<n, m>> \in ThreadEdges) <=> waits_for[n] \cap S # {}
  <2>1. ASSUME NEW m \in S
        PROVE  <<n, m>> \in ThreadEdges <=> m \in waits_for[n]
    <3>1. <<n, m>> \in Threads \X Threads /\ <<n, m>>[1] = n /\ <<n, m>>[2] = m
      OBVIOUS
    <3> QED
      BY <3>1 DEF ThreadEdges
  <2> QED
    BY <2>1
<1>2. ThreadCycle <=> \E S \in (SUBSET Threads) \ {{}} :
                          \A n \in S : \E m \in S : <<n, m>> \in ThreadEdges
  BY DEF ThreadCycle, Cyclic
<1>3. ASSUME NEW S \in SUBSET Threads
      PROVE  (\A n \in S : \E m \in S : <<n, m>> \in ThreadEdges)
                <=> \A n \in S : waits_for[n] \cap S # {}
  BY <1>1
<1> QED
  BY <1>2, <1>3

(* A pass that ends without a finding has searched the whole graph.        *)
THEOREM AnyMissMeansAcyclic == AnySpec => []MissMeansAcyclic
<1>1. AnyInv => MissMeansAcyclic
  BY EndIsAcyclic, SameCycles DEF AnyInv, MissMeansAcyclic
<1> QED
  BY <1>1, AnyInvariant, PTL

(* The part of a closed walk that goes round is a walk of waiting threads. *)
LEMMA LoopIsWalk ==
    ASSUME TypeOK, NEW c \in Seq(Threads), ClosedWalk(c)
    PROVE  \E first \in 1..(Len(c) - 1) :
              /\ Loop(c) = {c[i] : i \in first..Len(c)}
              /\ c[first] = c[Len(c)]
              /\ \A i \in first..Len(c) : c[i] \in wait_keys
<1> DEFINE L == Len(c)
           First(i) == c[i] = c[Len(c)] /\ \A j \in 1..(i - 1) : c[j] # c[i]
           T == {i \in 1..L : c[i] = c[L]}
<1>1. L \in Nat /\ \A i \in 1..L : c[i] \in Threads
  BY LenProperties, ElementOfSeq
<1>2. PICK i \in 1..(L - 1) : c[i] = c[L]
  BY DEF ClosedWalk
<1>3. i \in T /\ T \in SUBSET Nat /\ i < L
  BY <1>1, <1>2
<1>4. PICK x \in T : \A y \in T : x <= y
  BY <1>3, LeastOf
<1>5. x \in 1..L /\ First(x)
  <2>1. \A j \in 1..(x - 1) : j \in 1..L /\ ~ x <= j
    BY <1>1, <1>4
  <2> QED
    BY <1>4, <2>1
<1> HIDE DEF First
<1>6. PICK first \in 1..L : First(first) /\ first = CHOOSE j \in 1..L : First(j)
  BY <1>5
<1>7. Loop(c) = {c[j] : j \in first..Len(c)}
  BY <1>6 DEF Loop, First
<1>8. first <= i
  <2>1. ~ i < first
    <3> SUFFICES ASSUME i < first PROVE FALSE
      OBVIOUS
    <3>1. i \in 1..(first - 1)
      BY <1>1, <1>2, <1>6
    <3> QED
      BY <1>2, <1>6, <3>1 DEF First
  <2> QED
    BY <1>1, <1>2, <1>6, <2>1
<1>9. first \in 1..(L - 1) /\ c[first] = c[L]
  BY <1>1, <1>2, <1>6, <1>8 DEF First
<1>10. ASSUME NEW j \in 1..(L - 1)
       PROVE  c[j] \in wait_keys
  <2>1. c[j + 1] \in waits_for[c[j]] /\ j \in 1..L
    BY <1>1, <1>10 DEF ClosedWalk
  <2> QED
    BY <1>1, <2>1 DEF TypeOK, KeysOK
<1>11. ASSUME NEW j \in first..L
       PROVE  c[j] \in wait_keys
  <2>1. CASE j = L
    BY <1>9, <1>10, <2>1
  <2>2. CASE j # L
    <3>1. j \in 1..(L - 1)
      BY <1>1, <1>9, <2>2
    <3> QED
      BY <1>10, <3>1
  <2> QED
    BY <2>1, <2>2
<1> QED
  BY <1>7, <1>9, <1>11

(* The first deadlock a pass finds is inside one group, since the search   *)
(* of the groups (find_group_cycles) came before it: in whatever order the *)
(* groups were formed (analyze_conflict_groups).                           *)
THEOREM AnyFirstHitInOneGroup == AnySpec => []FirstHitInOneGroup
<1>1. AnyInv => FirstHitInOneGroup
  <2> SUFFICES ASSUME AnyInv, mpc = "report", hits = 1,
                      NEW order \in Orders, ~ GroupCycle(order),
                      NEW t \in Loop(cycle), NEW u \in Loop(cycle)
               PROVE  analyze_conflict_groups(order)[t] = analyze_conflict_groups(order)[u]
    BY DEF FirstHitInOneGroup
  <2>1. TypeOK /\ cycle \in Seq(Threads) /\ ClosedWalk(cycle)
    BY DEF AnyInv, HitInv, DetectorTypes
  <2> DEFINE last == Len(cycle)
  <2>2. last \in Nat
    BY <2>1, LenProperties
  <2>3. PICK first \in 1..(last - 1) :
          /\ Loop(cycle) = {cycle[i] : i \in first..last}
          /\ cycle[first] = cycle[last]
          /\ \A i \in first..last : cycle[i] \in wait_keys
    BY <2>1, LoopIsWalk
  <2>4. first \in Nat /\ first < last
    BY <2>2
  <2>5. \A i \in first..(last - 1) : cycle[i + 1] \in waits_for[cycle[i]]
    <3>1. \A i \in first..(last - 1) : i \in 1..(last - 1)
      BY <2>2, <2>4
    <3> QED
      BY <2>1, <3>1 DEF ClosedWalk
  <2>6. PICK j \in first..last, k \in first..last : t = cycle[j] /\ u = cycle[k]
    BY <2>3
  <2> HIDE DEF last
  <2> QED
    BY <2>1, <2>2, <2>3, <2>4, <2>5, <2>6, CrossingMeansGroupCycle DEF TypeOK
<1> QED
  BY <1>1, AnyInvariant, PTL

-----------------------------------------------------------------------------
(* The maps.  They agree when the detector starts, and a resolution makes  *)
(* them part at its victim alone.                                          *)

NoSelfWait == \A t \in Threads : t \notin waits_for[t]

MapsInv == VictimInv /\ MapsPartAtVictims /\ NoSelfWait

LEMMA MapsStart == AnyInit => MapsInv
<1> SUFFICES ASSUME AnyInit PROVE MapsInv
  OBVIOUS
<1>1. VictimInv /\ NoSelfWait
  BY DEF AnyInit, MapsInit, DetectorInit, VictimInv, NoSelfWait
<1>2. \A t \in Threads : LockOf[t] \in Addrs /\ LockOf[t] # SharedLock
  BY LockAssumption
<1>3. PICK sharers \in SUBSET Threads :
        /\ thread_locks = [t \in Threads |-> {LockOf[t]} \cup
                                             (IF t \in sharers THEN {SharedLock} ELSE {})]
        /\ \E last \in IF sharers = {} THEN {NoThread} ELSE sharers :
             lock_owners = [a \in Addrs |->
                IF a = SharedLock THEN last
                ELSE IF \E t \in Threads : a = LockOf[t]
                THEN CHOOSE t \in Threads : a = LockOf[t] ELSE NoThread]
  BY DEF AnyInit, MapsInit
<1>4. ASSUME NEW a \in Addrs, NEW t \in Threads, lock_owners[a] = t
      PROVE  a \in thread_locks[t]
  <2>1. CASE a = SharedLock
    BY <1>3, <1>4, <2>1, NoThreadAssumption
  <2>2. CASE a # SharedLock
    <3>1. t = IF \E u \in Threads : a = LockOf[u]
              THEN CHOOSE u \in Threads : a = LockOf[u] ELSE NoThread
      BY <1>3, <1>4, <2>2
    <3>2. a = LockOf[t]
      BY <3>1, NoThreadAssumption
    <3> QED
      BY <1>3, <3>2
  <2> QED
    BY <2>1, <2>2
<1>5. ASSUME NEW t \in Threads, NEW o \in Threads, o \in waits_for[t]
      PROVE  wait_start_times[t] \cap thread_locks[o] # {}
  <2>1. LockOf[o] \in wait_start_times[t]
    BY <1>5 DEF AnyInit, MapsInit
  <2>2. LockOf[o] \in thread_locks[o]
    BY <1>3
  <2> QED
    BY <2>1, <2>2
<1> QED
  BY <1>1, <1>4, <1>5 DEF MapsInv, MapsPartAtVictims

(* A call recorded: a wait adds edges to owners, a wake a lock to its owner.*)
LEMMA RecordCallMaps ==
    ASSUME TypeOK, DetectorTypes, MapsInv, RecordCall
    PROVE  MapsPartAtVictims' /\ NoSelfWait'
<1>1. current \in Threads /\ UNCHANGED <<tracee, detected_deadlocks>>
  BY DEF DetectorTypes, RecordCall, records
<1>2. \A v : WasVictim(v)' <=> WasVictim(v)
  BY <1>1 DEF WasVictim, Alive
<1> USE DEF MapsInv, NoSelfWait
<1>3. CASE UNCHANGED maps
  BY <1>2, <1>3 DEF MapsPartAtVictims, maps
<1>4. CASE WaitStep(current)
  <2> DEFINE a == tracee[current].call.addr
             t == current
  <2>1. a \in Addrs
    BY <1>1, <1>4, CallAddr DEF WaitStep, WaitOps
  <2>2. /\ wait_start_times' = [wait_start_times EXCEPT ![t] = @ \cup {a}]
        /\ waits_for' = [waits_for EXCEPT ![t] = @ \cup ({lock_owners[a]} \ {NoThread, t})]
        /\ UNCHANGED <<thread_locks, lock_owners>>
    BY <1>4 DEF WaitStep, on_wait, NewEdges
  <2> HIDE DEF a
  <2>3. NoSelfWait'
    BY <1>1, <2>2 DEF TypeOK
  <2>4. ASSUME NEW u \in Threads, NEW o \in Threads, o \in waits_for'[u]
        PROVE  wait_start_times'[u] \cap thread_locks'[o] # {} \/ WasVictim(o)
    <3>0. wait_start_times[u] \subseteq wait_start_times'[u]
      BY <1>1, <2>2 DEF TypeOK
    <3>1. CASE o \in waits_for[u]
      BY <2>2, <3>0, <3>1 DEF MapsPartAtVictims
    <3>2. CASE o \notin waits_for[u]
      <4>1. u = t /\ o = lock_owners[a]
        BY <1>1, <2>2, <2>4, <3>2 DEF TypeOK
      <4>2. a \in wait_start_times'[u]
        BY <1>1, <2>2, <4>1 DEF TypeOK
      <4>3. a \in thread_locks'[o] \/ WasVictim(o)
        BY <2>1, <2>2, <4>1 DEF MapsPartAtVictims
      <4> QED
        BY <4>2, <4>3
    <3> QED
      BY <3>1, <3>2
  <2> QED
    BY <1>2, <2>2, <2>3, <2>4 DEF MapsPartAtVictims
<1>5. CASE WakeStep(current)
  <2> DEFINE a == tracee[current].call.addr
             t == current
  <2>1. CASE a \in JunkAddrs
    <3>1. UNCHANGED <<lock_owners, thread_locks, waits_for, wait_start_times>>
      BY <1>5, <2>1 DEF WakeStep, on_lock
    <3> QED
      BY <1>2, <3>1 DEF MapsPartAtVictims
  <2>2. CASE a \notin JunkAddrs
    <3>1. /\ lock_owners' = [lock_owners EXCEPT ![a] = t]
          /\ thread_locks' = [thread_locks EXCEPT ![t] = @ \cup {a}]
          /\ waits_for' = [u \in Threads |-> waits_for[u] \ {t}]
          /\ UNCHANGED wait_start_times
      BY <1>5, <2>2 DEF WakeStep, on_lock
    <3> HIDE DEF a
    <3>2. /\ \A u \in Threads : /\ waits_for'[u] \subseteq waits_for[u]
                                /\ thread_locks[u] \subseteq thread_locks'[u]
          /\ a \in thread_locks'[t]
      BY <1>1, <3>1 DEF TypeOK
    <3>3. \A b \in Addrs : lock_owners'[b] = IF b = a THEN t ELSE lock_owners[b]
      BY <3>1 DEF TypeOK
    <3> QED
      BY <1>2, <3>1, <3>2, <3>3 DEF MapsPartAtVictims
  <2> QED
    BY <2>1, <2>2
<1> QED
  BY <1>3, <1>4, <1>5, RecordCases

(* A resolution that erases the entries of v makes the maps part there.    *)
LEMMA ErasureMaps ==
    ASSUME TypeOK, MapsInv, NEW v, WasVictim(v)',
           \A u \in Threads : WasVictim(u) => WasVictim(u)',
           waits_for' = [waits_for EXCEPT ![v] = {}],
           thread_locks' = [thread_locks EXCEPT ![v] = {}],
           \A a \in Addrs : lock_owners'[a] \in {lock_owners[a], NoThread},
           UNCHANGED wait_start_times
    PROVE  MapsPartAtVictims' /\ NoSelfWait'
<1>1. \A u \in Threads : /\ waits_for'[u] \subseteq waits_for[u]
                        /\ u # v => thread_locks'[u] = thread_locks[u]
  BY DEF TypeOK
<1> QED
  BY <1>1, NoThreadAssumption DEF MapsInv, MapsPartAtVictims, NoSelfWait

LEMMA MapsStep ==
    ASSUME AnyInv, MapsInv, [AnyNext]_allvars
    PROVE  MapsInv'
<1>0. TypeOK /\ DetectorTypes
  BY DEF AnyInv
<1>1. ASSUME UNCHANGED <<waits_for, thread_locks, lock_owners, wait_start_times>>,
             \A u \in Threads : WasVictim(u) => WasVictim(u)'
      PROVE  MapsPartAtVictims' /\ NoSelfWait'
  BY <1>1 DEF MapsInv, MapsPartAtVictims, NoSelfWait
<1>2. ASSUME UNCHANGED <<maps, detector>>, NoneReturns
      PROVE  MapsInv'
  <2>1. UNCHANGED <<mpc, cycle, victim, detected_deadlocks>>
    BY <1>2 DEF detector, search, records
  <2>2. VictimInv'
    <3>1. SUFFICES ASSUME mpc = "shadow" PROVE VictimOf(cycle, victim)'
      BY <2>1 DEF VictimInv
    <3>2. VictimOf(cycle, victim)
      BY <3>1 DEF MapsInv, VictimInv
    <3>3. ASSUME NEW c, NEW v, c = cycle, v = victim
          PROVE  VictimOf(c, v)'
      BY <1>0, <1>2, <3>2, <3>3, VictimsStay DEF DetectorTypes
    <3> QED
      BY <2>1, <3>3 DEF VictimOf
  <2>3. \A u \in Threads : WasVictim(u) => WasVictim(u)'
    BY <1>0, <1>2, <2>1, WasVictimStays
  <2> QED
    BY <1>1, <1>2, <2>2, <2>3 DEF MapsInv, maps
<1>3. tracee \in [Threads -> Tracees] /\ Zombie.phase # "user"
  BY <1>0 DEF TypeOK, Zombie
<1>4. ASSUME NEW t \in Threads, NEW tr, tracee' = [tracee EXCEPT ![t] = tr],
             tracee[t].phase # "dead"
      PROVE  NoneReturns
  BY <1>3, <1>4 DEF NoneReturns, Alive
<1>5. ASSUME NEW t \in Threads, Call(t)
      PROVE  MapsInv'
  <2>1. PICK call \in Calls : EnterCall(t, call)
    BY <1>5 DEF Call
  <2> QED
    BY <1>2, <1>4, <1>5, <2>1 DEF Call, EnterCall
<1>6. ASSUME NEW t \in Threads, Environment(t)
      PROVE  MapsInv'
  <2>1. UNCHANGED <<maps, detector>> /\ NoneReturns
    BY <1>4, <1>6 DEF Environment, KernelReturn, Die
  <2> QED
    BY <1>2, <2>1
<1>7. CASE MainLoop
  <2>1. VictimInv' /\ NoneReturns /\ \A v : WasVictim(v) => WasVictim(v)'
    BY <1>0, <1>7, VictimStep, LoopNoneReturns, VictimsStayVictims DEF MapsInv
  <2>2. CASE RecordCall
    BY <1>0, <2>1, <2>2, RecordCallMaps DEF MapsInv
  <2>3. CASE FinishStrategy1
    <3>1. WasVictim(victim)'
      <4>1. VictimOf(cycle, victim) /\ Recorded(TRUE)
        BY <2>3 DEF FinishStrategy1, MapsInv, VictimInv
      <4>2. ASSUME NEW v, v = victim
            PROVE  WasVictim(v)'
        BY <1>0, <2>1, <4>1, <4>2, RecordedVictim
      <4>3. victim' = victim
        BY <2>3 DEF FinishStrategy1
      <4> QED
        BY <4>2, <4>3 DEF WasVictim
    <3>2. PICK v : v = victim /\ WasVictim(v)'
      <4>1. victim' = victim
        BY <2>3 DEF FinishStrategy1
      <4> QED
        BY <3>1, <4>1 DEF WasVictim
    <3>3. \A a \in Addrs : lock_owners'[a] \in {lock_owners[a], NoThread}
      BY <2>3 DEF FinishStrategy1
    <3>4. /\ waits_for' = [waits_for EXCEPT ![v] = {}]
          /\ thread_locks' = [thread_locks EXCEPT ![v] = {}]
          /\ UNCHANGED wait_start_times
      BY <2>3, <3>2 DEF FinishStrategy1
    <3> QED
      BY <1>0, <2>1, <3>2, <3>3, <3>4, ErasureMaps DEF MapsInv
  <2>4. CASE EmergencyBreak
    <3>1. PICK v \in Victims :
            /\ waits_for' = [waits_for EXCEPT ![v] = {}]
            /\ thread_locks' = [thread_locks EXCEPT ![v] = {}]
            /\ \A a \in Addrs : lock_owners'[a] \in {lock_owners[a], NoThread}
      BY <2>4 DEF EmergencyBreak
    <3>2. Recorded(TRUE) /\ UNCHANGED wait_start_times
      BY <2>4 DEF EmergencyBreak
    <3>3. VictimOf(cycle, v)
      BY <1>0, <3>1, VictimsAreFirst
    <3>4. WasVictim(v)'
      BY <1>0, <2>1, <3>2, <3>3, RecordedVictim
    <3> QED
      BY <1>0, <2>1, <3>1, <3>2, <3>4, ErasureMaps DEF MapsInv
  <2>5. CASE UNCHANGED maps
    BY <1>1, <2>1, <2>5 DEF maps, MapsInv
  <2>6. RecordCall \/ FinishStrategy1 \/ EmergencyBreak \/ UNCHANGED maps
    BY <1>7, SearchReads DEF MainLoop, TakeStop, TakeExit, Collect, ResumeThread, Crash,
       Resolution, GroupNameFails, GroupDeadlock, NobodyToResolve, NameFails, StartStrategy1,
       ShadowFails, EmergencyNameFails, EmergencyFails
  <2> QED
    BY <2>2, <2>3, <2>4, <2>5, <2>6
<1>8. CASE UNCHANGED allvars
  BY <1>2, <1>8 DEF allvars, vars, NoneReturns, Alive
<1> QED
  BY <1>5, <1>6, <1>7, <1>8 DEF AnyNext

LEMMA MapsInvariant == AnySpec => []MapsInv
  BY MapsStart, MapsStep, AnyInvariant, PTL DEF AnySpec

(* The maps agree with each other but for what a resolution left of its    *)
(* victim: on_lock and on_wait keep them so on the remains, too.           *)
THEOREM AnyMapsPartAtVictims == AnySpec => []MapsPartAtVictims
  BY MapsInvariant, PTL DEF MapsInv

(* Every search of the groups starts from maps GroupInit of GroupSearch    *)
(* admits: of their types and without a thread that waits for itself.      *)
LEMMA SearchesStartTyped ==
    AnySpec => [](mpc = "detect" => TypeOK /\ \A t \in Threads : t \notin waits_for[t])
<1>1. AnyInv /\ MapsInv => (mpc = "detect" => TypeOK /\ \A t \in Threads : t \notin waits_for[t])
  BY DEF AnyInv, MapsInv, NoSelfWait
<1> QED
  BY <1>1, AnyInvariant, MapsInvariant, PTL

-----------------------------------------------------------------------------
(* The pass implements the contract of a search.                           *)

Going == {"roots", "dfs", "report", "shadow", "emergency"}

LEMMA ContractStart == AnyInv /\ AnyInit => Contract!ContractInit
  BY DEF AnyInit, DetectorInit, AnyInv, TypeOK, PassAnswer, Contract!ContractInit,
     Contract!Graphs

(* What a pass knows when it has searched. *)
LEMMA KnownAnswer ==
    AnyInv => /\ mpc = "roots" /\ roots = {} /\ hits = 0 => ~ Contract!HasCycle(waits_for)
              /\ mpc = "report" /\ hits = 1 => Contract!HasCycle(waits_for)
<1> SUFFICES ASSUME AnyInv
             PROVE  /\ mpc = "roots" /\ roots = {} /\ hits = 0 => ~ Contract!HasCycle(waits_for)
                    /\ mpc = "report" /\ hits = 1 => Contract!HasCycle(waits_for)
  OBVIOUS
<1>1. mpc = "roots" /\ roots = {} /\ hits = 0 => ~ Contract!HasCycle(waits_for)
  BY EndIsAcyclic DEF AnyInv, Contract!HasCycle
<1>2. mpc = "report" /\ hits = 1 => Contract!HasCycle(waits_for)
  BY WalkHasLoop DEF AnyInv, HitInv, DetectorTypes, Contract!HasCycle
<1> QED
  BY <1>1, <1>2

(* A step that leaves the graph alone and opens nothing that was answered. *)
LEMMA AnswerStep ==
    ASSUME AnyInv, AnyInv', UNCHANGED waits_for,
           \/ PassAnswer' = PassAnswer
           \/ PassAnswer = "open" /\ PassAnswer' = "acyclic"
           \/ PassAnswer = "open" /\ PassAnswer' = "cyclic" /\ mpc' = "report" /\ hits' = 1
           \/ PassAnswer' = "open"
    PROVE  [Contract!ContractNext]_(Contract!contract)
<1>1. CASE PassAnswer' = PassAnswer
  BY <1>1 DEF Contract!contract
<1>2. CASE PassAnswer = "open" /\ PassAnswer' = "acyclic"
  <2>1. ~ Contract!HasCycle(waits_for)
    <3>1. (mpc = "roots" /\ roots = {} /\ hits = 0 => ~ Contract!HasCycle(waits_for))'
      BY KnownAnswer, PTL
    <3>2. (mpc = "roots" /\ roots = {} /\ ~ hits > 0)'
      BY <1>2 DEF PassAnswer
    <3>3. hits' = 0
      BY <3>2 DEF AnyInv, DetectorTypes
    <3> QED
      BY <3>1, <3>2, <3>3 DEF Contract!HasCycle
  <2> QED
    BY <1>2, <2>1 DEF Contract!ContractNext, Contract!Answer
<1>3. CASE PassAnswer = "open" /\ PassAnswer' = "cyclic" /\ mpc' = "report" /\ hits' = 1
  <2>1. (mpc = "report" /\ hits = 1 => Contract!HasCycle(waits_for))'
    BY KnownAnswer, PTL
  <2>2. Contract!HasCycle(waits_for)
    BY <1>3, <2>1 DEF Contract!HasCycle
  <2> QED
    BY <1>3, <2>2 DEF Contract!ContractNext, Contract!Answer
<1>4. CASE PassAnswer' = "open" /\ PassAnswer # "open"
  BY <1>4 DEF Contract!ContractNext, Contract!Close
<1> QED
  BY <1>1, <1>2, <1>3, <1>4

LEMMA ContractStep ==
    ASSUME AnyInv, AnyInv', [AnyNext]_allvars
    PROVE  [Contract!ContractNext]_(Contract!contract)
<1> USE DEF Going
<1>0. hits \in Nat /\ (hits > 0 <=> hits # 0)
  BY DEF AnyInv, DetectorTypes
<1>1. ASSUME UNCHANGED waits_for, mpc' \notin Going
      PROVE  [Contract!ContractNext]_(Contract!contract)
  <2>1. PassAnswer' = "open"
    BY <1>1 DEF PassAnswer
  <2> QED
    BY <1>1, <2>1, AnswerStep
<1>2. ASSUME UNCHANGED <<waits_for, detector>>
      PROVE  [Contract!ContractNext]_(Contract!contract)
  BY <1>2, AnswerStep DEF PassAnswer, detector, search
<1>3. ASSUME mpc \in Going, mpc' \in Going, hits > 0, hits' = hits, UNCHANGED waits_for
      PROVE  [Contract!ContractNext]_(Contract!contract)
  <2>1. PassAnswer' = PassAnswer
    BY <1>3 DEF PassAnswer
  <2> QED
    BY <1>3, <2>1, AnswerStep
<1>4. ASSUME UNCHANGED waits_for, ~ (mpc = "roots" /\ roots = {}), hits' = 0,
             mpc \notin Going \/ hits = 0, mpc' \in {"roots", "dfs"}
      PROVE  [Contract!ContractNext]_(Contract!contract)
  <2>1. PassAnswer = "open" /\ PassAnswer' \in {"open", "acyclic"}
    BY <1>0, <1>4 DEF PassAnswer
  <2> QED
    BY <1>4, <2>1, AnswerStep
<1>5. CASE BeginPass
  BY <1>4, <1>5 DEF BeginPass, maps
<1>6. ASSUME NEW t \in Threads, NextRoot(t) \/ Descend(t) \/ Skip(t)
      PROVE  [Contract!ContractNext]_(Contract!contract)
  <2>1. /\ mpc \in {"roots", "dfs"} /\ mpc' \in {"roots", "dfs"} /\ hits' = hits
        /\ UNCHANGED waits_for
        /\ ~ (mpc = "roots" /\ roots = {})
    BY <1>6 DEF NextRoot, Descend, Skip, maps
  <2> QED
    BY <1>0, <1>3, <1>4, <2>1
<1>7. CASE Backtrack
  <2>1. mpc = "dfs" /\ mpc' \in {"roots", "dfs"} /\ hits' = hits /\ UNCHANGED waits_for
    BY <1>7 DEF Backtrack, maps
  <2> QED
    BY <1>0, <1>3, <1>4, <2>1
<1>8. ASSUME NEW t \in Threads, CloseCycle(t)
      PROVE  [Contract!ContractNext]_(Contract!contract)
  <2>1. mpc = "dfs" /\ mpc' = "report" /\ hits' = hits + 1 /\ UNCHANGED waits_for
    BY <1>8 DEF CloseCycle, maps
  <2>2. hits' > 0 /\ (hits = 0 => hits' = 1)
    BY <1>0, <2>1
  <2>3. PassAnswer' = "cyclic" /\ PassAnswer = IF hits > 0 THEN "cyclic" ELSE "open"
    BY <2>1, <2>2 DEF PassAnswer
  <2> QED
    BY <1>0, <2>1, <2>2, <2>3, AnswerStep
<1>9. CASE EndPass
  BY <1>1, <1>9 DEF EndPass, maps
<1>10. CASE RecordCall
  <2>1. mpc \notin Going /\ mpc' \notin Going
    BY <1>10 DEF RecordCall
  <2>2. PassAnswer = "open" /\ PassAnswer' = "open"
    BY <2>1 DEF PassAnswer
  <2>3. waits_for' \in Contract!Graphs
    BY DEF AnyInv, TypeOK, Contract!Graphs
  <2> QED
    BY <2>2, <2>3 DEF Contract!ContractNext, Contract!Record
<1>11. ASSUME NEW t \in Threads, TakeStop(t)
       PROVE  [Contract!ContractNext]_(Contract!contract)
  BY <1>1, <1>11 DEF TakeStop, maps
<1>12. CASE \/ ResumeThread \/ Crash \/ GroupNameFails \/ GroupDeadlock \/ NameFails
            \/ EmergencyNameFails
  BY <1>1, <1>12 DEF ResumeThread, Crash, GroupNameFails, GroupDeadlock, NameFails,
     EmergencyNameFails, maps
<1>13. CASE KnownCycle \/ NobodyToResolve \/ StartStrategy1 \/ ShadowFails \/ EmergencyFails
  <2>1. /\ mpc \in {"report", "shadow", "emergency"} /\ mpc' \in Going /\ hits' = hits
        /\ UNCHANGED waits_for
    BY <1>13 DEF KnownCycle, NobodyToResolve, StartStrategy1, ShadowFails, EmergencyFails,
       search, maps
  <2> QED
    BY <1>3, <2>1 DEF AnyInv, HitInv
<1>14. CASE FinishStrategy1 \/ EmergencyBreak
  <2>1. /\ mpc \in {"shadow", "emergency"} /\ hits' = hits
        /\ mpc' \in {"roots", "resume", "crashed"}
        /\ \E v \in Owners : waits_for' = [waits_for EXCEPT ![v] = {}]
    BY <1>14, VictimsAreThreads
       DEF FinishStrategy1, EmergencyBreak, AfterErase, AnyInv, DetectorTypes, Owners
  <2>2. PassAnswer = "cyclic" /\ PassAnswer' \in {"cyclic", "open"}
    BY <2>1 DEF AnyInv, HitInv, PassAnswer
  <2>3. waits_for' \in Contract!Graphs /\ \A n \in Threads : waits_for'[n] \subseteq waits_for[n]
    BY <2>1 DEF AnyInv, TypeOK, Contract!Graphs
  <2> QED
    BY <2>2, <2>3 DEF Contract!ContractNext, Contract!Resolve
<1>17. ASSUME NEW t \in Threads, TakeExit(t)
       PROVE  [Contract!ContractNext]_(Contract!contract)
  BY <1>2, <1>17 DEF TakeExit, Collect, maps
<1>15. CASE MainLoop
  BY <1>5, <1>6, <1>7, <1>8, <1>9, <1>10, <1>11, <1>12, <1>13, <1>14, <1>15, <1>17
     DEF MainLoop, Search, Resolution
<1>16. CASE (\E t \in Threads : Call(t) \/ Environment(t)) \/ UNCHANGED allvars
  BY <1>2, <1>16 DEF Call, EnterCall, Environment, KernelReturn, Die, allvars, vars, maps
<1> QED
  BY <1>15, <1>16 DEF AnyNext

(* A pass over the threads implements the contract of a search: it answers *)
(* once, its answer is right about the whole graph, no call is recorded    *)
(* while it runs, and a resolution only removes edges.                     *)
THEOREM PassImplementsContract == AnySpec => PassKeepsContract
<1>1. AnyInv /\ AnyInit => Contract!ContractInit
  BY ContractStart
<1>2. AnyInv /\ AnyInv' /\ [AnyNext]_allvars => [Contract!ContractNext]_(Contract!contract)
  BY ContractStep
<1> QED
  BY <1>1, <1>2, AnyInvariant, PTL DEF AnySpec, PassKeepsContract, Contract!ContractSpec

-----------------------------------------------------------------------------
(* The bookkeeping inside the main loop.  Until a deadlock is recorded the *)
(* thread whose stop is handled stays in it, unless it dies.               *)

WorkInv ==
    detected_deadlocks = <<>> =>
        /\ mpc \in Handling \cup {"wait", "handle"}
        /\ mpc # "wait" => tracee[current].phase \in {"entry", "exit", "zombie"}

(* The search, and what a resolution does before it records something,     *)
(* leave maps and threads alone.                                           *)
Quiet ==
    /\ mpc \in Handling /\ mpc' \in Handling
    /\ UNCHANGED <<maps, tracee, current>>

LEMMA UnrecordedSteps ==
    ASSUME DetectorTypes, WorkInv, MainLoop, detected_deadlocks' = <<>>
    PROVE  /\ detected_deadlocks = <<>>
           /\ \/ \E t \in Threads : TakeStop(t) \/ TakeExit(t)
              \/ RecordCall \/ ResumeThread \/ Quiet
<1>1. ASSUME NEW r \in BOOLEAN, Recorded(r)
      PROVE  FALSE
  <2>1. Len(detected_deadlocks') = Len(detected_deadlocks) + 1
    BY <1>1, RecordedTypes
  <2>2. Len(detected_deadlocks) \in Nat
    BY LenProperties DEF DetectorTypes
  <2>3. Len(detected_deadlocks') = 0
    BY EmptySeq
  <2> QED
    BY <2>1, <2>2, <2>3
<1>2. ASSUME NEW t \in Threads, TakeStop(t) \/ TakeExit(t)
      PROVE  detected_deadlocks = <<>>
  BY <1>2 DEF TakeStop, TakeExit, detector, records
<1>3. CASE RecordCall \/ ResumeThread
  BY <1>3 DEF RecordCall, ResumeThread, records
<1>4. CASE Search
  <2>1. detected_deadlocks = <<>>
    BY <1>4 DEF Search, BeginPass, NextRoot, Descend, Skip, CloseCycle, Backtrack, EndPass,
       KnownCycle, records
  <2>2. mpc \in Handling /\ mpc' \in Handling /\ UNCHANGED current
    BY <1>4 DEF Search, BeginPass, NextRoot, Descend, Skip, CloseCycle, Backtrack, EndPass,
       KnownCycle, Handling
  <2> QED
    BY <1>4, <2>1, <2>2, SearchReads DEF Quiet
<1>5. CASE GroupNameFails \/ GroupDeadlock \/ NameFails \/ EmergencyNameFails
  <2>1. UNCHANGED <<maps, tracee, current, detected_deadlocks>>
    BY <1>5 DEF GroupNameFails, GroupDeadlock, NameFails, EmergencyNameFails, records
  <2>2. mpc \in Handling /\ mpc' \in Handling
    BY <1>5 DEF GroupNameFails, GroupDeadlock, NameFails, EmergencyNameFails, Handling
  <2> QED
    BY <2>1, <2>2 DEF Quiet
<1>6. CASE StartStrategy1 \/ ShadowFails
  <2>1. UNCHANGED <<maps, tracee, current, detected_deadlocks>>
    BY <1>6 DEF StartStrategy1, ShadowFails
  <2>2. mpc \in Handling /\ mpc' \in Handling
    BY <1>6 DEF StartStrategy1, ShadowFails, Handling
  <2> QED
    BY <2>1, <2>2 DEF Quiet
<1>7. CASE NobodyToResolve \/ EmergencyFails \/ FinishStrategy1 \/ EmergencyBreak
  BY <1>1, <1>7 DEF NobodyToResolve, EmergencyFails, FinishStrategy1, EmergencyBreak
<1>8. CASE Crash
  <2>1. detected_deadlocks = <<>> /\ mpc = "crashed"
    BY <1>8 DEF Crash, records
  <2> QED
    BY <2>1 DEF WorkInv, Handling
<1> QED
  BY <1>2, <1>3, <1>4, <1>5, <1>6, <1>7, <1>8 DEF MainLoop, Resolution

(* Nothing outside the monitor moves a thread out of a stop but its death. *)
LEMMA WorkStep == AnyInv /\ WorkInv /\ [AnyNext]_allvars => WorkInv'
<1> SUFFICES ASSUME AnyInv, WorkInv, [AnyNext]_allvars, detected_deadlocks' = <<>>
             PROVE  /\ mpc' \in Handling \cup {"wait", "handle"}
                    /\ mpc' # "wait" => tracee'[current'].phase \in {"entry", "exit", "zombie"}
  BY DEF WorkInv, Handling
<1>0. DetectorTypes /\ current \in Threads /\ tracee \in [Threads -> Tracees]
  BY DEF AnyInv, DetectorTypes, TypeOK
<1>1. ASSUME NEW t \in Threads, NEW tr, tracee' = [tracee EXCEPT ![t] = tr], UNCHANGED detector,
             tracee[t].phase \in {"user", "kernel"} \/ tr = Zombie
      PROVE  /\ mpc' \in Handling \cup {"wait", "handle"}
             /\ mpc' # "wait" => tracee'[current'].phase \in {"entry", "exit", "zombie"}
  <2>1. UNCHANGED <<mpc, current, detected_deadlocks>>
    BY <1>1 DEF detector, records
  <2>2. /\ mpc \in Handling \cup {"wait", "handle"}
        /\ mpc # "wait" => tracee[current].phase \in {"entry", "exit", "zombie"}
    BY <2>1 DEF WorkInv
  <2>3. mpc # "wait" => tracee'[current] = tracee[current] \/ tracee'[current] = Zombie
    BY <1>0, <1>1, <2>2
  <2> QED
    BY <2>1, <2>2, <2>3 DEF Zombie
<1>2. ASSUME NEW t \in Threads, Call(t)
      PROVE  /\ mpc' \in Handling \cup {"wait", "handle"}
             /\ mpc' # "wait" => tracee'[current'].phase \in {"entry", "exit", "zombie"}
  <2>1. PICK call \in Calls : EnterCall(t, call)
    BY <1>2 DEF Call
  <2> QED
    BY <1>1, <1>2, <2>1 DEF Call, EnterCall
<1>3. ASSUME NEW t \in Threads, Environment(t)
      PROVE  /\ mpc' \in Handling \cup {"wait", "handle"}
             /\ mpc' # "wait" => tracee'[current'].phase \in {"entry", "exit", "zombie"}
  <2>1. UNCHANGED detector
    BY <1>3 DEF Environment
  <2>2. CASE Die(t)
    BY <1>1, <2>1, <2>2 DEF Die
  <2>3. CASE KernelReturn(t)
    <3>1. tracee' = [tracee EXCEPT ![t] = [@ EXCEPT !.phase = "exit"]]
      BY <2>3 DEF KernelReturn
    <3> QED
      BY <1>1, <2>1, <2>3, <3>1 DEF KernelReturn
  <2> QED
    BY <1>3, <2>2, <2>3 DEF Environment
<1>4. CASE MainLoop
  <2>1. /\ detected_deadlocks = <<>>
        /\ \/ \E t \in Threads : TakeStop(t) \/ TakeExit(t)
           \/ RecordCall \/ ResumeThread \/ Quiet
    BY <1>0, <1>4, UnrecordedSteps
  <2>2. /\ mpc \in Handling \cup {"wait", "handle"}
        /\ mpc # "wait" => tracee[current].phase \in {"entry", "exit", "zombie"}
    BY <2>1 DEF WorkInv
  <2>3. ASSUME NEW t \in Threads, TakeStop(t)
        PROVE  mpc' = "handle" /\ tracee'[current'].phase \in {"entry", "exit", "zombie"}
    BY <2>3 DEF TakeStop, Stopped
  <2>4. CASE RecordCall
    BY <2>2, <2>4 DEF RecordCall, Handling
  <2>5. CASE ResumeThread
    BY <2>5 DEF ResumeThread
  <2>6. CASE Quiet
    BY <2>2, <2>6 DEF Quiet, Handling
  <2>7. ASSUME NEW t \in Threads, TakeExit(t)
        PROVE  mpc' = "wait"
    BY <2>7 DEF TakeExit, detector
  <2> QED
    BY <2>1, <2>3, <2>4, <2>5, <2>6, <2>7
<1>5. CASE UNCHANGED allvars
  BY <1>5 DEF allvars, vars, detector, records, WorkInv
<1> QED
  BY <1>2, <1>3, <1>4, <1>5 DEF AnyNext

LEMMA WorkInvariant == AnySpec => []WorkInv
<1>1. AnyInit => WorkInv
  BY DEF AnyInit, DetectorInit, WorkInv
<1> QED
  BY <1>1, WorkStep, AnyInvariant, PTL DEF AnySpec

(* The handler, read with the threads of the bookkeeping, is the handler.  *)
LEMMA SameHandler ==
    ASSUME NEW t \in Threads, AtOnce[t] = tracee[t]
    PROVE  handle_syscall(t) => Bookkeeping!handle_syscall(t)
<1>1. \A u, a : on_wait(u, a) <=> Bookkeeping!on_wait(u, a)
  BY DEF on_wait, NewEdges, Bookkeeping!on_wait, Bookkeeping!NewEdges
<1>2. \A u, a, fw : on_lock(u, a, fw) <=> Bookkeeping!on_lock(u, a, fw)
  BY DEF on_lock, Unlisted, Bookkeeping!on_lock, Bookkeeping!Unlisted
<1>3. \A a : on_wake(a) = Bookkeeping!on_wake(a)
  BY DEF on_wake, Bookkeeping!on_wake
<1>4. WaitOps = Bookkeeping!WaitOps /\ (UNCHANGED maps <=> UNCHANGED Bookkeeping!maps)
  BY DEF WaitOps, Bookkeeping!WaitOps, maps, Bookkeeping!maps
<1>5. CASE tracee[t].call.op \in WaitOps /\ on_wait(t, tracee[t].call.addr)
  BY <1>1, <1>4, <1>5 DEF Bookkeeping!handle_syscall
<1>6. CASE /\ tracee[t].call.op = "WAKE" /\ UNCHANGED wait_start_times
           /\ on_lock(t, tracee[t].call.addr, on_wake(tracee[t].call.addr))
  BY <1>2, <1>3, <1>6 DEF Bookkeeping!handle_syscall
<1>7. CASE /\ \/ tracee[t].call.op = "OTHER"
              \/ tracee[t].call.op \in WaitOps /\ tracee[t].call.addr \in JunkAddrs
           /\ UNCHANGED maps
  BY <1>4, <1>7 DEF Bookkeeping!handle_syscall
<1> QED
  BY <1>5, <1>6, <1>7 DEF handle_syscall

(* Where the threads of the bookkeeping differ from the threads. *)
LEMMA AtOnceIs ==
    ASSUME tracee \in [Threads -> Tracees]
    PROVE  /\ \A t \in Threads : AtOnce[t] = IF t = current /\ mpc \in Handling /\ Stopped(t)
                                             THEN Resumed(tracee[t]) ELSE tracee[t]
           /\ \A t \in Threads : tracee[t].phase \in {"user", "kernel", "zombie", "dead"}
                                  => AtOnce[t] = tracee[t]
           /\ \A t \in Threads : tracee[t].phase \notin {"zombie", "dead"}
                                  => AtOnce[t].phase \notin {"zombie", "dead"}
<1>1. \A t \in Threads : AtOnce[t] = IF t = current /\ mpc \in Handling /\ Stopped(t)
                                    THEN Resumed(tracee[t]) ELSE tracee[t]
  BY DEF AtOnce
<1>2. ASSUME NEW t \in Threads, Stopped(t)
      PROVE  Resumed(tracee[t]).phase \notin {"zombie", "dead"}
  <2>1. tracee[t] \in [phase : Phases, call : Calls]
    BY DEF Tracees
  <2>2. tracee[t].phase = "entry" => Resumed(tracee[t]).phase = "kernel"
    BY <2>1 DEF Resumed
  <2>3. tracee[t].phase # "entry" => Resumed(tracee[t]).phase = "user"
    BY DEF Resumed, Idle
  <2> QED
    BY <2>2, <2>3
<1> QED
  BY <1>1, <1>2 DEF Stopped

(* A step that moves one running thread, or ends one, moves it alone.      *)
LEMMA OneMoves ==
    ASSUME AnyInv, WorkInv, detected_deadlocks' = <<>>, UNCHANGED <<maps, detector>>,
           NEW t \in Threads, NEW tr \in Tracees, tracee' = [tracee EXCEPT ![t] = tr],
           tracee[t].phase \in {"user", "kernel"} \/ tr = Zombie
    PROVE  AtOnce' = [AtOnce EXCEPT ![t] = tr]
<1>0. tracee \in [Threads -> Tracees] /\ tracee' \in [Threads -> Tracees]
  BY DEF AnyInv, TypeOK
<1>1. mpc' = mpc /\ current' = current /\ detected_deadlocks = <<>>
  BY DEF detector, records
<1>2. /\ AtOnce' = [u \in Threads |-> AtOnce'[u]]
      /\ AtOnce = [u \in Threads |-> AtOnce[u]]
  BY DEF AtOnce
<1>3. ASSUME NEW u \in Threads, u # t
      PROVE  AtOnce'[u] = AtOnce[u]
  <2>1. tracee'[u] = tracee[u]
    BY <1>0, <1>3
  <2> QED
    BY <1>1, <2>1 DEF AtOnce, Stopped
<1>4. AtOnce'[t] = tr
  <2>1. tracee'[t] = tr
    BY <1>0
  <2>2. AtOnce'[t] = IF t = current /\ mpc \in Handling /\ tr.phase \in {"entry", "exit"}
                     THEN Resumed(tr) ELSE tr
    BY <1>1, <2>1 DEF AtOnce, Stopped
  <2>3. ~ (t = current /\ mpc \in Handling /\ tr.phase \in {"entry", "exit"})
    BY <1>1 DEF WorkInv, Handling, Zombie
  <2> QED
    BY <2>2, <2>3
<1> HIDE DEF AtOnce
<1> QED
  BY <1>2, <1>3, <1>4

(* Every step, until something is recorded, is one of the bookkeeping.     *)
LEMMA AtOnceStep ==
    ASSUME AnyInv, WorkInv, [AnyNext]_allvars, detected_deadlocks' = <<>>
    PROVE  [Bookkeeping!Next]_(Bookkeeping!vars)
<1>0. tracee \in [Threads -> Tracees] /\ DetectorTypes /\ current \in Threads
  BY DEF AnyInv, TypeOK, DetectorTypes
<1>1. ASSUME UNCHANGED maps, AtOnce' = AtOnce
      PROVE  [Bookkeeping!Next]_(Bookkeeping!vars)
  BY <1>1 DEF Bookkeeping!vars, Bookkeeping!maps, maps
<1>2. ASSUME NEW t \in Threads, NEW call \in Calls, EnterCall(t, call), UNCHANGED detector
      PROVE  [Bookkeeping!Next]_(Bookkeeping!vars)
  <2>1. [phase |-> "entry", call |-> call] \in Tracees
    BY DEF Tracees, Phases
  <2>2. tracee[t].phase = "user" /\ UNCHANGED maps
    BY <1>2 DEF EnterCall
  <2>3. AtOnce' = [AtOnce EXCEPT ![t] = [phase |-> "entry", call |-> call]]
    BY <1>2, <2>1, <2>2, OneMoves DEF EnterCall
  <2>4. AtOnce[t].phase = "user"
    BY <1>0, <2>2, AtOnceIs
  <2>5. Bookkeeping!EnterCall(t, call)
    BY <2>2, <2>3, <2>4 DEF Bookkeeping!EnterCall, Bookkeeping!maps, maps
  <2>6. call \in Bookkeeping!Calls
    BY DEF Calls, FutexOps, WaitOps, OtherCall,
       Bookkeeping!Calls, Bookkeeping!FutexOps, Bookkeeping!WaitOps, Bookkeeping!OtherCall
  <2> QED
    BY <2>5, <2>6 DEF Bookkeeping!Next
<1>3. ASSUME NEW t \in Threads, KernelReturn(t), UNCHANGED detector
      PROVE  [Bookkeeping!Next]_(Bookkeeping!vars)
  <2>1. tracee[t].phase = "kernel" /\ UNCHANGED maps
    BY <1>3 DEF KernelReturn
  <2>2. tracee' = [tracee EXCEPT ![t] = [tracee[t] EXCEPT !.phase = "exit"]]
    BY <1>3 DEF KernelReturn
  <2>3. [tracee[t] EXCEPT !.phase = "exit"] \in Tracees
    BY <1>0 DEF Tracees, Phases
  <2>4. AtOnce' = [AtOnce EXCEPT ![t] = [tracee[t] EXCEPT !.phase = "exit"]]
    BY <1>3, <2>1, <2>2, <2>3, OneMoves
  <2>5. AtOnce[t] = tracee[t]
    BY <1>0, <2>1, AtOnceIs
  <2>6. AtOnce' = [AtOnce EXCEPT ![t].phase = "exit"]
    BY <2>4, <2>5
  <2>7. Bookkeeping!KernelReturn(t)
    BY <2>1, <2>5, <2>6 DEF Bookkeeping!KernelReturn, Bookkeeping!maps, maps
  <2> QED
    BY <2>7 DEF Bookkeeping!Next
<1>4. ASSUME NEW t \in Threads, Die(t), UNCHANGED detector
      PROVE  [Bookkeeping!Next]_(Bookkeeping!vars)
  <2>1. Zombie \in Tracees
    BY DeadTypes
  <2>2. tracee[t].phase \notin {"zombie", "dead"} /\ UNCHANGED maps
    BY <1>4 DEF Die
  <2>3. AtOnce' = [AtOnce EXCEPT ![t] = Zombie]
    BY <1>4, <2>1, <2>2, OneMoves DEF Die
  <2>4. AtOnce[t].phase \notin {"zombie", "dead"}
    BY <1>0, <2>2, AtOnceIs
  <2>5. Zombie = Bookkeeping!Zombie
    BY DEF Zombie, OtherCall, Bookkeeping!Zombie, Bookkeeping!OtherCall
  <2>6. Bookkeeping!Die(t)
    BY <2>2, <2>3, <2>4, <2>5 DEF Bookkeeping!Die, Bookkeeping!maps, maps
  <2> QED
    BY <2>6 DEF Bookkeeping!Next
<1>12. ASSUME NEW t \in Threads, TakeExit(t)
       PROVE  [Bookkeeping!Next]_(Bookkeeping!vars)
  <2>1. /\ mpc = "wait" /\ mpc' = "wait" /\ UNCHANGED maps
        /\ tracee[t].phase = "zombie" /\ tracee' = [tracee EXCEPT ![t] = Dead]
    BY <1>12 DEF TakeExit, Collect, detector
  <2>2. AtOnce = [u \in Threads |-> tracee[u]] /\ AtOnce' = [u \in Threads |-> tracee'[u]]
    BY <2>1 DEF AtOnce, Handling
  <2>3. AtOnce = tracee /\ AtOnce' = tracee'
    BY <1>0, <2>1, <2>2
  <2>4. Dead = Bookkeeping!Dead
    BY DEF Dead, OtherCall, Bookkeeping!Dead, Bookkeeping!OtherCall
  <2>5. Bookkeeping!Collect(t)
    BY <2>1, <2>3, <2>4 DEF Bookkeeping!Collect, Bookkeeping!maps, maps
  <2> QED
    BY <2>5 DEF Bookkeeping!Next
<1>5. ASSUME NEW t \in Threads, TakeStop(t)
      PROVE  [Bookkeeping!Next]_(Bookkeeping!vars)
  <2>1. mpc = "wait" /\ mpc' = "handle" /\ UNCHANGED <<maps, tracee>>
    BY <1>5 DEF TakeStop
  <2>2. AtOnce = [u \in Threads |-> tracee[u]] /\ AtOnce' = [u \in Threads |-> tracee[u]]
    BY <2>1 DEF AtOnce, Handling
  <2> QED
    BY <1>1, <2>1, <2>2
<1>6. CASE Quiet
  <2>1. mpc \in Handling /\ mpc' \in Handling /\ UNCHANGED <<maps, tracee, current>>
    BY <1>6 DEF Quiet
  <2>2. AtOnce' = AtOnce
    BY <2>1 DEF AtOnce, Stopped
  <2> QED
    BY <1>1, <2>1, <2>2
<1>7. CASE ResumeThread
  <2>1. /\ mpc = "resume" /\ mpc' = "wait" /\ UNCHANGED <<maps, current>>
        /\ tracee' = IF Stopped(current) THEN [tracee EXCEPT ![current] = Resumed(@)] ELSE tracee
    BY <1>7 DEF ResumeThread
  <2>2. \A u \in Threads : tracee'[u] = IF u = current /\ Stopped(u) THEN Resumed(tracee[u])
                                        ELSE tracee[u]
    BY <1>0, <2>1
  <2>3. AtOnce' = [u \in Threads |-> tracee'[u]]
    BY <2>1 DEF AtOnce, Handling
  <2>4. AtOnce = [u \in Threads |-> IF u = current /\ Stopped(u) THEN Resumed(tracee[u])
                                    ELSE tracee[u]]
    BY <2>1 DEF AtOnce, Handling
  <2>5. AtOnce' = AtOnce
    BY <2>2, <2>3, <2>4
  <2> QED
    BY <1>1, <2>1, <2>5
<1>8. CASE RecordCall
  <2>1. mpc = "handle" /\ UNCHANGED <<tracee, current>> /\ mpc' \in Handling
    BY <1>8 DEF RecordCall, Handling
  <2>2. \A u \in Threads : AtOnce[u] = tracee[u]
    BY <2>1 DEF AtOnce, Handling
  <2>3. CASE Stopped(current)
    <3>1. Bookkeeping!handle_syscall(current)
      BY <1>0, <1>8, <2>2, <2>3, SameHandler DEF RecordCall
    <3>2. \A u \in Threads : AtOnce'[u] = IF u = current THEN Resumed(AtOnce[u]) ELSE AtOnce[u]
      BY <2>1, <2>2, <2>3 DEF AtOnce, Stopped
    <3>3. AtOnce' = [AtOnce EXCEPT ![current] = Resumed(@)]
      <4>1. AtOnce' = [u \in Threads |-> AtOnce'[u]] /\ AtOnce = [u \in Threads |-> AtOnce[u]]
        BY DEF AtOnce
      <4> HIDE DEF AtOnce
      <4> QED
        BY <1>0, <3>2, <4>1
    <3>4. Bookkeeping!Stopped(current)
      BY <1>0, <2>2, <2>3 DEF Stopped, Bookkeeping!Stopped
    <3>5. \A tr : Resumed(tr) = Bookkeeping!Resumed(tr)
      BY DEF Resumed, Idle, OtherCall,
         Bookkeeping!Resumed, Bookkeeping!Idle, Bookkeeping!OtherCall
    <3>6. Bookkeeping!HandleStop(current)
      BY <3>1, <3>3, <3>4, <3>5 DEF Bookkeeping!HandleStop
    <3> QED
      BY <1>0, <3>6 DEF Bookkeeping!Next
  <2>4. CASE ~ Stopped(current)
    <3>1. UNCHANGED maps
      BY <1>8, <2>4 DEF RecordCall
    <3>2. AtOnce' = AtOnce
      BY <2>1, <2>4 DEF AtOnce, Stopped, Handling
    <3> QED
      BY <1>1, <3>1, <3>2
  <2> QED
    BY <2>3, <2>4
<1>9. CASE \E t \in Threads : Call(t) \/ Environment(t)
  BY <1>2, <1>3, <1>4, <1>9 DEF Call, Environment
<1>10. CASE MainLoop
  BY <1>0, <1>5, <1>6, <1>7, <1>8, <1>10, <1>12, UnrecordedSteps
<1>11. CASE UNCHANGED allvars
  <2>1. UNCHANGED <<maps, tracee, mpc, current>>
    BY <1>11 DEF allvars, vars, detector
  <2>2. AtOnce' = AtOnce
    BY <2>1 DEF AtOnce, Stopped
  <2> QED
    BY <1>1, <2>1, <2>2
<1> QED
  BY <1>9, <1>10, <1>11 DEF AnyNext

(* An iteration of the main loop implements the one step the bookkeeping   *)
(* takes for a stop, until a deadlock is recorded: what the other threads  *)
(* and the handled one do meanwhile makes no difference to the maps        *)
(* (handle_event, resume_tid).                                             *)
THEOREM StopsAreHandledAtOnce == AnySpec => HandledAtOnce
<1>1. AnyInv /\ WorkInv /\ [AnyNext]_allvars
        => [detected_deadlocks' = <<>> => [Bookkeeping!Next]_(Bookkeeping!vars)]_allvars
  BY AtOnceStep
<1> QED
  BY <1>1, AnyInvariant, WorkInvariant, PTL DEF AnySpec, HandledAtOnce

=============================================================================
