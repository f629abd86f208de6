------------------------- MODULE InterceptorProofs -------------------------
(* Proofs about the monitor and a program that takes locks by a plan, for  *)
(* every set of threads, every plan and every number of rounds.            *)
EXTENDS Interceptor, DetectionProofs, FiniteSetTheorems

-----------------------------------------------------------------------------
(* The program.                                                            *)

(* A thread takes the locks of its plan while it is not unwinding, and     *)
(* releases one it has while it is.                                        *)
ProgramTypes ==
    /\ avail \in [Addrs -> BOOLEAN]
    /\ taken \in [Threads -> Nat]
    /\ rounds \in [Threads -> Nat]
    /\ \A t \in Threads :
         /\ t \in unwinding => taken[t] >= 1 /\ rounds[t] < Rounds /\ t \notin slow
         /\ t \notin unwinding => taken[t] < Len(Plan[t])

(* No two threads hold the same lock. *)
Exclusion == \A t, u \in Threads : t # u => held(t) \cap held(u) = {}

LockInv == ProgramTypes /\ Exclusion /\ ProgramTypeOK

LEMMA PlanFacts ==
    ASSUME NEW t \in Threads
    PROVE  /\ Len(Plan[t]) \in Nat \ {0}
           /\ \A i \in 1..Len(Plan[t]) : Plan[t][i] \in Addrs \ JunkAddrs
           /\ \A i, j \in 1..Len(Plan[t]) : Plan[t][i] = Plan[t][j] => i = j
<1>1. Plan[t] \in Seq(Addrs \ JunkAddrs) /\ Plan[t] # <<>> /\ IsInjective(Plan[t])
  BY PlanAssumption
<1>2. /\ Len(Plan[t]) \in Nat \ {0} /\ DOMAIN Plan[t] = 1..Len(Plan[t])
      /\ \A i \in 1..Len(Plan[t]) : Plan[t][i] \in Addrs \ JunkAddrs
  BY <1>1, EmptySeq, LenProperties, ElementOfSeq
<1> QED
  BY <1>1, <1>2 DEF IsInjective

(* The lock a thread is about to take. *)
LEMMA WantIsNext ==
    ASSUME LockInv, NEW t \in Threads, t \notin unwinding
    PROVE  /\ taken[t] + 1 \in 1..Len(Plan[t])
           /\ want(t) \in Addrs \ JunkAddrs
           /\ want(t) \notin held(t)
<1>1. taken[t] \in Nat /\ taken[t] < Len(Plan[t]) /\ Len(Plan[t]) \in Nat
  BY PlanFacts DEF LockInv, ProgramTypes
<1>2. taken[t] + 1 \in 1..Len(Plan[t])
  BY <1>1
<1>3. \A i \in 1..taken[t] : i \in 1..Len(Plan[t]) /\ i # taken[t] + 1
  BY <1>1
<1> QED
  BY <1>2, <1>3, PlanFacts DEF want, held

(* ... and the last lock it has taken. *)
LEMMA LastTaken ==
    ASSUME LockInv, NEW t \in Threads, t \in unwinding
    PROVE  /\ taken[t] \in Nat \ {0} /\ taken[t] <= Len(Plan[t]) /\ taken[t] \in 1..Len(Plan[t])
           /\ Plan[t][taken[t]] \in Addrs \ JunkAddrs
           /\ Plan[t][taken[t]] \in held(t)
           /\ held(t) \ {Plan[t][taken[t]]} = {Plan[t][i] : i \in 1..(taken[t] - 1)}
<1>1. taken[t] \in Nat \ {0} /\ taken[t] <= Len(Plan[t]) /\ Len(Plan[t]) \in Nat
  BY PlanFacts DEF LockInv, ProgramTypes, ProgramTypeOK
<1>2. taken[t] \in 1..Len(Plan[t]) /\ taken[t] \in 1..taken[t]
  BY <1>1
<1>3. \A i \in 1..(taken[t] - 1) : i \in 1..taken[t] /\ i \in 1..Len(Plan[t]) /\ i # taken[t]
  BY <1>1
<1>4. \A i \in 1..taken[t] : i \in 1..(taken[t] - 1) \/ i = taken[t]
  BY <1>1
<1>5. held(t) \ {Plan[t][taken[t]]} = {Plan[t][i] : i \in 1..(taken[t] - 1)}
  BY <1>2, <1>3, <1>4, PlanFacts DEF held
<1> QED
  BY <1>1, <1>2, <1>5, PlanFacts DEF held

LEMMA AcquireLocks ==
    ASSUME LockInv, NEW t \in Threads, Acquire(t), t \notin asleep, UNCHANGED ptracing
    PROVE  LockInv'
<1> DEFINE w == want(t)
<1>1. /\ t \notin unwinding /\ rounds[t] < Rounds /\ avail[w]
      /\ avail' = [avail EXCEPT ![w] = FALSE]
      /\ taken' = [taken EXCEPT ![t] = @ + 1]
      /\ unwinding' = IF taken'[t] = Len(Plan[t]) THEN unwinding \cup {t} ELSE unwinding
      /\ slow' = slow \ {t} /\ asleep' = asleep /\ rounds' = rounds
      /\ attached' = attached /\ tids' = tids
  BY DEF Acquire, Acquiring, TakeLock, ptracing
<1>2. /\ taken[t] \in Nat /\ taken[t] + 1 \in 1..Len(Plan[t]) /\ Len(Plan[t]) \in Nat
      /\ w \in Addrs /\ w \notin held(t)
  BY <1>1, WantIsNext, PlanFacts DEF LockInv, ProgramTypes
<1>3. taken'[t] = taken[t] + 1 /\ \A u \in Threads : u # t => taken'[u] = taken[u]
  BY <1>1 DEF LockInv, ProgramTypes
<1>4. held(t)' = held(t) \cup {w} /\ \A u \in Threads : u # t => held(u)' = held(u)
  <2>1. 1..(taken[t] + 1) = (1..taken[t]) \cup {taken[t] + 1}
    BY <1>2
  <2> QED
    BY <1>3, <2>1 DEF held, want
<1>5. \A u \in Threads : w \notin held(u)
  BY <1>1, <1>2 DEF LockInv, ProgramTypeOK
<1>6. ProgramTypes'
  BY <1>1, <1>2, <1>3 DEF LockInv, ProgramTypes
<1>7. Exclusion'
  BY <1>4, <1>5 DEF LockInv, Exclusion
<1>8. ASSUME NEW a \in Addrs
      PROVE  avail'[a] <=> \A u \in Threads : a \notin held(u)'
  <2>1. CASE a = w
    BY <1>1, <1>2, <1>4, <2>1 DEF LockInv, ProgramTypes
  <2>2. CASE a # w
    <3>1. avail'[a] = avail[a]
      BY <1>1, <2>2 DEF LockInv, ProgramTypes
    <3>2. avail[a] <=> \A u \in Threads : a \notin held(u)
      BY DEF LockInv, ProgramTypeOK
    <3> QED
      BY <1>4, <2>2, <3>1, <3>2
  <2> QED
    BY <2>1, <2>2
<1>9. \A u \in Threads : taken'[u] \in 0..Len(Plan[u]) /\ rounds'[u] \in 0..Rounds
  BY <1>1, <1>2, <1>3 DEF LockInv, ProgramTypeOK
<1>10. /\ slow' \subseteq Threads /\ asleep' \subseteq slow' /\ unwinding' \subseteq Threads
       /\ attached' \subseteq Threads /\ tids' \subseteq Threads
  BY <1>1 DEF LockInv, ProgramTypeOK
<1> QED
  BY <1>6, <1>7, <1>8, <1>9, <1>10 DEF LockInv, ProgramTypeOK

LEMMA ReleaseLocks ==
    ASSUME LockInv, NEW t \in Threads, Release(t), UNCHANGED ptracing
    PROVE  LockInv'
<1> DEFINE a == Plan[t][taken[t]]
<1>1. /\ t \in unwinding
      /\ avail' = [avail EXCEPT ![a] = TRUE]
      /\ taken' = [taken EXCEPT ![t] = @ - 1]
      /\ IF taken[t] = 1
         THEN unwinding' = unwinding \ {t} /\ rounds' = [rounds EXCEPT ![t] = @ + 1]
         ELSE unwinding' = unwinding /\ rounds' = rounds
      /\ slow' = slow /\ asleep' = asleep
      /\ attached' = attached /\ tids' = tids
  BY DEF Release, ptracing
<1>2. /\ taken[t] \in Nat \ {0} /\ taken[t] <= Len(Plan[t]) /\ Len(Plan[t]) \in Nat
      /\ a \in Addrs /\ a \in held(t)
      /\ held(t) \ {a} = {Plan[t][i] : i \in 1..(taken[t] - 1)}
      /\ rounds[t] < Rounds /\ rounds[t] \in Nat /\ t \notin slow /\ Rounds \in Nat
  BY <1>1, LastTaken, PlanFacts, BoundAssumption DEF LockInv, ProgramTypes
<1>3. /\ taken'[t] = taken[t] - 1
      /\ \A u \in Threads : u # t => taken'[u] = taken[u] /\ rounds'[u] = rounds[u]
      /\ rounds'[t] = IF taken[t] = 1 THEN rounds[t] + 1 ELSE rounds[t]
  BY <1>1 DEF LockInv, ProgramTypes
<1>4. held(t)' = held(t) \ {a} /\ \A u \in Threads : u # t => held(u)' = held(u)
  BY <1>2, <1>3 DEF held
<1>5. \A u \in Threads : u # t => a \notin held(u)
  BY <1>2 DEF LockInv, Exclusion
<1>6. ProgramTypes'
  <2>1. avail' \in [Addrs -> BOOLEAN]
    BY <1>1 DEF LockInv, ProgramTypes
  <2>2. taken' \in [Threads -> Nat] /\ rounds' \in [Threads -> Nat]
    BY <1>1, <1>2 DEF LockInv, ProgramTypes
  <2>3. ASSUME NEW u \in Threads
        PROVE  /\ u \in unwinding' => taken'[u] >= 1 /\ rounds'[u] < Rounds /\ u \notin slow'
               /\ u \notin unwinding' => taken'[u] < Len(Plan[u])
    BY <1>1, <1>2, <1>3 DEF LockInv, ProgramTypes
  <2> QED
    BY <2>1, <2>2, <2>3 DEF ProgramTypes
<1>7. Exclusion'
  BY <1>4 DEF LockInv, Exclusion
<1>8. ASSUME NEW b \in Addrs
      PROVE  avail'[b] <=> \A u \in Threads : b \notin held(u)'
  <2>1. CASE b = a
    BY <1>1, <1>2, <1>4, <1>5, <2>1 DEF LockInv, ProgramTypes
  <2>2. CASE b # a
    <3>1. avail'[b] = avail[b]
      BY <1>1, <2>2 DEF LockInv, ProgramTypes
    <3>2. avail[b] <=> \A u \in Threads : b \notin held(u)
      BY DEF LockInv, ProgramTypeOK
    <3> QED
      BY <1>4, <2>2, <3>1, <3>2
  <2> QED
    BY <2>1, <2>2
<1>9. \A u \in Threads : taken'[u] \in 0..Len(Plan[u]) /\ rounds'[u] \in 0..Rounds
  BY <1>1, <1>2, <1>3 DEF LockInv, ProgramTypeOK
<1>10. /\ slow' \subseteq Threads /\ asleep' \subseteq slow' /\ unwinding' \subseteq Threads
       /\ attached' \subseteq Threads /\ tids' \subseteq Threads
  BY <1>1 DEF LockInv, ProgramTypeOK
<1> QED
  BY <1>6, <1>7, <1>8, <1>9, <1>10 DEF LockInv, ProgramTypeOK

(* A step that leaves the locks alone, but for the threads asleep or       *)
(* counted as waiters, and for what ptrace traces.                         *)
LEMMA OtherLocks ==
    ASSUME LockInv, UNCHANGED <<avail, taken, unwinding, rounds>>,
           slow \subseteq slow', slow' \subseteq Threads \ unwinding, asleep' \subseteq slow',
           attached' \subseteq Threads, tids' \subseteq Threads
    PROVE  LockInv'
<1>1. \A t \in Threads : held(t)' = held(t)
  BY DEF held
<1>2. ProgramTypes' /\ Exclusion'
  BY <1>1 DEF LockInv, ProgramTypes, Exclusion
<1>3. ProgramTypeOK'
  BY <1>1 DEF LockInv, ProgramTypeOK
<1> QED
  BY <1>2, <1>3 DEF LockInv

-----------------------------------------------------------------------------
(* The calls of the program.  A thread in a wait call has counted itself   *)
(* as a waiter for the lock it wants, and the kernel's sleepers are in     *)
(* such a call.                                                            *)

CallOK(t) ==
    /\ tracee[t].call.op \in {"OTHER", "WAIT_BITSET", "WAKE"}
    /\ tracee[t].call.op = "WAIT_BITSET" =>
          t \in slow /\ t \notin unwinding /\ tracee[t].call.addr = want(t)
    /\ tracee[t].phase \in {"user", "zombie", "dead"} => tracee[t].call = OtherCall
    /\ t \in asleep => \/ tracee[t].phase \in {"zombie", "dead"}
                       \/ tracee[t].phase = "kernel" /\ tracee[t].call.op = "WAIT_BITSET"

CallInv == \A t \in Threads : CallOK(t)

(* The address of a wait call was recorded. *)
Timed(t) == tracee[t].call.op = "WAIT_BITSET" => tracee[t].call.addr \in wait_start_times[t]

(* A traced thread in a wait call was handled before it was resumed, but   *)
(* for the victims of resolutions.  The thread whose stop is handled stays *)
(* stopped, unless a resolution resumes or kills it.                       *)
KernelTimed == \A t \in attached : tracee[t].phase = "kernel" => Timed(t) \/ WasVictim(t)

Handling ==
    /\ mpc = "handle" => Stopped(current)
    /\ mpc \notin {"wait", "handle", "detach", "gone"} =>
          \/ Stopped(current) /\ Timed(current)
          \/ WasVictim(current)
          \/ tracee[current].phase \in {"zombie", "dead"}

TimedInv == KernelTimed /\ Handling

SysProgramInv == TypeOK /\ DetectorTypes /\ LockInv /\ CallInv

LEMMA CallTypes ==
    ASSUME TypeOK, NEW t \in Threads
    PROVE  /\ tracee[t] \in [phase : Phases, call : Calls]
           /\ Returned(t) \in Tracees
           /\ \A p \in Phases, c \in Calls : [phase |-> p, call |-> c] \in Tracees
<1>1. tracee[t] \in [phase : Phases, call : Calls]
  BY DEF TypeOK, Tracees
<1>2. Idle \in Tracees
  BY DEF Idle, Tracees, Phases, Calls
<1>3. [tracee[t] EXCEPT !.phase = "exit"] \in Tracees
  BY <1>1 DEF Tracees, Phases
<1> QED
  BY <1>1, <1>2, <1>3 DEF Returned, Tracees

(* A step of the program: the monitor's records stay, no traced thread is  *)
(* resumed, no stop ends and nobody comes back.                            *)
ProgramKeeps ==
    /\ tracee' \in [Threads -> Tracees]
    /\ LockInv' /\ CallInv'
    /\ UNCHANGED maps
    /\ \A u \in attached : tracee'[u].phase = "kernel" => tracee'[u] = tracee[u]
    /\ \A u \in Threads : tracee[u].phase \notin {"user", "kernel"} => tracee'[u] = tracee[u]

LEMMA EnterWait ==
    ASSUME SysProgramInv, NEW t \in Threads, CallWait(t), UNCHANGED ptracing
    PROVE  ProgramKeeps
<1> DEFINE c == [op |-> "WAIT_BITSET", addr |-> want(t)]
           p == IF t \in attached THEN "entry" ELSE "kernel"
<1>1. /\ t \notin unwinding /\ t \in slow /\ tracee[t].phase = "user"
      /\ tracee' = [tracee EXCEPT ![t] = [phase |-> p, call |-> c]]
      /\ UNCHANGED maps /\ UNCHANGED locks
  BY DEF CallWait, Acquiring, Running, Enters
<1>2. c \in Calls /\ p \in Phases /\ c.op = "WAIT_BITSET" /\ c.addr = want(t)
  BY <1>1, WantIsNext DEF SysProgramInv, Calls, FutexOps, WaitOps, Phases
<1>3. tracee' \in [Threads -> Tracees]
  BY <1>1, <1>2, CallTypes DEF SysProgramInv, TypeOK
<1>4. /\ tracee'[t].phase = p /\ tracee'[t].call = c
      /\ \A u \in Threads : u # t => tracee'[u] = tracee[u]
  BY <1>1 DEF SysProgramInv, TypeOK
<1>5. LockInv'
  BY <1>1, OtherLocks DEF SysProgramInv, LockInv, ProgramTypes, ProgramTypeOK, locks, ptracing
<1>6. \A u \in Threads : want(u)' = want(u)
  BY <1>1 DEF want, locks
<1>7. t \notin asleep /\ attached \subseteq Threads
  BY <1>1 DEF SysProgramInv, CallInv, CallOK, LockInv, ProgramTypeOK
<1>8. p # "user" /\ p # "zombie" /\ p # "dead" /\ (t \in attached => p # "kernel")
  OBVIOUS
<1> HIDE DEF c, p
<1>9. CallInv'
  BY <1>1, <1>2, <1>4, <1>6, <1>7, <1>8 DEF SysProgramInv, CallInv, CallOK, locks
<1> QED
  BY <1>1, <1>3, <1>4, <1>5, <1>7, <1>8, <1>9 DEF ProgramKeeps

LEMMA NoCall ==
    ASSUME SysProgramInv, NEW t \in Threads, Acquire(t) \/ Contend(t), UNCHANGED ptracing
    PROVE  ProgramKeeps
<1>1. /\ t \notin unwinding /\ tracee[t].phase = "user" /\ tracee[t].call = OtherCall
      /\ t \notin asleep
  BY DEF Acquire, Contend, Acquiring, Running, SysProgramInv, CallInv, CallOK
<1>2. UNCHANGED <<maps, tracee>>
  BY DEF Acquire, TakeLock, Contend
<1>3. ASSUME Acquire(t)
      PROVE  LockInv' /\ CallInv'
  <2>1. LockInv'
    BY <1>1, <1>3, AcquireLocks DEF SysProgramInv
  <2>2. /\ \A u \in Threads : u # t => want(u)' = want(u)
        /\ slow' = slow \ {t} /\ asleep' = asleep /\ unwinding' \subseteq unwinding \cup {t}
    BY <1>3 DEF Acquire, TakeLock, want, SysProgramInv, LockInv, ProgramTypes
  <2>3. OtherCall.op = "OTHER"
    BY DEF OtherCall
  <2> QED
    BY <1>1, <1>2, <2>1, <2>2, <2>3 DEF SysProgramInv, CallInv, CallOK
<1>4. ASSUME Contend(t)
      PROVE  LockInv' /\ CallInv'
  <2>1. slow' = slow \cup {t} /\ UNCHANGED <<avail, asleep, taken, unwinding, rounds>>
    BY <1>4 DEF Contend
  <2>2. LockInv'
    BY <1>1, <2>1, OtherLocks DEF SysProgramInv, LockInv, ProgramTypes, ProgramTypeOK, ptracing
  <2>3. \A u \in Threads : want(u)' = want(u)
    BY <2>1 DEF want
  <2> QED
    BY <1>2, <2>1, <2>2, <2>3 DEF SysProgramInv, CallInv, CallOK
<1> QED
  BY <1>2, <1>3, <1>4 DEF ProgramKeeps, SysProgramInv, TypeOK

LEMMA ReleaseCall ==
    ASSUME SysProgramInv, NEW t \in Threads, Release(t), UNCHANGED ptracing
    PROVE  ProgramKeeps
<1> DEFINE a == Plan[t][taken[t]]
           c == [op |-> "WAKE", addr |-> a]
           p == IF t \in attached THEN "entry" ELSE "kernel"
<1>1. /\ t \in unwinding /\ tracee[t].phase = "user" /\ tracee[t].call = OtherCall
      /\ t \notin asleep /\ t \notin slow
  BY DEF Release, Running, SysProgramInv, CallInv, CallOK, LockInv, ProgramTypes
<1>2. /\ \/ tracee' = [tracee EXCEPT ![t] = [phase |-> p, call |-> c]]
         \/ tracee' = tracee
      /\ UNCHANGED <<maps, slow, asleep>>
      /\ unwinding' \subseteq unwinding
      /\ taken' = [taken EXCEPT ![t] = @ - 1]
  BY DEF Release, Enters
<1>3. c \in Calls /\ p \in Phases
  BY <1>1, LastTaken DEF SysProgramInv, Calls, FutexOps, WaitOps, Phases
<1>4. tracee' \in [Threads -> Tracees]
  <2>1. [phase |-> p, call |-> c] \in Tracees
    BY <1>3, CallTypes DEF SysProgramInv
  <2>2. tracee \in [Threads -> Tracees]
    BY DEF SysProgramInv, TypeOK
  <2> QED
    BY <1>2, <2>1, <2>2
<1>5. /\ \/ tracee'[t].phase = p /\ tracee'[t].call = c
         \/ tracee'[t] = tracee[t]
      /\ \A u \in Threads : u # t => tracee'[u] = tracee[u] /\ want(u)' = want(u)
  BY <1>2 DEF SysProgramInv, TypeOK, want, LockInv, ProgramTypes
<1>6. LockInv'
  BY ReleaseLocks DEF SysProgramInv
<1>7. /\ c.op = "WAKE" /\ OtherCall.op = "OTHER"
      /\ p # "user" /\ p # "zombie" /\ p # "dead" /\ (t \in attached => p # "kernel")
      /\ attached \subseteq Threads
  BY DEF OtherCall, SysProgramInv, LockInv, ProgramTypeOK
<1> HIDE DEF c, p
<1>8. CallInv'
  BY <1>1, <1>2, <1>5, <1>7 DEF SysProgramInv, CallInv, CallOK
<1> QED
  BY <1>1, <1>2, <1>4, <1>5, <1>6, <1>7, <1>8 DEF ProgramKeeps

LEMMA SleepCall ==
    ASSUME SysProgramInv, NEW t \in Threads, Sleep(t), UNCHANGED ptracing
    PROVE  ProgramKeeps
<1>1. /\ tracee[t].phase = "kernel" /\ tracee[t].call.op = "WAIT_BITSET" /\ t \in slow
      /\ asleep' = asleep \cup {t} /\ UNCHANGED <<maps, tracee, avail, slow, taken, unwinding, rounds>>
  BY DEF Sleep, InKernel, SysProgramInv, CallInv, CallOK
<1>2. LockInv'
  BY <1>1, OtherLocks DEF SysProgramInv, LockInv, ProgramTypes, ProgramTypeOK, ptracing
<1>3. \A u \in Threads : want(u)' = want(u)
  BY <1>1 DEF want
<1>4. CallInv'
  BY <1>1, <1>3 DEF SysProgramInv, CallInv, CallOK
<1> QED
  BY <1>1, <1>2, <1>4 DEF ProgramKeeps, SysProgramInv, TypeOK

(* The kernel lets go of the threads in S, none of which sleeps any more.  *)
LEMMA KernelLetsGo ==
    ASSUME SysProgramInv, NEW S \in SUBSET Threads,
           \A u \in S : tracee[u].phase = "kernel",
           \A u \in Threads : tracee'[u] = IF u \in S THEN Returned(u) ELSE tracee[u],
           tracee' \in [Threads -> Tracees],
           asleep' = asleep \ S, UNCHANGED <<maps, avail, slow, taken, unwinding, rounds>>,
           UNCHANGED ptracing
    PROVE  ProgramKeeps
<1>1. LockInv'
  BY OtherLocks DEF SysProgramInv, LockInv, ProgramTypes, ProgramTypeOK, ptracing
<1>2. \A u \in Threads : want(u)' = want(u)
  BY DEF want
<1>3. ASSUME NEW u \in S
      PROVE  /\ u \notin asleep'
             /\ \/ tracee'[u].phase = "exit" /\ tracee'[u].call = tracee[u].call
                \/ tracee'[u].phase = "user" /\ tracee'[u].call = OtherCall
  <2>1. tracee[u] \in [phase : Phases, call : Calls]
    BY CallTypes DEF SysProgramInv
  <2>2. [tracee[u] EXCEPT !.phase = "exit"].phase = "exit"
        /\ [tracee[u] EXCEPT !.phase = "exit"].call = tracee[u].call
    BY <2>1
  <2>3. tracee'[u] = [tracee[u] EXCEPT !.phase = "exit"] \/ tracee'[u] = Idle
    BY DEF Returned
  <2>4. Idle.phase = "user" /\ Idle.call = OtherCall
    BY DEF Idle
  <2>5. tracee'[u] = Returned(u) /\ u \notin asleep'
    OBVIOUS
  <2> QED
    BY <2>2, <2>3, <2>4, <2>5
<1>4. ASSUME NEW t \in Threads
      PROVE  CallOK(t)'
  <2>1. CallOK(t) /\ OtherCall.op = "OTHER"
    BY DEF SysProgramInv, CallInv, OtherCall
  <2>2. CASE t \in S
    BY <1>2, <1>3, <2>1, <2>2 DEF CallOK
  <2>3. CASE t \notin S
    <3>1. tracee'[t] = tracee[t] /\ (t \in asleep' <=> t \in asleep)
      BY <2>3
    <3> QED
      BY <1>2, <2>1, <3>1 DEF CallOK
  <2> QED
    BY <2>2, <2>3
<1>5. CallInv'
  BY <1>4 DEF CallInv
<1>6. attached \subseteq Threads
  BY DEF SysProgramInv, LockInv, ProgramTypeOK
<1> QED
  BY <1>1, <1>3, <1>5, <1>6 DEF ProgramKeeps

LEMMA KernelCalls ==
    ASSUME SysProgramInv, NEW t \in Threads, WaitReturns(t) \/ Wake(t), UNCHANGED ptracing
    PROVE  ProgramKeeps
<1>0. tracee \in [Threads -> Tracees]
  BY DEF SysProgramInv, TypeOK
<1>1. ASSUME tracee[t].phase = "kernel", t \notin asleep,
             tracee' = [tracee EXCEPT ![t] = Returned(t)], UNCHANGED <<maps, locks>>
      PROVE  ProgramKeeps
  <2>1. tracee' \in [Threads -> Tracees]
    BY <1>0, <1>1, CallTypes DEF SysProgramInv
  <2>2. PICK S \in SUBSET Threads : S = {t}
    OBVIOUS
  <2>3. \A u \in Threads : tracee'[u] = IF u \in S THEN Returned(u) ELSE tracee[u]
    BY <1>0, <1>1, <2>2
  <2>4. asleep' = asleep \ S /\ UNCHANGED <<avail, slow, taken, unwinding, rounds>>
    BY <1>1, <2>2 DEF locks
  <2>5. \A u \in S : tracee[u].phase = "kernel"
    BY <1>1, <2>2
  <2>6. UNCHANGED <<maps, avail, slow, taken, unwinding, rounds>>
    BY <1>1, <2>4
  <2> QED
    BY <2>1, <2>3, <2>4, <2>5, <2>6, KernelLetsGo
<1>2. CASE WaitReturns(t)
  BY <1>1, <1>2 DEF WaitReturns, InKernel
<1>3. CASE Wake(t)
  <2>1. t \notin asleep /\ tracee[t].phase = "kernel" /\ tracee[t].call.op = "WAKE"
    BY <1>3 DEF Wake, InKernel, SysProgramInv, CallInv, CallOK
  <2>2. CASE tracee' = [tracee EXCEPT ![t] = Returned(t)] /\ UNCHANGED <<maps, locks>>
    BY <1>1, <2>1, <2>2
  <2>3. ASSUME NEW u \in asleep, tracee[u].call.addr = tracee[t].call.addr,
               tracee' = [tracee EXCEPT ![t] = Returned(t), ![u] = Returned(u)],
               asleep' = asleep \ {u},
               UNCHANGED <<maps, avail, slow, taken, unwinding, rounds>>
        PROVE  ProgramKeeps
    <3>1. u \in Threads /\ u # t
      BY <2>1, <2>3 DEF SysProgramInv, LockInv, ProgramTypeOK
    <3>2. Returned(t) \in Tracees /\ Returned(u) \in Tracees
      BY <3>1, CallTypes DEF SysProgramInv
    <3>3. tracee' \in [Threads -> Tracees]
      BY <1>0, <2>3, <3>2
    <3>4. \A v \in Threads : tracee'[v] = IF v \in {t, u} THEN Returned(v) ELSE tracee[v]
      BY <1>0, <2>3, <3>1
    <3>5. tracee[u].phase = "kernel"
      <4>1. tracee[t].call.addr \in Addrs
        BY <2>1, CallAddr DEF SysProgramInv
      <4>2. tracee[u].call # OtherCall
        BY <2>3, <4>1, NoAddrAssumption DEF OtherCall
      <4> QED
        BY <3>1, <4>2 DEF SysProgramInv, CallInv, CallOK
    <3>6. {t, u} \in SUBSET Threads /\ asleep' = asleep \ {t, u}
          /\ \A v \in {t, u} : tracee[v].phase = "kernel"
      BY <2>1, <2>3, <3>1, <3>5
    <3> QED
      BY <2>3, <3>3, <3>4, <3>6, KernelLetsGo
  <2> QED
    BY <1>3, <2>2, <2>3 DEF Wake
<1> QED
  BY <1>2, <1>3

LEMMA ProgramCalls ==
    ASSUME SysProgramInv, NEW t \in Threads, Program(t)
    PROVE  ProgramKeeps /\ UNCHANGED detector
<1>1. UNCHANGED detector /\ UNCHANGED ptracing
  BY DEF Program
<1>2. CASE Acquire(t) \/ Contend(t)
  BY <1>1, <1>2, NoCall
<1>3. CASE CallWait(t)
  BY <1>1, <1>3, EnterWait
<1>4. CASE Release(t)
  BY <1>1, <1>4, ReleaseCall
<1>5. CASE Sleep(t)
  BY <1>1, <1>5, SleepCall
<1>6. CASE WaitReturns(t) \/ Wake(t)
  BY <1>1, <1>6, KernelCalls
<1> QED
  BY <1>1, <1>2, <1>3, <1>4, <1>5, <1>6 DEF Program

(* Who was a victim stays one while records are kept and nobody returns. *)
LEMMA VictimsKept ==
    ASSUME DetectorTypes, NoneReturns, UNCHANGED detected_deadlocks
    PROVE  \A v : WasVictim(v) => WasVictim(v)'
<1> SUFFICES ASSUME NEW v, WasVictim(v) PROVE WasVictim(v)'
  OBVIOUS
<1> QED
  BY WasVictimStays

LEMMA ProgramTimed ==
    ASSUME SysProgramInv, TimedInv, VictimInv, ProgramKeeps, UNCHANGED <<detector, ptracing>>
    PROVE  TimedInv' /\ VictimInv'
<1>1. /\ UNCHANGED <<mpc, current, cycle, victim, detected_deadlocks, wait_start_times, attached>>
      /\ current \in Threads /\ attached \subseteq Threads /\ cycle \in Seq(Threads)
  BY DEF ProgramKeeps, detector, search, records, maps, ptracing, SysProgramInv, DetectorTypes,
     LockInv, ProgramTypeOK
<1>2. NoneReturns
  BY DEF NoneReturns, Alive, ProgramKeeps
<1>3. \A v : WasVictim(v) => WasVictim(v)'
  BY <1>1, <1>2, VictimsKept DEF SysProgramInv
<1>4. KernelTimed'
  BY <1>1, <1>3 DEF TimedInv, KernelTimed, ProgramKeeps, Timed
<1>5. tracee[current].phase \notin {"user", "kernel"} => tracee'[current] = tracee[current]
  BY <1>1 DEF ProgramKeeps
<1>6. Handling'
  BY <1>1, <1>3, <1>5 DEF TimedInv, Handling, Timed, Stopped
<1>7. VictimInv'
  <2> SUFFICES ASSUME VictimOf(cycle, victim) PROVE VictimOf(cycle, victim)'
    BY <1>1 DEF VictimInv
  <2>1. ASSUME NEW c \in Seq(Threads), NEW v, c = cycle, v = victim
        PROVE  VictimOf(c, v)'
    BY <1>2, <2>1, VictimsStay
  <2> QED
    BY <1>1, <2>1 DEF VictimOf, Alive
<1> QED
  BY <1>4, <1>6, <1>7 DEF TimedInv

-----------------------------------------------------------------------------
(* The monitor.                                                            *)

(* The main loop resumes stopped threads and kills; it does nothing else   *)
(* to a thread.                                                            *)
LEMMA MonitorTracee ==
    ASSUME TypeOK, DetectorTypes, MainLoop
    PROVE  \A t \in Threads : \/ tracee'[t] = tracee[t]
                              \/ Stopped(t) /\ tracee'[t] = Resumed(tracee[t])
                              \/ tracee'[t] \in {Zombie, Dead}
<1> DEFINE Kept == \A t \in Threads : \/ tracee'[t] = tracee[t]
                                      \/ Stopped(t) /\ tracee'[t] = Resumed(tracee[t])
                                      \/ tracee'[t] \in {Zombie, Dead}
<1> SUFFICES Kept
  OBVIOUS
<1>0. tracee \in [Threads -> Tracees]
  BY DEF TypeOK
<1>1. ASSUME tracee' = tracee
      PROVE  Kept
  BY <1>1
<1>2. ASSUME \A t \in Threads : tracee'[t] \in {tracee[t], Zombie, Dead}
      PROVE  Kept
  BY <1>2
<1>3. ASSUME NEW u \in Threads, Stopped(u), tracee' = [tracee EXCEPT ![u] = Resumed(@)]
      PROVE  Kept
  BY <1>0, <1>3
<1> HIDE DEF Kept
<1>4. CASE ResumeThread
  <2>1. \/ tracee' = tracee
        \/ Stopped(current) /\ tracee' = [tracee EXCEPT ![current] = Resumed(@)]
    BY <1>4 DEF ResumeThread
  <2>2. current \in Threads
    BY DEF DetectorTypes
  <2> QED
    BY <1>1, <1>3, <2>1, <2>2
<1>5. CASE FinishStrategy1
  <2>1. \/ tracee' = tracee
        \/ Stopped(victim) /\ tracee' = [tracee EXCEPT ![victim] = Resumed(@)]
    BY <1>5 DEF FinishStrategy1, Reattached
  <2>2. victim \in Threads \/ [tracee EXCEPT ![victim] = Resumed(@)] = tracee
    BY <1>0
  <2> QED
    BY <1>1, <1>3, <2>1, <2>2
<1>6. CASE EmergencyBreak \/ Crash
  BY <1>2, <1>6 DEF EmergencyBreak, Crash
<1>10. ASSUME NEW t \in Threads, TakeExit(t)
       PROVE  Kept
  BY <1>0, <1>2, <1>10 DEF TakeExit, Collect
<1>7. CASE Search
  BY <1>1, <1>7, SearchReads
<1>8. CASE RecordCall \/ \E t \in Threads : TakeStop(t)
  BY <1>1, <1>8 DEF RecordCall, TakeStop
<1>9. CASE \/ GroupNameFails \/ GroupDeadlock \/ NobodyToResolve \/ NameFails
           \/ StartStrategy1 \/ ShadowFails \/ EmergencyNameFails \/ EmergencyFails
  BY <1>1, <1>9 DEF GroupNameFails, GroupDeadlock, NobodyToResolve, NameFails,
     StartStrategy1, ShadowFails, EmergencyNameFails, EmergencyFails
<1> QED
  BY <1>4, <1>5, <1>6, <1>7, <1>8, <1>9, <1>10 DEF MainLoop, Resolution

LEMMA CallsKept ==
    ASSUME SysProgramInv, UNCHANGED locks,
           \A t \in Threads : \/ tracee'[t] = tracee[t]
                              \/ Stopped(t) /\ tracee'[t] = Resumed(tracee[t])
                              \/ tracee'[t] \in {Zombie, Dead}
    PROVE  CallInv'
<1>1. ASSUME NEW t \in Threads
      PROVE  CallOK(t)'
  <2>1. want(t)' = want(t) /\ UNCHANGED <<slow, asleep, unwinding>>
    BY DEF want, locks
  <2>2. CallOK(t) /\ tracee[t] \in [phase : Phases, call : Calls]
    BY CallTypes DEF SysProgramInv, CallInv
  <2>3. CASE tracee'[t] = tracee[t]
    BY <2>1, <2>2, <2>3 DEF CallOK
  <2>4. CASE Stopped(t) /\ tracee'[t] = Resumed(tracee[t])
    <3>1. t \notin asleep
      BY <2>2, <2>4 DEF CallOK, Stopped
    <3>2. CASE tracee[t].phase = "entry"
      <4>1. tracee'[t] = [tracee[t] EXCEPT !.phase = "kernel"]
        BY <2>4, <3>2 DEF Resumed
      <4>2. tracee'[t].phase = "kernel" /\ tracee'[t].call = tracee[t].call
        BY <2>2, <4>1
      <4> QED
        BY <2>1, <2>2, <3>1, <4>2 DEF CallOK
    <3>3. CASE tracee[t].phase # "entry"
      <4>1. tracee'[t] = Idle
        BY <2>4, <3>3 DEF Resumed
      <4>2. tracee'[t].phase = "user" /\ tracee'[t].call = OtherCall /\ OtherCall.op = "OTHER"
        BY <4>1 DEF Idle, OtherCall
      <4> QED
        BY <2>1, <3>1, <4>2 DEF CallOK
    <3> QED
      BY <3>2, <3>3
  <2>5. CASE tracee'[t] \in {Zombie, Dead}
    <3>1. /\ tracee'[t].phase \in {"zombie", "dead"}
          /\ tracee'[t].call = OtherCall /\ OtherCall.op = "OTHER"
      BY <2>5 DEF Zombie, Dead, OtherCall
    <3> QED
      BY <2>1, <3>1 DEF CallOK
  <2> QED
    BY <2>3, <2>4, <2>5
<1> QED
  BY <1>1 DEF CallInv

LEMMA MonitorLocks ==
    ASSUME SysProgramInv, Monitor
    PROVE  LockInv' /\ CallInv'
<1>1. UNCHANGED locks /\ UNCHANGED ptracing /\ MainLoop
  BY DEF Monitor
<1>2. LockInv'
  BY <1>1, OtherLocks DEF SysProgramInv, LockInv, ProgramTypes, ProgramTypeOK, locks, ptracing
<1>3. CallInv'
  BY <1>1, MonitorTracee, CallsKept DEF SysProgramInv
<1> QED
  BY <1>2, <1>3

-----------------------------------------------------------------------------
(* Before the first deadlock is counted.                                   *)

(* A pass that counts nothing has found nothing: a first finding is new.   *)
FirstInv ==
    deadlock_counter = 0 =>
       /\ mpc \in {"roots", "dfs"} => hits = 0
       /\ mpc = "report" => hits = 1
       /\ mpc \notin {"shadow", "emergency", "crashed"}

LEMMA NothingRecorded ==
    ASSUME DetectorTypes, OffInv, deadlock_counter = 0
    PROVE  detected_deadlocks = <<>> /\ is_new
<1>1. Len(detected_deadlocks) = 0
  BY LenProperties DEF DetectorTypes, OffInv
<1>2. detected_deadlocks = <<>>
  BY <1>1, EmptySeq DEF DetectorTypes
<1> QED
  BY <1>1, <1>2 DEF is_new

LEMMA CounterGrows ==
    ASSUME DetectorTypes, MainLoop
    PROVE  /\ deadlock_counter' = 0 => deadlock_counter = 0
           /\ deadlock_counter' = deadlock_counter \/ deadlock_counter' = deadlock_counter + 1
<1>1. \/ deadlock_counter' = deadlock_counter
      \/ deadlock_counter' = deadlock_counter + 1
  BY DEF MainLoop, TakeStop, TakeExit, detector, RecordCall, ResumeThread, Crash, Search,
     BeginPass, NextRoot, Descend, Skip, CloseCycle, Backtrack, EndPass, KnownCycle, Resolution, GroupNameFails,
     GroupDeadlock, NobodyToResolve, NameFails, StartStrategy1, ShadowFails, FinishStrategy1,
     EmergencyBreak, EmergencyNameFails, EmergencyFails, records
<1> QED
  BY <1>1 DEF DetectorTypes

(* ... so the steps of the loop up to there are few. *)
LEMMA EarlySteps ==
    ASSUME DetectorTypes, OffInv, FirstInv, MainLoop, deadlock_counter' = 0
    PROVE  /\ deadlock_counter = 0
           /\ \/ \E t \in Threads : TakeStop(t) \/ TakeExit(t)
              \/ RecordCall
              \/ ResumeThread
              \/ GroupNameFails
              \/ BeginPass
              \/ \E t \in Threads : NextRoot(t) \/ Descend(t) \/ Skip(t) \/ CloseCycle(t)
              \/ Backtrack
              \/ EndPass
<1>1. deadlock_counter = 0 /\ deadlock_counter' # deadlock_counter + 1
  BY CounterGrows DEF DetectorTypes
<1>2. ~ KnownCycle /\ ~ Crash
  BY <1>1, NothingRecorded DEF KnownCycle, Crash, FirstInv
<1>3. ~ ShadowFails /\ ~ FinishStrategy1 /\ ~ EmergencyBreak /\ ~ EmergencyNameFails
      /\ ~ EmergencyFails
  BY <1>1 DEF ShadowFails, FinishStrategy1, EmergencyBreak, EmergencyNameFails, EmergencyFails,
     FirstInv
<1>4. ~ GroupDeadlock /\ ~ NobodyToResolve /\ ~ NameFails /\ ~ StartStrategy1
  BY <1>1 DEF GroupDeadlock, NobodyToResolve, NameFails, StartStrategy1
<1> QED
  BY <1>1, <1>2, <1>3, <1>4 DEF MainLoop, Search, Resolution

LEMMA FirstStep ==
    ASSUME DetectorTypes, OffInv, FirstInv, MainLoop
    PROVE  FirstInv'
<1>1. SUFFICES ASSUME deadlock_counter' = 0
               PROVE  /\ mpc' \in {"roots", "dfs"} => hits' = 0
                      /\ mpc' = "report" => hits' = 1
                      /\ mpc' \notin {"shadow", "emergency", "crashed"}
  BY DEF FirstInv
<1>2. deadlock_counter = 0
  BY <1>1, CounterGrows
<1>3. CASE RecordCall \/ ResumeThread \/ GroupNameFails \/ EndPass
  BY <1>3 DEF RecordCall, ResumeThread, GroupNameFails, EndPass
<1>4. CASE BeginPass \/ Backtrack
  BY <1>2, <1>4 DEF BeginPass, Backtrack, FirstInv
<1>5. ASSUME NEW t \in Threads,
             TakeStop(t) \/ TakeExit(t) \/ NextRoot(t) \/ Descend(t) \/ Skip(t) \/ CloseCycle(t)
      PROVE  /\ mpc' \in {"roots", "dfs"} => hits' = 0
             /\ mpc' = "report" => hits' = 1
             /\ mpc' \notin {"shadow", "emergency", "crashed"}
  BY <1>2, <1>5 DEF TakeStop, TakeExit, detector, search, records, NextRoot, Descend, Skip,
     CloseCycle, FirstInv
<1> QED
  BY <1>1, <1>3, <1>4, <1>5, EarlySteps

LEMMA HandledIsTimed ==
    ASSUME SysProgramInv, RecordCall, Stopped(current)
    PROVE  Timed(current)'
<1>1. current \in Threads /\ tracee' = tracee /\ current' = current
  BY DEF RecordCall, SysProgramInv, DetectorTypes
<1>2. SUFFICES ASSUME tracee[current].call.op = "WAIT_BITSET"
               PROVE  tracee[current].call.addr \in wait_start_times'[current]
  BY <1>1 DEF Timed
<1>3. tracee[current].call.addr \in Addrs \ JunkAddrs
  BY <1>1, <1>2, WantIsNext DEF SysProgramInv, CallInv, CallOK
<1>4. on_wait(current, tracee[current].call.addr)
  BY <1>2, <1>3 DEF RecordCall, handle_syscall, WaitOps
<1> QED
  BY <1>1, <1>4 DEF on_wait, SysProgramInv, TypeOK

LEMMA TimesGrow ==
    ASSUME TypeOK, DetectorTypes, RecordCall
    PROVE  \A t \in Threads : wait_start_times[t] \subseteq wait_start_times'[t]
<1>1. CASE UNCHANGED maps
  BY <1>1 DEF maps
<1>2. CASE WaitStep(current)
  BY <1>2 DEF WaitStep, on_wait, TypeOK
<1>3. CASE WakeStep(current)
  BY <1>3 DEF WakeStep
<1> QED
  BY <1>1, <1>2, <1>3, RecordCases

(* A thread that is resumed out of a stop whose call was recorded, or that *)
(* was a victim, leaves the invariant as it is.                            *)
LEMMA ResumedTimed ==
    ASSUME SysProgramInv, KernelTimed, NEW u \in Threads, UNCHANGED <<wait_start_times, attached>>,
           Stopped(u), tracee' = [tracee EXCEPT ![u] = Resumed(@)],
           \A v : WasVictim(v) => WasVictim(v)',
           Timed(u) \/ WasVictim(u)'
    PROVE  KernelTimed'
<1>1. tracee \in [Threads -> Tracees] /\ attached \subseteq Threads
  BY DEF SysProgramInv, TypeOK, LockInv, ProgramTypeOK
<1>2. /\ tracee'[u] = Resumed(tracee[u])
      /\ \A t \in Threads : t # u => tracee'[t] = tracee[t]
  BY <1>1
<1>3. tracee'[u].phase = "kernel" => tracee'[u].call = tracee[u].call
  <2>1. tracee[u] \in [phase : Phases, call : Calls]
    BY CallTypes DEF SysProgramInv
  <2> QED
    BY <1>2, <2>1 DEF Resumed, Idle
<1>4. ASSUME NEW t \in attached, tracee'[t].phase = "kernel"
      PROVE  Timed(t)' \/ WasVictim(t)'
  <2>1. CASE t = u
    BY <1>3, <1>4, <2>1 DEF Timed
  <2>2. CASE t # u
    BY <1>1, <1>2, <1>4, <2>2 DEF KernelTimed, Timed
  <2> QED
    BY <2>1, <2>2
<1> QED
  BY <1>4 DEF KernelTimed

LEMMA SleepTimedStep ==
    ASSUME SysProgramInv, TimedInv, VictimInv, MainLoop, UNCHANGED attached
    PROVE  TimedInv'
<1>1. /\ KernelTimed /\ Handling /\ current \in Threads /\ attached \subseteq Threads
      /\ tracee \in [Threads -> Tracees]
  BY DEF TimedInv, SysProgramInv, DetectorTypes, LockInv, ProgramTypeOK, TypeOK
<1>2. NoneReturns
  BY LoopNoneReturns DEF SysProgramInv
<1>3. \A v : WasVictim(v) => WasVictim(v)'
  <2> SUFFICES ASSUME NEW v, WasVictim(v) PROVE WasVictim(v)'
    OBVIOUS
  <2> QED
    BY VictimsStayVictims DEF SysProgramInv
<1>4. ASSUME UNCHANGED <<tracee, wait_start_times>>
      PROVE  KernelTimed'
  BY <1>1, <1>3, <1>4 DEF KernelTimed, Timed
<1>5. ASSUME UNCHANGED <<tracee, wait_start_times, current>>,
             mpc \notin {"wait", "handle", "detach", "gone"}, mpc' # "handle"
      PROVE  TimedInv'
  BY <1>1, <1>3, <1>4, <1>5 DEF TimedInv, Handling, Timed, Stopped
<1>6. ASSUME NEW t \in Threads, TakeStop(t)
      PROVE  TimedInv'
  <2>1. Handling'
    BY <1>6 DEF TakeStop, Handling, Stopped
  <2> QED
    BY <1>4, <1>6, <2>1 DEF TakeStop, maps, TimedInv
<1>7. ASSUME NEW t \in Threads, TakeExit(t)
      PROVE  TimedInv'
  <2>1. /\ tracee' = [tracee EXCEPT ![t] = Dead] /\ UNCHANGED wait_start_times
        /\ mpc = "wait" /\ mpc' = "wait"
    BY <1>7 DEF TakeExit, Collect, maps, detector
  <2>2. \A u \in attached : tracee'[u].phase = "kernel" => tracee'[u] = tracee[u]
    BY <1>1, <2>1 DEF Dead
  <2> QED
    BY <1>1, <1>3, <2>1, <2>2 DEF TimedInv, KernelTimed, Handling, Timed
<1>8. CASE RecordCall
  <2>1. /\ UNCHANGED <<tracee, current>> /\ mpc = "handle" /\ mpc' \in {"detect", "resume"}
    BY <1>8 DEF RecordCall
  <2>2. Stopped(current) /\ Stopped(current)' /\ Timed(current)'
    BY <1>1, <1>8, <2>1, HandledIsTimed DEF Stopped, Handling
  <2>3. \A t \in Threads : wait_start_times[t] \subseteq wait_start_times'[t]
    BY <1>8, TimesGrow DEF SysProgramInv
  <2>4. KernelTimed'
    BY <1>1, <1>3, <2>1, <2>3 DEF Timed, KernelTimed
  <2> QED
    BY <2>1, <2>2, <2>4 DEF TimedInv, Handling
<1>9. CASE ResumeThread
  <2>1. mpc = "resume" /\ mpc' = "wait" /\ UNCHANGED wait_start_times
    BY <1>9 DEF ResumeThread, maps
  <2>2. CASE Stopped(current)
    <3>1. tracee' = [tracee EXCEPT ![current] = Resumed(@)]
      BY <1>9, <2>2 DEF ResumeThread
    <3>2. PICK u \in Threads : u = current
      BY <1>1
    <3>3. Timed(u) \/ WasVictim(u)'
      BY <1>1, <1>3, <2>1, <2>2, <3>2 DEF Handling, Stopped
    <3>4. Stopped(u) /\ tracee' = [tracee EXCEPT ![u] = Resumed(@)]
      BY <2>2, <3>1, <3>2
    <3>5. KernelTimed'
      BY <1>1, <1>3, <2>1, <3>3, <3>4, ResumedTimed
    <3> QED
      BY <2>1, <3>5 DEF TimedInv, Handling
  <2>3. CASE ~ Stopped(current)
    BY <1>4, <1>9, <2>1, <2>3 DEF ResumeThread, TimedInv, Handling
  <2> QED
    BY <2>2, <2>3
<1>10. CASE FinishStrategy1
  <2>1. /\ mpc = "shadow" /\ mpc' \in {"roots", "resume", "crashed"}
        /\ tracee' = Reattached(victim) /\ Recorded(TRUE)
        /\ UNCHANGED <<wait_start_times, current>>
    BY <1>10 DEF FinishStrategy1, AfterErase
  <2>2. VictimOf(cycle, victim)
    BY <2>1 DEF VictimInv
  <2>3. victim \in Threads
    <3>1. PICK k \in 1..Len(cycle) : cycle[k] = victim
      BY <2>2 DEF VictimOf
    <3> QED
      BY <3>1, ElementOfSeq DEF SysProgramInv, DetectorTypes
  <2>4. PICK u \in Threads : u = victim
    BY <2>3
  <2>5. WasVictim(u)'
    BY <1>2, <2>1, <2>2, <2>4, RecordedVictim DEF SysProgramInv
  <2>6. CASE ~ Stopped(u)
    BY <1>5, <2>1, <2>4, <2>6 DEF Reattached
  <2>7. CASE Stopped(u)
    <3>1. tracee' = [tracee EXCEPT ![u] = Resumed(@)]
      BY <2>1, <2>4, <2>7 DEF Reattached
    <3>2. KernelTimed'
      BY <1>1, <1>3, <2>1, <2>5, <2>7, <3>1, ResumedTimed
    <3>3. CASE current = u
      BY <2>1, <2>5, <3>2, <3>3 DEF TimedInv, Handling
    <3>4. CASE current # u
      <4>1. tracee'[current] = tracee[current]
        BY <1>1, <3>1, <3>4
      <4> QED
        BY <1>1, <1>3, <2>1, <3>2, <4>1 DEF TimedInv, Handling, Timed, Stopped
    <3> QED
      BY <3>3, <3>4
  <2> QED
    BY <2>6, <2>7
<1>11. CASE EmergencyBreak
  <2>1. /\ mpc' \in {"roots", "resume", "crashed"} /\ UNCHANGED current
        /\ tracee' = [t \in Threads |-> IF Alive(t) THEN Zombie ELSE Dead]
    BY <1>11 DEF EmergencyBreak, AfterErase
  <2>2. \A t \in Threads : tracee'[t].phase \in {"zombie", "dead"}
    BY <2>1 DEF Zombie, Dead
  <2> QED
    BY <1>1, <2>1, <2>2 DEF TimedInv, KernelTimed, Handling
<1>12. CASE Crash
  <2>1. mpc' = "gone" /\ \A t \in Threads : tracee'[t].phase = "dead"
    BY <1>12 DEF Crash, Dead
  <2> QED
    BY <1>1, <2>1 DEF TimedInv, KernelTimed, Handling
<1>13. CASE Search
  <2>1. /\ UNCHANGED <<maps, tracee, current>> /\ mpc' # "handle"
        /\ mpc \in {"detect", "roots", "dfs", "report"}
    BY <1>13 DEF Search, BeginPass, NextRoot, Descend, Skip, CloseCycle, Backtrack, EndPass,
       KnownCycle
  <2> QED
    BY <1>5, <2>1 DEF maps
<1>14. CASE \/ GroupNameFails \/ GroupDeadlock \/ NobodyToResolve \/ NameFails
            \/ StartStrategy1 \/ ShadowFails \/ EmergencyNameFails \/ EmergencyFails
  <2>1. /\ UNCHANGED <<maps, tracee, current>> /\ mpc' # "handle"
        /\ mpc \in {"detect", "report", "shadow", "emergency"}
    BY <1>14 DEF GroupNameFails, GroupDeadlock, NobodyToResolve, NameFails, StartStrategy1,
       ShadowFails, EmergencyNameFails, EmergencyFails
  <2> QED
    BY <1>5, <2>1 DEF maps
<1> QED
  BY <1>6, <1>7, <1>8, <1>9, <1>10, <1>11, <1>12, <1>13, <1>14 DEF MainLoop, Resolution

-----------------------------------------------------------------------------
(* The maps until something is recorded: only handled calls change them.   *)

MapsInv == detected_deadlocks = <<>> => OwnerHoldsLock /\ EdgeExplained

LEMMA MapsStep ==
    ASSUME TypeOK, DetectorTypes, MapsInv, MainLoop
    PROVE  MapsInv'
<1>1. ASSUME UNCHANGED maps, detected_deadlocks' = <<>> => detected_deadlocks = <<>>
      PROVE  MapsInv'
  BY <1>1 DEF MapsInv, OwnerHoldsLock, EdgeExplained, maps
<1>2. ASSUME NEW r \in BOOLEAN, Recorded(r)
      PROVE  MapsInv'
  <2>1. Len(detected_deadlocks') = Len(detected_deadlocks) + 1 /\ Len(detected_deadlocks) \in Nat
    BY <1>2, RecordedTypes, LenProperties DEF DetectorTypes
  <2>2. Len(detected_deadlocks') # 0
    BY <2>1
  <2>3. detected_deadlocks' # <<>>
    BY <2>2
  <2> QED
    BY <2>3 DEF MapsInv
<1>3. CASE RecordCall
  <2>1. UNCHANGED detected_deadlocks /\ current \in Threads
    BY <1>3 DEF RecordCall, records, DetectorTypes
  <2>2. CASE UNCHANGED maps
    BY <1>1, <2>1, <2>2
  <2>3. CASE WaitStep(current) \/ WakeStep(current)
    BY <2>1, <2>3, OwnerMaps, EdgeWait, EdgeWake DEF MapsInv
  <2> QED
    BY <1>3, <2>2, <2>3, RecordCases
<1>4. ASSUME NEW t \in Threads, TakeStop(t) \/ TakeExit(t)
      PROVE  MapsInv'
  BY <1>1, <1>4 DEF TakeStop, TakeExit, Collect, detector, records
<1>5. CASE ResumeThread \/ Crash
  BY <1>1, <1>5 DEF ResumeThread, Crash, records
<1>6. CASE Search
  <2>1. UNCHANGED records
    BY <1>6 DEF Search, BeginPass, NextRoot, Descend, Skip, CloseCycle, Backtrack, EndPass,
       KnownCycle
  <2> QED
    BY <1>1, <1>6, <2>1, SearchReads DEF records
<1>7. CASE \/ GroupNameFails \/ GroupDeadlock \/ NameFails \/ StartStrategy1 \/ ShadowFails
           \/ EmergencyNameFails
  BY <1>1, <1>7 DEF GroupNameFails, GroupDeadlock, NameFails, StartStrategy1, ShadowFails,
     EmergencyNameFails, records
<1>8. CASE NobodyToResolve \/ FinishStrategy1 \/ EmergencyBreak \/ EmergencyFails
  BY <1>2, <1>8 DEF NobodyToResolve, FinishStrategy1, EmergencyBreak, EmergencyFails
<1> QED
  BY <1>3, <1>4, <1>5, <1>6, <1>7, <1>8 DEF MainLoop, Resolution

-----------------------------------------------------------------------------
(* The inductive invariant of the monitor and the program.                 *)

SysInv ==
    /\ SysProgramInv
    /\ RecordsInv /\ OffInv /\ PassInv /\ HitInv /\ FirstInv
    /\ MapsInv
    /\ TimedInv /\ VictimInv

LEMMA SysInitInv == SysInit => SysInv
<1> SUFFICES ASSUME SysInit PROVE SysInv
  OBVIOUS
<1>1. TypeOK /\ DetectorTypes
  BY TypeInit, DetectorTypesInit DEF SysInit
<1>2. \A t \in Threads : taken[t] = 0 /\ rounds[t] = 0 /\ held(t) = {} /\ Len(Plan[t]) \in Nat \ {0}
  BY PlanFacts DEF SysInit, held
<1>3. LockInv
  <2>1. ProgramTypes
    BY <1>2 DEF SysInit, ProgramTypes
  <2>2. ProgramTypeOK
    BY <1>2, BoundAssumption DEF SysInit, ProgramTypeOK
  <2> QED
    BY <1>2, <2>1, <2>2 DEF LockInv, Exclusion
<1>4. CallInv
  BY DEF SysInit, Init, CallInv, CallOK, Idle, OtherCall
<1>5. RecordsInv /\ OffInv /\ PassInv /\ HitInv /\ FirstInv
  BY DEF SysInit, DetectorInit, RecordsInv, RecordedOnce, OffInv, PassInv, HitInv, FirstInv
<1>6. MapsInv
  BY NoThreadAssumption DEF SysInit, Init, MapsInv, OwnerHoldsLock, EdgeExplained
<1>7. TimedInv /\ VictimInv
  BY DEF SysInit, Init, DetectorInit, Idle, TimedInv, KernelTimed, Handling, VictimInv
<1> QED
  BY <1>1, <1>3, <1>4, <1>5, <1>6, <1>7 DEF SysInv, SysProgramInv

(* A step that leaves the maps and the detector alone leaves the monitor's *)
(* part of the invariant alone.                                            *)
LEMMA MonitorIdle ==
    ASSUME SysInv, UNCHANGED <<maps, detector>>
    PROVE  DetectorTypes' /\ RecordsInv' /\ OffInv' /\ PassInv' /\ HitInv' /\ FirstInv' /\ MapsInv'
<1>1. DetectorTypes' /\ RecordsInv'
  BY DetectorIdle DEF SysInv, SysProgramInv
<1>2. OffInv' /\ FirstInv'
  BY DEF SysInv, OffInv, FirstInv, detector, search, records
<1>3. PassInv'
  BY DEF SysInv, PassInv, PathInv, LeftInv, AcyclicInv, RootsInv, Done, Following,
     detector, search, maps
<1>4. HitInv' /\ MapsInv'
  BY DEF SysInv, HitInv, ClosedWalk, MapsInv, OwnerHoldsLock, EdgeExplained,
     detector, search, records, maps
<1> QED
  BY <1>1, <1>2, <1>3, <1>4

LEMMA ShutdownStep ==
    ASSUME SysInv, Shutdown
    PROVE  SysInv'
<1>0. tracee \in [Threads -> Tracees] /\ attached \subseteq Threads
  BY DEF SysInv, SysProgramInv, TypeOK, LockInv, ProgramTypeOK
<1>1. /\ UNCHANGED <<maps, current, search, records, locks>>
      /\ mpc # "dfs" /\ mpc' \in {"detach", "gone"}
      /\ attached' \subseteq attached /\ tids' \subseteq Threads
  BY DEF Shutdown, shutdown_clean, Detach, Exit, detector, vars, ptracing, SysInv, SysProgramInv,
     LockInv, ProgramTypeOK
<1>2. \/ tracee' = tracee
      \/ \E t \in Threads : /\ Stopped(t) /\ t \notin attached'
                            /\ tracee' = [tracee EXCEPT ![t] = Resumed(@)]
      \/ tracee' = [t \in Threads |-> Dead]
  BY DEF Shutdown, shutdown_clean, Detach, Exit, vars
<1>3. TypeOK'
  <2>1. tracee' \in [Threads -> Tracees]
    BY <1>0, <1>2, DeadTypes, ResumedTypes DEF SysInv, SysProgramInv
  <2> QED
    BY <1>1, <2>1 DEF SysInv, SysProgramInv, TypeOK, KeysOK, maps
<1>4. DetectorTypes'
  BY <1>1 DEF SysInv, SysProgramInv, DetectorTypes, Mpcs, search, records
<1>5. LockInv'
  BY <1>1, OtherLocks DEF SysInv, SysProgramInv, LockInv, ProgramTypes, ProgramTypeOK, locks
<1>6. CallInv'
  <2>1. \A t \in Threads : \/ tracee'[t] = tracee[t]
                           \/ Stopped(t) /\ tracee'[t] = Resumed(tracee[t])
                           \/ tracee'[t] \in {Zombie, Dead}
    BY <1>0, <1>2
  <2> QED
    BY <1>1, <2>1, CallsKept DEF SysInv, SysProgramInv
<1>7. RecordsInv' /\ OffInv' /\ PassInv' /\ HitInv' /\ FirstInv' /\ VictimInv'
  BY <1>1 DEF SysInv, RecordsInv, RecordedOnce, OffInv, PassInv, HitInv, FirstInv, VictimInv,
     search, records
<1>8. MapsInv'
  BY <1>1 DEF SysInv, MapsInv, OwnerHoldsLock, EdgeExplained, records, maps
<1>9. NoneReturns
  <2>1. CASE tracee' = tracee
    BY <2>1 DEF NoneReturns, Alive
  <2>2. CASE tracee' = [t \in Threads |-> Dead]
    BY <2>2 DEF NoneReturns, Alive, Dead
  <2> QED
    BY <1>2, <2>1, <2>2, ResumedLives DEF SysInv, SysProgramInv
<1>10. \A v : WasVictim(v) => WasVictim(v)'
  BY <1>1, <1>9, VictimsKept DEF SysInv, SysProgramInv, records
<1>11. \A t \in attached' : tracee'[t].phase = "kernel" => tracee'[t] = tracee[t]
  BY <1>0, <1>1, <1>2 DEF Dead
<1>12. TimedInv'
  BY <1>1, <1>10, <1>11 DEF SysInv, TimedInv, KernelTimed, Handling, Timed, maps
<1> QED
  BY <1>3, <1>4, <1>5, <1>6, <1>7, <1>8, <1>12 DEF SysInv, SysProgramInv

LEMMA SysStep == SysInv /\ [SysNext]_sysvars => SysInv'
<1> SUFFICES ASSUME SysInv, [SysNext]_sysvars PROVE SysInv'
  OBVIOUS
<1>1. ASSUME NEW t \in Threads, Program(t)
      PROVE  SysInv'
  <2>1. ProgramKeeps /\ UNCHANGED <<detector, ptracing>>
    BY <1>1, ProgramCalls DEF SysInv, Program
  <2>2. TypeOK'
    BY <2>1 DEF ProgramKeeps, SysInv, SysProgramInv, TypeOK, KeysOK, maps
  <2>3. TimedInv' /\ VictimInv'
    BY <2>1, ProgramTimed DEF SysInv
  <2> QED
    BY <2>1, <2>2, <2>3, MonitorIdle DEF ProgramKeeps, SysInv, SysProgramInv
<1>2. CASE Monitor
  <2>1. MainLoop
    BY <1>2 DEF Monitor
  <2>2. TypeOK' /\ DetectorTypes'
    BY <2>1, MainLoopTypes, DetectorTypesStep DEF SysInv, SysProgramInv
  <2>3. LockInv' /\ CallInv'
    BY <1>2, MonitorLocks DEF SysInv
  <2>4. RecordsInv' /\ OffInv' /\ PassInv' /\ HitInv' /\ FirstInv' /\ MapsInv'
    BY <2>1, RecordsStep, OffStep, PassStep, HitStep, FirstStep, MapsStep DEF SysInv, SysProgramInv
  <2>5. TimedInv' /\ VictimInv'
    BY <1>2, <2>1, SleepTimedStep, VictimStep DEF SysInv, SysProgramInv, Monitor, ptracing
  <2> QED
    BY <2>2, <2>3, <2>4, <2>5 DEF SysInv, SysProgramInv
<1>3. CASE Shutdown
  BY <1>3, ShutdownStep
<1>4. CASE UNCHANGED sysvars
  <2>1. UNCHANGED <<maps, detector, tracee, locks, ptracing>>
    BY <1>4 DEF sysvars, vars
  <2>2. TypeOK'
    BY <2>1 DEF SysInv, SysProgramInv, TypeOK, KeysOK, maps
  <2>3. LockInv'
    BY <2>1, OtherLocks DEF SysInv, SysProgramInv, LockInv, ProgramTypes, ProgramTypeOK, locks,
       ptracing
  <2>4. CallInv'
    BY <2>1, CallsKept DEF SysInv
  <2>5. TimedInv' /\ VictimInv'
    BY <2>1 DEF SysInv, TimedInv, KernelTimed, Handling, Timed, Stopped, WasVictim, VictimInv,
       VictimOf, Alive, detector, search, records, maps, ptracing
  <2> QED
    BY <2>1, <2>2, <2>3, <2>4, <2>5, MonitorIdle DEF SysInv, SysProgramInv
<1> QED
  BY <1>1, <1>2, <1>3, <1>4 DEF SysNext

LEMMA SysInvariant == SysSpec => []SysInv
  BY SysInitInv, SysStep, PTL DEF SysSpec

-----------------------------------------------------------------------------
(* The theorems.                                                           *)

(* The program keeps its semaphores: a lock is free exactly when no thread *)
(* holds it, and only threads that counted themselves as waiters sleep.    *)
(* The monitor, which stops and resumes them, changes none of this.        *)
THEOREM ProgramTypeCorrect == SysSpec => []ProgramTypeOK
<1>1. SysInv => ProgramTypeOK
  BY DEF SysInv, SysProgramInv, LockInv
<1> QED
  BY <1>1, SysInvariant, PTL

(* Two threads never hold one lock: the monitor's bookkeeping, stops and   *)
(* resumptions do not break the mutual exclusion of threading.Lock.        *)
THEOREM MutualExclusion == SysSpec => []Exclusion
<1>1. SysInv => Exclusion
  BY DEF SysInv, SysProgramInv, LockInv
<1> QED
  BY <1>1, SysInvariant, PTL

(* The detector's records keep their types under this program too. *)
THEOREM SysDetectorTypes == SysSpec => []DetectorTypeOK
<1>1. SysInv => DetectorTypeOK
  BY TypesAreOK DEF SysInv, SysProgramInv
<1> QED
  BY <1>1, SysInvariant, PTL

(* is_new keeps its promise: no deadlock of the program is recorded twice  *)
(* as the same sequence.                                                   *)
THEOREM SysRecordedOnce == SysSpec => []RecordedOnce
<1>1. SysInv => RecordedOnce
  BY DEF SysInv, RecordsInv
<1> QED
  BY <1>1, SysInvariant, PTL

(* No wait of a traced thread escapes the monitor, before and after alarms,*)
(* but a victim's: the main loop handles a stop (handle_event) before it   *)
(* resumes the thread (resume_tid), and reattach_and_resume_tracing is     *)
(* called for the victim of a recorded resolution only.                    *)
THEOREM SleepersAreTimed == SysSpec => []SleepersTimed
<1>1. SysInv => SleepersTimed
  <2> SUFFICES ASSUME SysInv, NEW t \in asleep \cap attached, InKernel(t, "WAIT_BITSET")
               PROVE  want(t) \in wait_start_times[t] \/ WasVictim(t)
    BY DEF SleepersTimed
  <2>1. t \in Threads
    BY DEF SysInv, SysProgramInv, LockInv, ProgramTypeOK
  <2>2. /\ tracee[t].phase = "kernel" /\ tracee[t].call.op = "WAIT_BITSET"
        /\ tracee[t].call.addr = want(t)
    BY <2>1 DEF InKernel, SysInv, SysProgramInv, CallInv, CallOK
  <2> QED
    BY <2>1, <2>2 DEF SysInv, TimedInv, KernelTimed, Timed
<1> QED
  BY <1>1, SysInvariant, PTL

-----------------------------------------------------------------------------
(* The first alarm names recorded holders of locks: threads that have made *)
(* FUTEX_WAKE calls.                                                       *)

LEMMA TwoHolders ==
    ASSUME NEW x \in Holders, NEW y \in Holders, x # y
    PROVE  Cardinality(Holders) >= 2
<1>1. IsFiniteSet(Holders)
  <2>1. Holders \in SUBSET Threads
    BY DEF Holders
  <2> QED
    BY <2>1, ThreadsAssumption, FS_Subset
<1>2. IsFiniteSet({x}) /\ Cardinality({x}) = 1
  BY FS_Singleton
<1>3. Cardinality({x} \cup {y}) = 2
  BY <1>2, FS_AddElement
<1>4. {x} \cup {y} \in SUBSET Holders
  OBVIOUS
<1> QED
  BY <1>1, <1>3, <1>4, FS_Subset, FS_CardinalityType

(* An edge leads to a holder, other than the thread that waits. *)
LEMMA EdgeToHolder ==
    ASSUME EdgeExplained, NEW t \in Threads, NEW o \in Threads, o \in waits_for[t]
    PROVE  o \in Holders /\ o # t
  BY DEF EdgeExplained, Holders

LEMMA WalkHasHolders ==
    ASSUME EdgeExplained, NEW c \in Seq(Threads), ClosedWalk(c)
    PROVE  Cardinality(Holders) >= 2
<1>1. PICK S \in SUBSET Threads : S # {} /\ \A n \in S : waits_for[n] \cap S # {}
  BY WalkHasLoop
<1>2. PICK n \in S : TRUE
  BY <1>1
<1>3. PICK x \in S : x \in waits_for[n]
  BY <1>1
<1>4. PICK y \in S : y \in waits_for[x]
  BY <1>1
<1>5. x \in Holders /\ y \in Holders /\ x # y
  BY <1>2, <1>3, <1>4, EdgeToHolder
<1> QED
  BY <1>5, TwoHolders

LEMMA VictimsHaveHolders ==
    ASSUME TypeOK, EdgeExplained, NEW order, NEW V \in GroupVictims(order)
    PROVE  Cardinality(Holders) >= 2
<1> DEFINE groups == analyze_conflict_groups(order)
           n == Cardinality(V)
<1>1. /\ V \in SUBSET Threads
      /\ n >= 2
      /\ \A t, u \in V : groups[t] = groups[u] => t = u
      /\ \E c \in SetToSeqs(V) : \A i \in 1..Len(c) :
            \E o \in waits_for[c[i]] : groups[o] = groups[c[(i % Len(c)) + 1]]
  BY DEF GroupVictims
<1> HIDE DEF groups
<1>2. n \in Nat
  BY <1>1, ThreadsAssumption, FS_Subset, FS_CardinalityType
<1>3. PICK c \in SetToSeqs(V) : \A i \in 1..Len(c) :
            \E o \in waits_for[c[i]] : groups[o] = groups[c[(i % Len(c)) + 1]]
  BY <1>1
<1>4. c \in [1..n -> V] /\ \A i, j \in 1..n : i # j => c[i] # c[j]
  BY DEF SetToSeqs
<1> HIDE DEF n
<1>5. c \in Seq(V)
  BY <1>2, <1>4, SeqDef
<1>6. Len(c) = n
  BY <1>2, <1>4, <1>5, LenProperties
<1>7. 1 % n = 1 /\ n % n = 0 /\ 1 \in 1..n /\ 2 \in 1..n /\ n \in 1..n
  BY <1>1, <1>2
<1>8. PICK x \in waits_for[c[n]] : groups[x] = groups[c[1]]
  <2>1. (n % Len(c)) + 1 = 1 /\ n \in 1..Len(c)
    BY <1>6, <1>7
  <2>2. \E o \in waits_for[c[n]] : groups[o] = groups[c[(n % Len(c)) + 1]]
    BY <1>3, <2>1
  <2> QED
    BY <2>1, <2>2
<1>9. PICK y \in waits_for[c[1]] : groups[y] = groups[c[2]]
  <2>1. (1 % Len(c)) + 1 = 2 /\ 1 \in 1..Len(c)
    BY <1>6, <1>7
  <2>2. \E o \in waits_for[c[1]] : groups[o] = groups[c[(1 % Len(c)) + 1]]
    BY <1>3, <2>1
  <2> QED
    BY <2>1, <2>2
<1>10. c[1] \in V /\ c[2] \in V /\ c[n] \in V /\ c[1] # c[2]
  BY <1>4, <1>7
<1>11. x # y
  BY <1>1, <1>8, <1>9, <1>10
<1>12. x \in Threads /\ y \in Threads
  BY <1>1, <1>8, <1>9, <1>10 DEF TypeOK
<1>13. x \in Holders /\ y \in Holders
  BY <1>1, <1>8, <1>9, <1>10, <1>12, EdgeToHolder
<1> QED
  BY <1>11, <1>13, TwoHolders

(* Of a closed walk only the first thread need not be a holder. *)
LEMMA WalkIsOfHolders ==
    ASSUME EdgeExplained, NEW c \in Seq(Threads), ClosedWalk(c)
    PROVE  Range(Tail(c)) \subseteq Holders
<1>1. c # <<>> /\ Len(c) \in Nat \ {0}
  <2>1. Len(c) \in Nat
    BY LenProperties
  <2>2. Len(c) # 0
    BY <2>1 DEF ClosedWalk
  <2>3. c # <<>>
    BY <2>2, EmptySeq
  <2> QED
    BY <2>1, <2>2, <2>3
<1>2. /\ Tail(c) \in Seq(Threads) /\ Len(Tail(c)) = Len(c) - 1
      /\ \A i \in 1..Len(Tail(c)) : Tail(c)[i] = c[i + 1]
  BY <1>1, HeadTailProperties
<1>3. DOMAIN Tail(c) = 1..(Len(c) - 1)
  BY <1>2, LenProperties
<1>4. ASSUME NEW i \in 1..(Len(c) - 1)
      PROVE  Tail(c)[i] \in Holders
  <2>1. i \in 1..Len(c) /\ i + 1 \in 1..Len(c)
    BY <1>1
  <2>2. c[i] \in Threads /\ c[i + 1] \in Threads
    BY <2>1, ElementOfSeq
  <2>3. c[i + 1] \in waits_for[c[i]]
    BY DEF ClosedWalk
  <2> QED
    BY <1>2, <2>2, <2>3, EdgeToHolder
<1> QED
  BY <1>3, <1>4 DEF Range

LEMMA FirstCount ==
    ASSUME SysInv, MainLoop, deadlock_counter = 0, deadlock_counter' = 1
    PROVE  /\ Cardinality(Holders) >= 2
           /\ mpc = "report" => Range(Tail(cycle)) \subseteq Holders
<1>1. EdgeExplained /\ cycle \in Seq(Threads)
  BY NothingRecorded DEF SysInv, SysProgramInv, MapsInv, DetectorTypes
<1>2. CASE GroupDeadlock
  <2>1. Cardinality(Holders) >= 2 /\ mpc = "detect"
    BY <1>1, <1>2, VictimsHaveHolders DEF GroupDeadlock, SysInv, SysProgramInv
  <2> QED
    BY <2>1
<1>3. CASE mpc = "report"
  <2>1. ClosedWalk(cycle)
    BY <1>3 DEF SysInv, FirstInv, HitInv
  <2> QED
    BY <1>1, <2>1, WalkHasHolders, WalkIsOfHolders
<1>4. ASSUME ~ GroupDeadlock, mpc # "report"
      PROVE  UNCHANGED deadlock_counter
  BY <1>4 DEF MainLoop, TakeStop, TakeExit, detector, RecordCall, ResumeThread, Crash, Search,
     BeginPass, NextRoot, Descend, Skip, CloseCycle, Backtrack, EndPass, KnownCycle, Resolution, GroupNameFails,
     NobodyToResolve, NameFails, StartStrategy1, ShadowFails, FinishStrategy1,
     EmergencyBreak, EmergencyNameFails, EmergencyFails, records
<1> QED
  BY <1>2, <1>3, <1>4

(* An alarm has a history: when the first deadlock is counted, by the      *)
(* group search or by the thread search, two threads at least were seen    *)
(* releasing a contended lock, and so was every thread the thread search   *)
(* names but the first.  A program whose first contention is the deadlock  *)
(* raises none.                                                            *)
THEOREM FirstAlarm == SysSpec => AlarmNeedsReleases
<1> DEFINE Alarm == /\ Cardinality(Holders) >= 2
                    /\ mpc = "report" => Range(Tail(cycle)) \subseteq Holders
<1>1. SysInv /\ [SysNext]_sysvars =>
        [deadlock_counter = 0 /\ deadlock_counter' = 1 => Alarm]_sysvars
  <2> SUFFICES ASSUME SysInv, SysNext, deadlock_counter = 0, deadlock_counter' = 1
               PROVE  Alarm
    BY DEF sysvars
  <2>1. ASSUME NEW t \in Threads, Program(t)
        PROVE  deadlock_counter' = deadlock_counter
    BY <2>1 DEF Program, detector, records
  <2>2. CASE Shutdown
    BY <2>2 DEF Shutdown, shutdown_clean, Detach, Exit, detector, records
  <2>3. CASE Monitor
    BY <2>3, FirstCount DEF Monitor
  <2> QED
    BY <2>1, <2>2, <2>3 DEF SysNext
<1> QED
  BY <1>1, SysInvariant, PTL DEF SysSpec, AlarmNeedsReleases

=============================================================================
