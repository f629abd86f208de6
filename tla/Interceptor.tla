----------------------------- MODULE Interceptor -----------------------------
(***************************************************************************)
(* The monitor watching a program like src/app.py: every thread takes the  *)
(* locks of its plan in order and releases them in reverse, some rounds    *)
(* long (acquire_locks), while the main loop of src/main.cpp handles its   *)
(* stops, until it is told to shut down (shutdown_clean).  A thread that   *)
(* was detached runs on without stops.                                     *)
(*                                                                         *)
(* threading.Lock is a semaphore with a count of waiters: taking a free    *)
(* lock and releasing one nobody waits for make no system call, the monitor*)
(* sees only the contended ones.  Calls on other addresses and calls other *)
(* than futex are not part of these programs (AnyProgram has them).        *)
(***************************************************************************)
EXTENDS Detection

CONSTANTS
    Plan,         \* thread -> the sequence of locks of one round
    Rounds,       \* bound on the rounds of each thread
    MayShutDown   \* whether SIGINT or SIGTERM may come

ASSUME PlanAssumption ==
    /\ Plan \in [Threads -> Seq(Addrs \ JunkAddrs)]
    /\ \A t \in Threads : Plan[t] # <<>> /\ IsInjective(Plan[t])
ASSUME BoundAssumption == Rounds \in Nat /\ MayShutDown \in BOOLEAN

VARIABLES
    avail,     \* address -> the semaphore's value is 1
    slow,      \* threads that have counted themselves as waiters
    asleep,    \* threads blocked in the kernel's queue
    taken,     \* thread -> how many locks of its plan it holds
    unwinding, \* threads in the releasing half of their round
    rounds,    \* thread -> rounds completed
    attached,  \* threads ptrace still traces
    tids       \* threads shutdown_clean has yet to detach

locks   == <<avail, slow, asleep, taken, unwinding, rounds>>
ptracing == <<attached, tids>>
sysvars == <<vars, detector, locks, ptracing>>

-----------------------------------------------------------------------------
(* The program.                                                            *)

want(t) == Plan[t][taken[t] + 1]     \* the next lock of its plan
held(t) == {Plan[t][i] : i \in 1..taken[t]}

Running(t) == tracee[t].phase = "user"

Acquiring(t) == Running(t) /\ t \notin unwinding /\ rounds[t] < Rounds

(* A traced thread stops at the entry and the exit of its call; any other  *)
(* goes straight on.                                                       *)
Enters(t, op, a) ==
    /\ tracee' = [tracee EXCEPT ![t] = [phase |-> IF t \in attached THEN "entry" ELSE "kernel",
                                       call  |-> [op |-> op, addr |-> a]]]
    /\ UNCHANGED maps
Returned(t) == IF t \in attached THEN [tracee[t] EXCEPT !.phase = "exit"] ELSE Idle

(* The thread has lock want(t).  With the last one it starts releasing. *)
TakeLock(t) ==
    /\ avail' = [avail EXCEPT ![want(t)] = FALSE]
    /\ taken' = [taken EXCEPT ![t] = @ + 1]
    /\ unwinding' = IF taken'[t] = Len(Plan[t]) THEN unwinding \cup {t} ELSE unwinding
    /\ slow' = slow \ {t}
    /\ UNCHANGED <<maps, tracee, asleep, rounds>>

(* acquire(): a free lock is taken without a system call, at once or after *)
(* the thread has waited.                                                  *)
Acquire(t) ==
    /\ Acquiring(t)
    /\ avail[want(t)]
    /\ TakeLock(t)

(* acquire(): the lock is taken, the thread counts itself as a waiter. *)
Contend(t) ==
    /\ Acquiring(t)
    /\ t \notin slow
    /\ ~ avail[want(t)]
    /\ slow' = slow \cup {t}
    /\ UNCHANGED <<maps, tracee, avail, asleep, taken, unwinding, rounds>>

(* ... and calls FUTEX_WAIT_BITSET. *)
CallWait(t) ==
    /\ Acquiring(t)
    /\ t \in slow
    /\ ~ avail[want(t)]
    /\ Enters(t, "WAIT_BITSET", want(t))
    /\ UNCHANGED locks

(* A slip: the locks are released in the order they were taken. *)
ReleaseInOrder(t) ==
    LET a == Plan[t][Len(Plan[t]) - taken[t] + 1]
    IN  /\ Running(t)
        /\ t \in unwinding
        /\ avail' = [avail EXCEPT ![a] = TRUE]
        /\ taken' = [taken EXCEPT ![t] = @ - 1]
        /\ UNCHANGED <<maps, tracee, slow, asleep, unwinding, rounds>>

(* release(): the last lock taken is freed; a counted waiter is woken with *)
(* FUTEX_WAKE.                                                             *)
Release(t) ==
    LET a == Plan[t][taken[t]]
    IN  /\ Running(t)
        /\ t \in unwinding
        /\ avail' = [avail EXCEPT ![a] = TRUE]
        /\ taken' = [taken EXCEPT ![t] = @ - 1]
        /\ IF taken[t] = 1
           THEN unwinding' = unwinding \ {t} /\ rounds' = [rounds EXCEPT ![t] = @ + 1]
           ELSE UNCHANGED <<unwinding, rounds>>
        /\ IF \E u \in slow : want(u) = a
           THEN Enters(t, "WAKE", a)
           ELSE UNCHANGED <<maps, tracee>>
        /\ UNCHANGED <<slow, asleep>>

InKernel(t, op) == tracee[t].phase = "kernel" /\ tracee[t].call.op = op

(* The kernel's FUTEX_WAIT: the thread sleeps if the lock is still taken.  *)
Sleep(t) ==
    /\ InKernel(t, "WAIT_BITSET")
    /\ t \notin asleep
    /\ ~ avail[tracee[t].call.addr]
    /\ asleep' = asleep \cup {t}
    /\ UNCHANGED <<maps, tracee, avail, slow, taken, unwinding, rounds>>

(* ... or the call returns EAGAIN. *)
WaitReturns(t) ==
    /\ InKernel(t, "WAIT_BITSET")
    /\ t \notin asleep
    /\ avail[tracee[t].call.addr]
    /\ tracee' = [tracee EXCEPT ![t] = Returned(t)]
    /\ UNCHANGED <<maps, locks>>

(* The kernel's FUTEX_WAKE: one sleeper, if there is one, returns too. *)
Wake(t) ==
    /\ InKernel(t, "WAKE")
    /\ LET sleepers == {u \in asleep : tracee[u].call.addr = tracee[t].call.addr}
       IN  \/ /\ sleepers = {}
              /\ tracee' = [tracee EXCEPT ![t] = Returned(t)]
              /\ UNCHANGED <<maps, locks>>
           \/ \E u \in sleepers :
              /\ tracee' = [tracee EXCEPT ![t] = Returned(t), ![u] = Returned(u)]
              /\ asleep' = asleep \ {u}
              /\ UNCHANGED <<maps, avail, slow, taken, unwinding, rounds>>

(* The search only reads the maps, which the program cannot see: its steps *)
(* commute with the program's, which are taken before it or after it.      *)
Searching == mpc \in {"detect", "roots", "dfs", "report"}

Program(t) ==
    /\ ~ Searching
    /\ \/ Acquire(t) \/ Contend(t) \/ CallWait(t) \/ Release(t)
       \/ Sleep(t) \/ WaitReturns(t) \/ Wake(t)
    /\ UNCHANGED <<detector, ptracing>>

-----------------------------------------------------------------------------
(* The monitor.                                                            *)

Monitor == MainLoop /\ UNCHANGED <<locks, ptracing>>

(* SIGINT or SIGTERM: the loop ends before its next waitpid.               *)
(* shutdown_clean cannot stop the threads: PTRACE_INTERRUPT works on seized*)
(* threads only.                                                           *)
shutdown_clean ==
    /\ MayShutDown
    /\ mpc = "wait"
    /\ mpc' = "detach"
    /\ tids' = Threads
    /\ UNCHANGED <<vars, current, search, records, locks, attached>>

(* PTRACE_DETACH, thread by thread: a stopped one runs on, whether or not  *)
(* its stop was handled; on any other it fails.                            *)
Detach(t) ==
    /\ mpc = "detach"
    /\ t \in tids
    /\ tids' = tids \ {t}
    /\ IF Stopped(t)
       THEN /\ attached' = attached \ {t}
            /\ tracee' = [tracee EXCEPT ![t] = Resumed(@)]
       ELSE UNCHANGED <<attached, tracee>>
    /\ UNCHANGED <<maps, detector, locks>>

(* The monitor exits.  PTRACE_O_EXITKILL kills what is still attached, and *)
(* with it the whole process.                                              *)
Exit ==
    /\ mpc = "detach"
    /\ tids = {}
    /\ mpc' = "gone"
    /\ tracee' = IF attached = {} THEN tracee ELSE [t \in Threads |-> Dead]
    /\ UNCHANGED <<maps, current, search, records, locks, ptracing>>

Shutdown == shutdown_clean \/ (\E t \in Threads : Detach(t)) \/ Exit

-----------------------------------------------------------------------------

SysInit ==
    /\ Init
    /\ DetectorInit
    /\ avail = [a \in Addrs |-> TRUE]
    /\ slow = {} /\ asleep = {} /\ unwinding = {}
    /\ taken = [t \in Threads |-> 0]
    /\ rounds = [t \in Threads |-> 0]
    /\ attached = Threads
    /\ tids = {}

SysNext ==
    \/ \E t \in Threads : Program(t)
    \/ Monitor
    \/ Shutdown

SysSpec == SysInit /\ [][SysNext]_sysvars

(* The threads are scheduled and the main loop never sleeps for good.      *)
FairSpec ==
    /\ SysSpec
    /\ \A t \in Threads : WF_sysvars(Program(t))
    /\ WF_sysvars(Monitor)

-----------------------------------------------------------------------------
(* Properties.                                                             *)

(* A thread that holds part of its plan, waits or sleeps does so           *)
(* consistently, and a lock is free exactly when no thread holds it.       *)
ProgramTypeOK ==
    /\ slow \subseteq Threads /\ asleep \subseteq slow /\ unwinding \subseteq Threads
    /\ attached \subseteq Threads /\ tids \subseteq Threads
    /\ \A t \in Threads : taken[t] \in 0..Len(Plan[t]) /\ rounds[t] \in 0..Rounds
    /\ \A a \in Addrs : avail[a] <=> \A t \in Threads : a \notin held(t)

(* The target is deadlocked: threads that count themselves as waiters for  *)
(* each other's locks.                                                     *)
Deadlocked ==
    Cyclic(slow, {e \in slow \X Threads : want(e[1]) \in held(e[2])})

(* A traced thread that sleeps in the kernel was recorded waiting there:   *)
(* no wait escapes the monitor, before and after alarms, but that of the   *)
(* victim of a resolution, whose stop reattach_and_resume_tracing may      *)
(* resume unhandled (the main loop resumes no other such thread).          *)
SleepersTimed ==
    \A t \in asleep \cap attached :
        InKernel(t, "WAIT_BITSET") => want(t) \in wait_start_times[t] \/ WasVictim(t)

(* The first alarm has a history: at least two threads were recorded       *)
(* releasing contended locks and, if dfs_deadlock raised it, every thread  *)
(* it names but the first, the root of the search, which may only wait.  A *)
(* program whose first contention is the deadlock raises no alarm.         *)
AlarmNeedsReleases ==
    [][deadlock_counter = 0 /\ deadlock_counter' = 1 =>
         /\ Cardinality(Holders) >= 2
         /\ mpc = "report" => Range(Tail(cycle)) \subseteq Holders]_sysvars

(* A stopped thread does not stay stopped: the monitor handles the stop    *)
(* and resumes it, unless it is gone.                                      *)
StopsEnd ==
    \A t \in Threads : Stopped(t) ~> ~ Stopped(t) \/ mpc = "gone"

(* The monitor wedges no program that could end without it: with plans in  *)
(* one order of locks every thread completes its rounds, or the process is *)
(* killed (EmergencyBreak, Crash).                                         *)
PlansEnd ==
    <>(\A t \in Threads : rounds[t] = Rounds \/ ~ Alive(t))

-----------------------------------------------------------------------------
(* Statements of the repository that the code does not keep.               *)

(* README.md:239, of two threads that take two locks in opposite orders:   *)
(* "This will deadlock, and the resolver should detect and fix it".  When  *)
(* every thread of the deadlock sleeps and every stop was handled, it has  *)
(* been detected.                                                          *)
SampleDetected ==
    asleep = Threads /\ Deadlocked /\ mpc = "wait" => deadlock_counter > 0

(* README.md:3, "detects deadlocks": an alarm is raised for a deadlock. *)
NoFalseAlarm ==
    [][deadlock_counter' > deadlock_counter => Deadlocked]_sysvars

(* main.cpp:106, "Clean detach complete": the target survives the monitor. *)
CleanDetach ==
    [][mpc = "detach" /\ mpc' = "gone" => attached = {}]_sysvars

(* strategy1.cpp:983, "Deadlock resolved!": a deadlocked target is not     *)
(* deadlocked any more when strategy 1 succeeds.                           *)
SuccessMeansResolved ==
    [][mpc = "shadow" /\ Len(detected_deadlocks') > Len(detected_deadlocks)
          => ~ Deadlocked']_sysvars

=============================================================================
