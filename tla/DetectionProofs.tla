-------------------------- MODULE DetectionProofs --------------------------
(* Lemmas about one iteration of the main loop, whatever program it        *)
(* watches: AnyProgramProofs and InterceptorProofs use them.               *)
EXTENDS Detection, MonitoringProofs, SequenceTheorems

(* The types of the detector's state, in the form the steps preserve. *)
Frames == [node : Threads, todo : SUBSET Threads]
Deadlocks == [cycle : Seq(Threads), involved : SUBSET Addrs, resolved : BOOLEAN]

DetectorTypes ==
    /\ mpc \in Mpcs
    /\ current \in Threads
    /\ monitoring_active \in BOOLEAN
    /\ deadlock_counter \in Nat
    /\ detected_deadlocks \in Seq(Deadlocks)
    /\ roots \in SUBSET Threads
    /\ visited \in SUBSET Threads
    /\ stack \in SUBSET Threads
    /\ root \in Owners
    /\ victim \in Owners
    /\ cycle \in Seq(Threads)
    /\ frames \in Seq(Frames)
    /\ hits \in Nat
    /\ (mpc = "dfs") <=> (frames # <<>>)

LEMMA TypesAreOK == DetectorTypes => DetectorTypeOK
<1> SUFFICES ASSUME DetectorTypes PROVE DetectorTypeOK
  OBVIOUS
<1>1. \A i \in 1..Len(frames) : frames[i] \in Frames
  BY ElementOfSeq DEF DetectorTypes
<1> QED
  BY <1>1 DEF DetectorTypes, DetectorTypeOK, Frames

LEMMA DetectorTypesInit == DetectorInit => DetectorTypes
<1>1. <<>> \in Seq(Frames) /\ <<>> \in Seq(Threads) /\ <<>> \in Seq(Deadlocks)
  BY EmptySeq
<1> QED
  BY <1>1 DEF DetectorInit, DetectorTypes, Owners, Mpcs

LEMMA WithoutNeighbour ==
    ASSUME NEW f \in Frames, NEW n
    PROVE  [f EXCEPT !.todo = @ \ {n}] = [node |-> f.node, todo |-> f.todo \ {n}]
  BY DEF Frames

(* The innermost activation, and the activations once a neighbour of it    *)
(* was taken or it has returned.                                           *)
LEMMA TopFrame ==
    ASSUME DetectorTypes, mpc = "dfs"
    PROVE  /\ Len(frames) \in Nat \ {0}
           /\ top \in Frames
           /\ top.node \in Threads /\ top.todo \subseteq Threads
<1>1. Len(frames) \in Nat \ {0}
  BY EmptySeq DEF DetectorTypes
<1>2. top \in Frames
  BY <1>1, ElementOfSeq DEF DetectorTypes, top
<1> QED
  BY <1>1, <1>2 DEF Frames

LEMMA TakenFrames ==
    ASSUME DetectorTypes, mpc = "dfs", NEW n \in Threads
    PROVE  /\ Taken(n) \in Seq(Frames)
           /\ Len(Taken(n)) = Len(frames)
           /\ Taken(n) # <<>>
           /\ \A i \in 1..Len(frames) :
                Taken(n)[i] = IF i = Len(frames)
                              THEN [node |-> top.node, todo |-> top.todo \ {n}] ELSE frames[i]
<1> DEFINE f == [node |-> top.node, todo |-> top.todo \ {n}]
<1>1. Len(frames) \in Nat \ {0} /\ top \in Frames
  BY TopFrame
<1>2. f \in Frames
  BY <1>1 DEF Frames
<1>3. Taken(n) = [frames EXCEPT ![Len(frames)] = f]
  <2>1. [top EXCEPT !.todo = @ \ {n}] = f
    BY <1>1, WithoutNeighbour
  <2>2. Taken(n) = [frames EXCEPT ![Len(frames)] = [top EXCEPT !.todo = @ \ {n}]]
    BY DEF Taken, top
  <2> QED
    BY <2>1, <2>2
<1>4. Len(frames) \in 1..Len(frames)
  BY <1>1
<1> HIDE DEF f
<1>5. Taken(n) \in Seq(Frames) /\ Len(Taken(n)) = Len(frames)
      /\ \A i \in 1..Len(frames) : Taken(n)[i] = IF i = Len(frames) THEN f ELSE frames[i]
  BY <1>2, <1>3, <1>4, ExceptSeq DEF DetectorTypes
<1> QED
  BY <1>1, <1>5, EmptySeq DEF f

LEMMA PoppedFrames ==
    ASSUME DetectorTypes, mpc = "dfs"
    PROVE  LET popped == SubSeq(frames, 1, Len(frames) - 1)
           IN  /\ popped \in Seq(Frames)
               /\ Len(popped) = Len(frames) - 1
               /\ \A i \in 1..(Len(frames) - 1) : popped[i] = frames[i]
               /\ popped = <<>> <=> Len(frames) = 1
<1> DEFINE popped == SubSeq(frames, 1, Len(frames) - 1)
<1>1. Len(frames) \in Nat \ {0}
  BY TopFrame
<1>2. \A i \in 1..(Len(frames) - 1) : frames[i] \in Frames
  BY <1>1, ElementOfSeq DEF DetectorTypes
<1>3. /\ popped \in Seq(Frames)
      /\ Len(popped) = Len(frames) - 1
      /\ \A i \in 1..(Len(frames) - 1) : popped[i] = frames[i]
  <2> DEFINE n == Len(frames) - 1
  <2>1. n \in Nat
    BY <1>1
  <2> HIDE DEF n
  <2>2. n \in Int /\ 1 \in Int /\ n - 1 + 1 = n /\ (IF 1 <= n THEN n - 1 + 1 ELSE 0) = n
    BY <2>1
  <2>3. /\ SubSeq(frames, 1, n) \in Seq(Frames)
        /\ Len(SubSeq(frames, 1, n)) = IF 1 <= n THEN n - 1 + 1 ELSE 0
        /\ \A i \in 1..(n - 1 + 1) : SubSeq(frames, 1, n)[i] = frames[1 + i - 1]
    BY <1>2, <2>2, SubSeqProperties DEF n
  <2> QED
    BY <2>2, <2>3 DEF n
<1> HIDE DEF popped
<1>4. popped = <<>> <=> Len(frames) = 1
  BY <1>1, <1>3, EmptySeq
<1> QED
  BY <1>3, <1>4 DEF popped
(* The sequence dfs_deadlock returns when the activations close on n. *)
LEMMA ClosedPath ==
    ASSUME DetectorTypes, NEW n \in Threads
    PROVE  LET c == Append([i \in 1..Len(frames) |-> frames[i].node], n)
           IN  /\ c \in Seq(Threads)
               /\ Len(c) = Len(frames) + 1
               /\ \A i \in 1..Len(frames) : c[i] = frames[i].node
               /\ c[Len(frames) + 1] = n
<1> DEFINE path == [i \in 1..Len(frames) |-> frames[i].node]
<1>1. Len(frames) \in Nat
  BY LenProperties DEF DetectorTypes
<1>2. \A i \in 1..Len(frames) : frames[i].node \in Threads
  <2>1. \A i \in 1..Len(frames) : frames[i] \in Frames
    BY ElementOfSeq DEF DetectorTypes
  <2> QED
    BY <2>1 DEF Frames
<1>3. path \in [1..Len(frames) -> Threads]
  BY <1>2
<1>4. path \in Seq(Threads)
  BY <1>1, <1>3, SeqDef
<1>5. Len(path) = Len(frames)
  BY <1>1, <1>3, <1>4, LenProperties
<1>6. \A i \in 1..Len(frames) : path[i] = frames[i].node
  OBVIOUS
<1> HIDE DEF path
<1>7. /\ Append(path, n) \in Seq(Threads)
      /\ Len(Append(path, n)) = Len(path) + 1
      /\ \A i \in 1..Len(path) : Append(path, n)[i] = path[i]
      /\ Append(path, n)[Len(path) + 1] = n
  BY <1>4, AppendProperties
<1> QED
  BY <1>5, <1>6, <1>7 DEF path

-----------------------------------------------------------------------------
(* Type correctness.                                                       *)

LEMMA RecordedTypes ==
    ASSUME DetectorTypes, NEW r \in BOOLEAN, Recorded(r)
    PROVE  /\ detected_deadlocks' \in Seq(Deadlocks)
           /\ Len(detected_deadlocks') = Len(detected_deadlocks) + 1
           /\ \A i \in 1..Len(detected_deadlocks) :
                 detected_deadlocks'[i] = detected_deadlocks[i]
           /\ detected_deadlocks'[Len(detected_deadlocks) + 1].cycle = cycle
           /\ detected_deadlocks'[Len(detected_deadlocks) + 1].resolved = r
<1> DEFINE d == [cycle |-> cycle, involved |-> find_locks_in_deadlock(cycle), resolved |-> r]
<1>1. d \in Deadlocks
  <2>1. find_locks_in_deadlock(cycle) \in SUBSET Addrs
    BY DEF find_locks_in_deadlock
  <2> QED
    BY <2>1 DEF Deadlocks, DetectorTypes
<1>2. d.cycle = cycle /\ d.resolved = r
  OBVIOUS
<1>3. detected_deadlocks' = Append(detected_deadlocks, d)
  BY DEF Recorded
<1> HIDE DEF d
<1> QED
  BY <1>1, <1>2, <1>3, AppendProperties DEF DetectorTypes

LEMMA VictimsAreThreads ==
    ASSUME DetectorTypes
    PROVE  Victims \subseteq Candidates /\ Candidates \subseteq Threads
<1>1. \A i \in 1..Len(cycle) : cycle[i] \in Threads
  BY ElementOfSeq DEF DetectorTypes
<1> QED
  BY <1>1 DEF Victims, Candidates

LEMMA SearchTypes ==
    ASSUME TypeOK, DetectorTypes, Search
    PROVE  DetectorTypes'
<1> USE DEF DetectorTypes, Mpcs
<1>1. CASE BeginPass
  <2>1. wait_keys \in SUBSET Threads /\ <<>> \in Seq(Frames) /\ <<>> \in Seq(Threads)
    BY EmptySeq DEF TypeOK, KeysOK
  <2> QED
    BY <1>1, <2>1 DEF BeginPass, records
<1>2. ASSUME NEW t \in Threads, NextRoot(t)
      PROVE  DetectorTypes'
  <2> DEFINE f == [node |-> t, todo |-> waits_for[t]]
  <2>1. f \in Frames
    BY DEF Frames, TypeOK
  <2> HIDE DEF f
  <2>2. <<f>> \in Seq(Frames) /\ <<f>> # <<>> /\ <<>> \in Seq(Threads)
    BY <2>1, EmptySeq
  <2>3. CASE t \in visited
    BY <1>2, <2>3 DEF NextRoot, records, Owners
  <2>4. CASE t \notin visited
    <3>1. frames' = <<f>>
      BY <1>2, <2>4 DEF NextRoot, f
    <3> QED
      BY <1>2, <2>2, <2>4, <3>1 DEF NextRoot, records, Owners
  <2> QED
    BY <2>3, <2>4
<1>3. ASSUME NEW t \in Threads, Descend(t)
      PROVE  DetectorTypes'
  <2> DEFINE f == [node |-> t, todo |-> waits_for[t]]
  <2>1. f \in Frames
    BY DEF Frames, TypeOK
  <2>2. mpc = "dfs" /\ Taken(t) \in Seq(Frames)
    BY <1>3, TakenFrames DEF Descend
  <2>3. frames' = Append(Taken(t), f)
    BY <1>3 DEF Descend
  <2> HIDE DEF f
  <2>4. frames' \in Seq(Frames) /\ frames' # <<>>
    BY <2>1, <2>2, <2>3, AppendProperties
  <2> QED
    BY <1>3, <2>4 DEF Descend, records
<1>4. ASSUME NEW t \in Threads, Skip(t)
      PROVE  DetectorTypes'
  BY <1>4, TakenFrames DEF Skip, records
<1>5. ASSUME NEW t \in Threads, CloseCycle(t)
      PROVE  DetectorTypes'
  <2>1. cycle' \in Seq(Threads) /\ <<>> \in Seq(Frames)
    BY <1>5, ClosedPath, EmptySeq DEF CloseCycle
  <2> QED
    BY <1>5, <2>1 DEF CloseCycle, records
<1>6. CASE Backtrack
  BY <1>6, PoppedFrames DEF Backtrack, records
<1>7. CASE EndPass \/ KnownCycle
  BY <1>7 DEF EndPass, KnownCycle, search, records
<1> QED
  BY <1>1, <1>2, <1>3, <1>4, <1>5, <1>6, <1>7 DEF Search

LEMMA ResolutionTypes ==
    ASSUME DetectorTypes, Resolution
    PROVE  DetectorTypes'
<1> USE DEF DetectorTypes, Mpcs
<1>0. deadlock_counter + 1 \in Nat
  OBVIOUS
<1>1. CASE GroupNameFails \/ GroupDeadlock
  BY <1>0, <1>1 DEF GroupNameFails, GroupDeadlock, search, records
<1>2. CASE NobodyToResolve
  BY <1>0, <1>2, RecordedTypes DEF NobodyToResolve, search
<1>3. CASE NameFails
  BY <1>0, <1>3 DEF NameFails, search
<1>4. CASE StartStrategy1
  <2>1. victim' \in Owners
    BY <1>4, VictimsAreThreads DEF StartStrategy1, Owners
  <2> QED
    BY <1>0, <1>4, <2>1 DEF StartStrategy1
<1>5. CASE ShadowFails
  BY <1>5 DEF ShadowFails, search
<1>6. CASE FinishStrategy1
  BY <1>6, RecordedTypes DEF FinishStrategy1, AfterErase
<1>7. CASE EmergencyBreak
  BY <1>7, RecordedTypes DEF EmergencyBreak, AfterErase
<1>8. CASE EmergencyNameFails
  BY <1>8 DEF EmergencyNameFails, search, records
<1>9. CASE EmergencyFails
  BY <1>9, RecordedTypes DEF EmergencyFails, search
<1> QED
  BY <1>1, <1>2, <1>3, <1>4, <1>5, <1>6, <1>7, <1>8, <1>9 DEF Resolution

LEMMA DetectorTypesStep ==
    ASSUME TypeOK, DetectorTypes, MainLoop
    PROVE  DetectorTypes'
<1>1. ASSUME NEW t \in Threads, TakeStop(t)
      PROVE  DetectorTypes'
  BY <1>1 DEF TakeStop, DetectorTypes, Mpcs, search, records
<1>2. CASE RecordCall \/ ResumeThread \/ Crash
  BY <1>2 DEF RecordCall, ResumeThread, Crash, DetectorTypes, Mpcs, search, records
<1>3. ASSUME NEW t \in Threads, TakeExit(t)
      PROVE  DetectorTypes'
  BY <1>3 DEF TakeExit, detector, DetectorTypes, search, records
<1> QED
  BY <1>1, <1>2, <1>3, SearchTypes, ResolutionTypes DEF MainLoop

LEMMA ResumedTypes ==
    ASSUME TypeOK, NEW t \in Threads
    PROVE  [tracee EXCEPT ![t] = Resumed(@)] \in [Threads -> Tracees]
<1>1. tracee[t] \in Tracees
  BY DEF TypeOK
<1>2. Resumed(tracee[t]) \in Tracees
  BY <1>1 DEF Resumed, Tracees, Phases, Idle, Calls
<1> QED
  BY <1>2 DEF TypeOK

LEMMA DeadTypes == Dead \in Tracees /\ Zombie \in Tracees
  BY DEF Dead, Zombie, Tracees, Phases, Calls

LEMMA SearchReads == Search => UNCHANGED <<maps, tracee>>
  BY DEF Search, BeginPass, NextRoot, Descend, Skip, CloseCycle, Backtrack, EndPass, KnownCycle

(* The handler of a stop leaves the maps alone, or it records one wait or  *)
(* one wake of the current thread.                                         *)
LEMMA RecordCases ==
    ASSUME RecordCall
    PROVE  \/ UNCHANGED maps
           \/ Stopped(current) /\ WaitStep(current)
           \/ Stopped(current) /\ WakeStep(current)
  BY DEF RecordCall, handle_syscall, WaitStep, WakeStep

LEMMA MainLoopTypes ==
    ASSUME TypeOK, DetectorTypes, MainLoop
    PROVE  TypeOK'
<1>1. current \in Threads
  BY DEF DetectorTypes
<1>2. ASSUME UNCHANGED <<maps, tracee>>
      PROVE  TypeOK'
  BY <1>2 DEF TypeOK, KeysOK, maps
<1>3. ASSUME NEW t \in Threads, TakeStop(t)
      PROVE  TypeOK'
  BY <1>2, <1>3 DEF TakeStop
<1>4. CASE RecordCall
  <2>1. tracee' = tracee
    BY <1>4 DEF RecordCall
  <2>2. CASE UNCHANGED maps
    BY <1>2, <2>1, <2>2
  <2>3. CASE WaitStep(current)
    BY <1>1, <2>1, <2>3, TypeWait DEF TypeOK
  <2>4. CASE WakeStep(current)
    BY <1>1, <2>1, <2>4, TypeWake DEF TypeOK
  <2> QED
    BY <1>4, <2>2, <2>3, <2>4, RecordCases
<1>5. CASE ResumeThread
  BY <1>1, <1>5, ResumedTypes DEF ResumeThread, TypeOK, KeysOK, maps
<1>6. CASE Search
  BY <1>2, <1>6, SearchReads
<1>7. CASE FinishStrategy1
  <2>1. tracee' \in [Threads -> Tracees]
    <3>1. tracee' = Reattached(victim)
      BY <1>7 DEF FinishStrategy1
    <3>2. CASE victim \in Threads
      BY <3>1, <3>2, ResumedTypes DEF Reattached, TypeOK
    <3>3. CASE victim \notin Threads
      <4>1. [tracee EXCEPT ![victim] = Resumed(@)] = tracee
        BY <3>3 DEF TypeOK
      <4> QED
        BY <3>1, <4>1 DEF Reattached, TypeOK
    <3> QED
      BY <3>2, <3>3
  <2>2. waits_for' \in [Threads -> SUBSET Threads]
        /\ thread_locks' \in [Threads -> SUBSET Addrs]
    BY <1>7 DEF FinishStrategy1, TypeOK
  <2>5. KeysOK'
    BY <1>7 DEF FinishStrategy1, TypeOK, KeysOK
  <2>3. lock_owners' \in [Addrs -> Owners] /\ futex_waiters' \in [Addrs -> SUBSET Threads]
    BY <1>7 DEF FinishStrategy1, TypeOK, Owners, Unlisted
  <2>4. UNCHANGED wait_start_times
    BY <1>7 DEF FinishStrategy1
  <2> QED
    BY <2>1, <2>2, <2>3, <2>4, <2>5 DEF TypeOK
<1>8. CASE EmergencyBreak
  <2>1. tracee' \in [Threads -> Tracees]
    BY <1>8, DeadTypes DEF EmergencyBreak
  <2>2. waits_for' \in [Threads -> SUBSET Threads]
        /\ thread_locks' \in [Threads -> SUBSET Addrs]
    BY <1>8 DEF EmergencyBreak, TypeOK
  <2>3. lock_owners' \in [Addrs -> Owners]
    BY <1>8 DEF EmergencyBreak, TypeOK, Owners
  <2>4. KeysOK'
    BY <1>8 DEF EmergencyBreak, TypeOK, KeysOK
  <2> QED
    BY <1>8, <2>1, <2>2, <2>3, <2>4 DEF EmergencyBreak, TypeOK
<1>9. CASE Crash
  BY <1>9, DeadTypes DEF Crash, TypeOK, KeysOK, maps
<1>11. ASSUME NEW t \in Threads, TakeExit(t)
      PROVE  TypeOK'
  BY <1>11, DeadTypes DEF TakeExit, Collect, TypeOK, KeysOK, maps
<1>10. CASE \/ GroupNameFails \/ GroupDeadlock \/ NobodyToResolve \/ NameFails
            \/ StartStrategy1 \/ ShadowFails \/ EmergencyNameFails \/ EmergencyFails
  BY <1>2, <1>10 DEF GroupNameFails, GroupDeadlock, NobodyToResolve, NameFails,
     StartStrategy1, ShadowFails, EmergencyNameFails, EmergencyFails
<1> QED
  BY <1>3, <1>4, <1>5, <1>6, <1>7, <1>8, <1>9, <1>10, <1>11
  DEF MainLoop, Resolution

-----------------------------------------------------------------------------
(* The records.  is_new is asked before a resolution and the record is     *)
(* made after it: in between nothing may be recorded and the cycle may not *)
(* change.                                                                 *)

RecordsInv ==
    /\ RecordedOnce
    /\ mpc \in {"shadow", "emergency"} => is_new

LEMMA RecordNew ==
    ASSUME DetectorTypes, RecordedOnce, is_new, NEW r \in BOOLEAN, Recorded(r)
    PROVE  RecordedOnce'
<1> DEFINE n == Len(detected_deadlocks)
<1>1. n \in Nat
  BY LenProperties DEF DetectorTypes
<1>2. /\ Len(detected_deadlocks') = n + 1
      /\ \A i \in 1..n : detected_deadlocks'[i] = detected_deadlocks[i]
      /\ detected_deadlocks'[n + 1].cycle = cycle
  BY RecordedTypes
<1>3. SUFFICES ASSUME NEW i \in 1..(n + 1), NEW j \in 1..(n + 1), i # j
               PROVE  detected_deadlocks'[i].cycle # detected_deadlocks'[j].cycle
  BY <1>2 DEF RecordedOnce
<1>4. CASE i \in 1..n /\ j \in 1..n
  BY <1>2, <1>3, <1>4 DEF RecordedOnce
<1>5. CASE i = n + 1 /\ j \in 1..n
  BY <1>2, <1>5 DEF is_new
<1>6. CASE i \in 1..n /\ j = n + 1
  BY <1>2, <1>6 DEF is_new
<1> QED
  BY <1>1, <1>3, <1>4, <1>5, <1>6

LEMMA RecordsStep ==
    ASSUME DetectorTypes, RecordsInv, MainLoop
    PROVE  RecordsInv'
<1> USE DEF RecordsInv
<1>1. ASSUME UNCHANGED detected_deadlocks, mpc' \notin {"shadow", "emergency"}
      PROVE  RecordsInv'
  BY <1>1 DEF RecordedOnce
<1>2. ASSUME NEW t \in Threads, TakeStop(t)
      PROVE  RecordsInv'
  BY <1>1, <1>2 DEF TakeStop, records
<1>3. CASE RecordCall \/ ResumeThread \/ Crash
  BY <1>1, <1>3 DEF RecordCall, ResumeThread, Crash, records
<1>4. CASE Search
  <2>1. UNCHANGED detected_deadlocks
    BY <1>4 DEF Search, BeginPass, NextRoot, Descend, Skip, CloseCycle, Backtrack, EndPass,
       KnownCycle, records
  <2>2. mpc' \notin {"shadow", "emergency"}
    BY <1>4 DEF Search, BeginPass, NextRoot, Descend, Skip, CloseCycle, Backtrack, EndPass,
       KnownCycle, records
  <2> QED
    BY <1>1, <2>1, <2>2
<1>5. CASE GroupNameFails \/ GroupDeadlock \/ NameFails \/ EmergencyNameFails
  BY <1>1, <1>5 DEF GroupNameFails, GroupDeadlock, NameFails, EmergencyNameFails, records
<1>6. CASE NobodyToResolve \/ EmergencyFails
  <2>1. is_new /\ Recorded(FALSE) /\ mpc' = "roots"
    BY <1>6 DEF NobodyToResolve, EmergencyFails
  <2> QED
    BY <2>1, RecordNew
<1>7. CASE StartStrategy1
  BY <1>7 DEF StartStrategy1, RecordedOnce, is_new
<1>8. CASE ShadowFails
  BY <1>8 DEF ShadowFails, search, RecordedOnce, is_new
<1>9. CASE FinishStrategy1
  <2>1. is_new /\ Recorded(TRUE) /\ mpc' \in {"roots", "resume", "crashed"}
    BY <1>9 DEF FinishStrategy1, AfterErase
  <2> QED
    BY <2>1, RecordNew
<1>10. CASE EmergencyBreak
  <2>1. is_new /\ Recorded(TRUE) /\ mpc' \in {"roots", "resume", "crashed"}
    BY <1>10 DEF EmergencyBreak, AfterErase
  <2> QED
    BY <2>1, RecordNew
<1>11. ASSUME NEW t \in Threads, TakeExit(t)
       PROVE  RecordsInv'
  BY <1>11 DEF TakeExit, detector, search, records, RecordedOnce, is_new
<1> QED
  BY <1>2, <1>3, <1>4, <1>5, <1>6, <1>7, <1>8, <1>9, <1>10, <1>11 DEF MainLoop, Resolution

(* A step that leaves the detector alone leaves its invariants alone. *)
LEMMA DetectorIdle ==
    ASSUME UNCHANGED detector
    PROVE  /\ DetectorTypes => DetectorTypes'
           /\ RecordsInv => RecordsInv'
  BY DEF detector, search, records, DetectorTypes, RecordsInv, RecordedOnce, is_new

-----------------------------------------------------------------------------
(* The switch.  Every record was counted before; a resolution has counted  *)
(* what it has not recorded yet; and with the monitor off nothing is       *)
(* searched, so that what put it off stays uncounted for.                  *)

OffInv ==
    /\ Len(detected_deadlocks) <= deadlock_counter
    /\ mpc \in {"shadow", "emergency"} => Len(detected_deadlocks) < deadlock_counter
    /\ ~ monitoring_active =>
          /\ mpc \in {"wait", "handle", "resume", "shadow", "detach", "gone"}
          /\ Len(detected_deadlocks) < deadlock_counter

LEMMA OffStep ==
    ASSUME DetectorTypes, OffInv, MainLoop
    PROVE  OffInv'
<1> DEFINE n == Len(detected_deadlocks)
<1>0. n \in Nat /\ deadlock_counter \in Nat /\ monitoring_active \in BOOLEAN
  BY LenProperties DEF DetectorTypes
<1>1. ASSUME NEW r \in BOOLEAN, Recorded(r)
      PROVE  Len(detected_deadlocks') = n + 1
  BY <1>1, RecordedTypes
<1> USE DEF OffInv
<1>2. ASSUME NEW t \in Threads, TakeStop(t)
      PROVE  OffInv'
  BY <1>2 DEF TakeStop, records
<1>3. CASE RecordCall \/ ResumeThread \/ Crash
  BY <1>3 DEF RecordCall, ResumeThread, Crash, records
<1>4. CASE Search
  <2>1. UNCHANGED records /\ mpc \in {"detect", "roots", "dfs", "report"}
    BY <1>4 DEF Search, BeginPass, NextRoot, Descend, Skip, CloseCycle, Backtrack, EndPass,
       KnownCycle
  <2>2. mpc' \notin {"shadow", "emergency"}
    BY <1>4 DEF Search, BeginPass, NextRoot, Descend, Skip, CloseCycle, Backtrack, EndPass,
       KnownCycle
  <2> QED
    BY <2>1, <2>2 DEF records
<1>5. CASE GroupNameFails \/ EmergencyNameFails
  BY <1>5 DEF GroupNameFails, EmergencyNameFails, records
<1>6. CASE GroupDeadlock \/ NameFails \/ StartStrategy1
  <2>1. /\ n < deadlock_counter + 1 /\ n <= deadlock_counter + 1
    BY <1>0
  <2>2. /\ UNCHANGED detected_deadlocks
        /\ deadlock_counter' = deadlock_counter + 1
        /\ mpc' \in {"resume", "shadow"}
    BY <1>6 DEF GroupDeadlock, NameFails, StartStrategy1
  <2> QED
    BY <2>1, <2>2
<1>7. CASE ShadowFails
  BY <1>7 DEF ShadowFails
<1>8. CASE NobodyToResolve
  <2>1. n + 1 <= deadlock_counter + 1
    BY <1>0
  <2>2. monitoring_active
    BY <1>8 DEF NobodyToResolve
  <2>3. /\ Len(detected_deadlocks') = n + 1
        /\ deadlock_counter' = deadlock_counter + 1
        /\ mpc' = "roots" /\ monitoring_active' = monitoring_active
    BY <1>1, <1>8 DEF NobodyToResolve
  <2> QED
    BY <2>1, <2>2, <2>3
<1>9. CASE FinishStrategy1 \/ EmergencyBreak \/ EmergencyFails
  <2>1. n + 1 <= deadlock_counter
    <3>1. n < deadlock_counter
      BY <1>9 DEF FinishStrategy1, EmergencyBreak, EmergencyFails
    <3> QED
      BY <1>0, <3>1
  <2>2. monitoring_active'
    BY <1>9 DEF FinishStrategy1, EmergencyBreak, EmergencyFails
  <2>3. /\ Len(detected_deadlocks') = n + 1
        /\ deadlock_counter' = deadlock_counter
        /\ mpc' \in {"roots", "resume", "crashed"}
    BY <1>1, <1>9 DEF FinishStrategy1, EmergencyBreak, EmergencyFails, AfterErase
  <2> QED
    BY <2>1, <2>2, <2>3
<1>10. ASSUME NEW t \in Threads, TakeExit(t)
       PROVE  OffInv'
  BY <1>10 DEF TakeExit, detector, records
<1> QED
  BY <1>2, <1>3, <1>4, <1>5, <1>6, <1>7, <1>8, <1>9, <1>10 DEF MainLoop, Resolution

-----------------------------------------------------------------------------
(* A pass of the thread search (dfs_deadlock and its caller): what is      *)
(* known while it has found nothing, and what its first finding and its    *)
(* end without one mean.                                                   *)


Following(i) == IF i < Len(frames) THEN {frames[i + 1].node} ELSE {}

(* Threads the search has left: every one of their edges was followed. *)
Done == visited \ stack

(* The activations of dfs_deadlock are a path through the graph, and their *)
(* threads are those of rec_stack.                                         *)
PathInv ==
    /\ stack = {frames[i].node : i \in 1..Len(frames)}
    /\ \A i, j \in 1..Len(frames) : frames[i].node = frames[j].node => i = j
    /\ \A i \in 1..(Len(frames) - 1) : frames[i + 1].node \in waits_for[frames[i].node]
    /\ \A i \in 1..Len(frames) : frames[i].todo \subseteq waits_for[frames[i].node]

(* An edge leads from a thread left to threads left, and so do the edges   *)
(* an activation has followed, but for the one it is following.            *)
LeftInv ==
    /\ stack \subseteq visited
    /\ \A n \in Done : waits_for[n] \subseteq Done
    /\ \A i \in 1..Len(frames) :
         waits_for[frames[i].node] \ frames[i].todo \subseteq Done \cup Following(i)

(* No set of threads left waits for itself. *)
AcyclicInv == \A S \in SUBSET Done : S # {} => \E n \in S : waits_for[n] \cap S = {}

(* No key is forgotten. *)
RootsInv == wait_keys \subseteq visited \cup roots

PassInv == mpc \in {"roots", "dfs"} /\ hits = 0 => PathInv /\ LeftInv /\ AcyclicInv /\ RootsInv

HitInv == /\ mpc \in {"report", "shadow", "emergency"} => hits > 0
          /\ mpc = "report" /\ hits = 1 => ClosedWalk(cycle)

(* One step of a pass without a finding, action by action. *)

LEMMA BeginPassStep ==
    ASSUME TypeOK, DetectorTypes, BeginPass
    PROVE  PassInv'
<1>1. /\ roots' = wait_keys /\ visited' = {} /\ stack' = {} /\ frames' = <<>>
      /\ UNCHANGED <<waits_for, wait_keys>>
  BY DEF BeginPass, maps
<1>2. Len(frames') = 0 /\ 1..Len(frames') = {} /\ 1..(Len(frames') - 1) = {}
  BY <1>1
<1>3. PathInv'
  BY <1>1, <1>2 DEF PathInv
<1>4. LeftInv'
  BY <1>1, <1>2 DEF LeftInv, Done
<1>5. AcyclicInv' /\ RootsInv'
  BY <1>1 DEF AcyclicInv, RootsInv, Done
<1> QED
  BY <1>3, <1>4, <1>5 DEF PassInv

LEMMA NextRootStep ==
    ASSUME TypeOK, DetectorTypes, PassInv, NEW t \in Threads, NextRoot(t)
    PROVE  PassInv'
<1>1. SUFFICES ASSUME hits = 0
               PROVE  PathInv' /\ LeftInv' /\ AcyclicInv' /\ RootsInv'
  BY DEF NextRoot, PassInv
<1>2. PathInv /\ LeftInv /\ AcyclicInv /\ RootsInv /\ frames = <<>>
  BY <1>1 DEF NextRoot, PassInv, DetectorTypes
<1>3. UNCHANGED <<waits_for, wait_keys>> /\ roots' = roots \ {t}
  BY DEF NextRoot, maps
<1>4. stack = {}
  BY <1>2 DEF PathInv
<1>5. CASE t \in visited
  <2>1. UNCHANGED <<visited, stack, frames>>
    BY <1>5 DEF NextRoot
  <2> QED
    BY <1>2, <1>3, <1>5, <2>1 DEF PathInv, LeftInv, AcyclicInv, RootsInv, Done, Following
<1>6. CASE t \notin visited
  <2>1. /\ visited' = visited \cup {t} /\ stack' = {t}
        /\ frames' = <<[node |-> t, todo |-> waits_for[t]]>>
    BY <1>4, <1>6 DEF NextRoot
  <2>2. /\ Len(frames') = 1 /\ frames'[1].node = t /\ frames'[1].todo = waits_for[t]
        /\ 1..Len(frames') = {1} /\ 1..(Len(frames') - 1) = {}
    BY <2>1
  <2>3. Done' = Done
    BY <1>4, <1>6, <2>1 DEF Done
  <2>4. PathInv'
    BY <1>3, <2>1, <2>2 DEF PathInv
  <2>5. LeftInv'
    BY <1>2, <1>3, <2>1, <2>2, <2>3 DEF LeftInv
  <2>6. AcyclicInv' /\ RootsInv'
    BY <1>2, <1>3, <2>1, <2>3 DEF AcyclicInv, RootsInv
  <2> QED
    BY <2>4, <2>5, <2>6
<1> QED
  BY <1>5, <1>6

LEMMA DescendStep ==
    ASSUME TypeOK, DetectorTypes, PassInv, NEW n \in Threads, Descend(n)
    PROVE  PassInv'
<1> DEFINE L == Len(frames)
           f == [node |-> n, todo |-> waits_for[n]]
<1>1. SUFFICES ASSUME hits = 0
               PROVE  PathInv' /\ LeftInv' /\ AcyclicInv' /\ RootsInv'
  BY DEF Descend, PassInv
<1>2. PathInv /\ LeftInv /\ AcyclicInv /\ RootsInv
  BY <1>1 DEF Descend, PassInv
<1>3. /\ mpc = "dfs" /\ n \in top.todo /\ n \notin stack /\ n \notin visited
      /\ UNCHANGED <<waits_for, wait_keys>> /\ roots' = roots
      /\ visited' = visited \cup {n} /\ stack' = stack \cup {n}
      /\ frames' = Append(Taken(n), f)
  BY DEF Descend, maps
<1>4. /\ L \in Nat \ {0} /\ top = frames[L]
      /\ top.node \in Threads /\ top.todo \subseteq Threads
  BY <1>3, TopFrame DEF top
<1>5. /\ Len(frames') = L + 1
      /\ \A i \in 1..L : /\ frames'[i].node = frames[i].node
                         /\ i # L => frames'[i].todo = frames[i].todo
      /\ frames'[L].todo = top.todo \ {n}
      /\ frames'[L + 1].node = n /\ frames'[L + 1].todo = waits_for[n]
  <2>1. f \in Frames
    BY DEF Frames, TypeOK
  <2>2. f.node = n /\ f.todo = waits_for[n]
    OBVIOUS
  <2> HIDE DEF f
  <2>3. /\ Taken(n) \in Seq(Frames) /\ Len(Taken(n)) = L
        /\ \A i \in 1..L : Taken(n)[i] = IF i = L THEN [node |-> top.node, todo |-> top.todo \ {n}]
                                         ELSE frames[i]
    BY <1>3, TakenFrames
  <2>4. /\ Len(frames') = L + 1 /\ frames'[L + 1] = f
        /\ \A i \in 1..L : frames'[i] = Taken(n)[i]
    BY <1>3, <2>1, <2>3, AppendProperties
  <2> QED
    BY <1>4, <2>2, <2>3, <2>4
<1> HIDE DEF f
<1>6. Done' = Done
  BY <1>3 DEF Done
<1>7. PathInv'
  <2>1. stack' = {frames'[i].node : i \in 1..Len(frames')}
    <3>1. stack = {frames[i].node : i \in 1..L}
      BY <1>2 DEF PathInv
    <3> QED
      BY <1>3, <1>4, <1>5, <3>1
  <2>2. \A i, j \in 1..Len(frames') : frames'[i].node = frames'[j].node => i = j
    <3>1. \A i \in 1..L : frames[i].node # n
      BY <1>2, <1>3 DEF PathInv
    <3>2. \A i, j \in 1..L : frames[i].node = frames[j].node => i = j
      BY <1>2 DEF PathInv
    <3> QED
      BY <1>4, <1>5, <3>1, <3>2
  <2>3. ASSUME NEW i \in 1..(Len(frames') - 1)
        PROVE  frames'[i + 1].node \in waits_for'[frames'[i].node]
    <3>1. CASE i = L
      BY <1>2, <1>3, <1>4, <1>5, <3>1 DEF PathInv
    <3>2. CASE i # L
      <4>1. i \in 1..(L - 1) /\ i \in 1..L /\ i + 1 \in 1..L
        BY <1>4, <1>5, <3>2
      <4> QED
        BY <1>2, <1>3, <1>5, <4>1 DEF PathInv
    <3> QED
      BY <3>1, <3>2
  <2>4. ASSUME NEW i \in 1..Len(frames')
        PROVE  frames'[i].todo \subseteq waits_for'[frames'[i].node]
    <3>1. CASE i = L + 1
      BY <1>3, <1>5, <3>1
    <3>2. CASE i \in 1..L
      BY <1>2, <1>3, <1>4, <1>5, <3>2 DEF PathInv
    <3> QED
      BY <1>4, <1>5, <3>1, <3>2
  <2> QED
    BY <2>1, <2>2, <2>3, <2>4 DEF PathInv
<1>8. LeftInv'
  <2>1. ASSUME NEW i \in 1..Len(frames')
        PROVE  waits_for'[frames'[i].node] \ frames'[i].todo \subseteq Done' \cup Following(i)'
    <3>1. CASE i = L + 1
      BY <1>3, <1>5, <3>1
    <3>2. CASE i = L
      BY <1>2, <1>3, <1>4, <1>5, <1>6, <3>2 DEF LeftInv, Following
    <3>3. CASE i \in 1..(L - 1)
      <4>1. i \in 1..L /\ i + 1 \in 1..L /\ i # L /\ i < L /\ i < L + 1
        BY <1>4, <3>3
      <4> QED
        BY <1>2, <1>3, <1>5, <1>6, <4>1 DEF LeftInv, Following
    <3> QED
      BY <1>4, <1>5, <3>1, <3>2, <3>3
  <2>2. stack' \subseteq visited' /\ \A m \in Done' : waits_for'[m] \subseteq Done'
    BY <1>2, <1>3, <1>6 DEF LeftInv
  <2> QED
    BY <2>1, <2>2 DEF LeftInv
<1>9. AcyclicInv' /\ RootsInv'
  BY <1>2, <1>3, <1>6 DEF AcyclicInv, RootsInv
<1> QED
  BY <1>7, <1>8, <1>9

LEMMA SkipStep ==
    ASSUME TypeOK, DetectorTypes, PassInv, NEW n \in Threads, Skip(n)
    PROVE  PassInv'
<1> DEFINE L == Len(frames)
<1>1. SUFFICES ASSUME hits = 0
               PROVE  PathInv' /\ LeftInv' /\ AcyclicInv' /\ RootsInv'
  BY DEF Skip, PassInv
<1>2. PathInv /\ LeftInv /\ AcyclicInv /\ RootsInv
  BY <1>1 DEF Skip, PassInv
<1>3. /\ mpc = "dfs" /\ n \in top.todo /\ n \in Done
      /\ UNCHANGED <<waits_for, wait_keys, roots, visited, stack>>
      /\ frames' = Taken(n)
  BY DEF Skip, maps, Done
<1>4. /\ L \in Nat \ {0} /\ top = frames[L]
  BY <1>3, TopFrame DEF top
<1>5. /\ Len(frames') = L
      /\ \A i \in 1..L : /\ frames'[i].node = frames[i].node
                         /\ frames'[i].todo \subseteq frames[i].todo
                         /\ i # L => frames'[i].todo = frames[i].todo
      /\ frames'[L].todo = top.todo \ {n}
  <2>1. /\ Len(frames') = L
        /\ \A i \in 1..L : frames'[i] = IF i = L THEN [node |-> top.node, todo |-> top.todo \ {n}]
                                        ELSE frames[i]
    BY <1>3, TakenFrames
  <2> QED
    BY <1>4, <2>1
<1>6. Done' = Done
  BY <1>3 DEF Done
<1>7. PathInv'
  <2>1. stack' = {frames'[i].node : i \in 1..Len(frames')}
    BY <1>2, <1>3, <1>5 DEF PathInv
  <2>2. \A i \in 1..(L - 1) : i \in 1..L /\ i + 1 \in 1..L
    BY <1>4
  <2>3. \A i \in 1..L : frames'[i].todo \subseteq waits_for'[frames'[i].node]
    BY <1>2, <1>3, <1>5 DEF PathInv
  <2>4. \A i, j \in 1..L : frames'[i].node = frames'[j].node => i = j
    BY <1>2, <1>5 DEF PathInv
  <2>5. \A i \in 1..(L - 1) : frames'[i + 1].node \in waits_for'[frames'[i].node]
    BY <1>2, <1>3, <1>5, <2>2 DEF PathInv
  <2> QED
    BY <1>5, <2>1, <2>3, <2>4, <2>5 DEF PathInv
<1>8. LeftInv'
  <2>1. ASSUME NEW i \in 1..Len(frames')
        PROVE  waits_for'[frames'[i].node] \ frames'[i].todo \subseteq Done' \cup Following(i)'
    <3>1. Following(i)' = Following(i)
      <4>1. CASE i = L
        BY <1>4, <1>5, <4>1 DEF Following
      <4>2. CASE i # L
        <5>1. i < L /\ i < Len(frames') /\ i + 1 \in 1..L
          BY <1>4, <1>5, <4>2
        <5> QED
          BY <1>5, <5>1 DEF Following
      <4> QED
        BY <4>1, <4>2
    <3>2. waits_for[frames[i].node] \ frames[i].todo \subseteq Done \cup Following(i)
      BY <1>2, <1>5 DEF LeftInv
    <3>3. i # L => frames'[i].todo = frames[i].todo
      BY <1>5
    <3>4. frames'[L].todo = frames[L].todo \ {n} /\ frames'[i].node = frames[i].node
      BY <1>4, <1>5
    <3> QED
      BY <1>3, <1>6, <3>1, <3>2, <3>3, <3>4
  <2> QED
    BY <1>2, <1>3, <1>6, <2>1 DEF LeftInv
<1>9. AcyclicInv' /\ RootsInv'
  BY <1>2, <1>3, <1>6 DEF AcyclicInv, RootsInv
<1> QED
  BY <1>7, <1>8, <1>9

LEMMA BacktrackStep ==
    ASSUME TypeOK, DetectorTypes, PassInv, Backtrack
    PROVE  PassInv'
<1> DEFINE L == Len(frames)
           n == top.node
<1>1. SUFFICES ASSUME hits = 0
               PROVE  PathInv' /\ LeftInv' /\ AcyclicInv' /\ RootsInv'
  BY DEF Backtrack, PassInv
<1>2. PathInv /\ LeftInv /\ AcyclicInv /\ RootsInv
  BY <1>1 DEF Backtrack, PassInv
<1>3. /\ mpc = "dfs" /\ top.todo = {}
      /\ UNCHANGED <<waits_for, wait_keys, roots, visited>>
      /\ stack' = stack \ {n}
      /\ frames' = SubSeq(frames, 1, L - 1)
  BY DEF Backtrack, maps
<1>4. /\ L \in Nat \ {0} /\ top = frames[L] /\ L \in 1..L
  BY <1>3, TopFrame DEF top
<1>5. /\ Len(frames') = L - 1
      /\ \A i \in 1..(L - 1) : frames'[i] = frames[i] /\ i \in 1..L /\ i # L
  BY <1>3, <1>4, PoppedFrames
<1>6. n \in stack /\ n \in visited /\ n \notin Done /\ Done' = Done \cup {n}
  <2>1. n \in stack
    BY <1>2, <1>4 DEF PathInv
  <2> QED
    BY <1>2, <1>3, <2>1 DEF LeftInv, Done
<1>7. waits_for[n] \subseteq Done
  <2>1. waits_for[frames[L].node] \ frames[L].todo \subseteq Done \cup Following(L)
    BY <1>2, <1>4 DEF LeftInv
  <2> QED
    BY <1>3, <1>4, <2>1 DEF Following
<1>8. PathInv'
  <2>1. stack' = {frames'[i].node : i \in 1..Len(frames')}
    <3>1. stack = {frames[i].node : i \in 1..L}
          /\ \A i \in 1..L : frames[i].node = frames[L].node => i = L
      BY <1>2, <1>4 DEF PathInv
    <3>2. \A i \in 1..L : i = L \/ i \in 1..(L - 1)
      BY <1>4
    <3>3. stack' = {frames[i].node : i \in 1..(L - 1)}
      BY <1>3, <1>4, <1>5, <3>1, <3>2
    <3> QED
      BY <1>5, <3>3
  <2>2. \A i, j \in 1..(L - 1) : frames'[i].node = frames'[j].node => i = j
    BY <1>2, <1>5 DEF PathInv
  <2>3. ASSUME NEW i \in 1..(L - 1 - 1)
        PROVE  frames'[i + 1].node \in waits_for'[frames'[i].node]
    <3>1. i \in 1..(L - 1) /\ i + 1 \in 1..(L - 1)
      BY <1>4
    <3> QED
      BY <1>2, <1>3, <1>5, <3>1 DEF PathInv
  <2>4. \A i \in 1..(L - 1) : frames'[i].todo \subseteq waits_for'[frames'[i].node]
    BY <1>2, <1>3, <1>5 DEF PathInv
  <2> QED
    BY <1>5, <2>1, <2>2, <2>3, <2>4 DEF PathInv
<1>9. LeftInv'
  <2>1. stack' \subseteq visited' /\ \A m \in Done' : waits_for'[m] \subseteq Done'
    BY <1>2, <1>3, <1>6, <1>7 DEF LeftInv
  <2>2. ASSUME NEW i \in 1..(L - 1)
        PROVE  waits_for'[frames'[i].node] \ frames'[i].todo \subseteq Done' \cup Following(i)'
    <3>1. waits_for[frames[i].node] \ frames[i].todo \subseteq Done \cup Following(i)
      BY <1>2, <1>5 DEF LeftInv
    <3>2. Following(i) \subseteq {n} \cup Following(i)'
      <4>1. CASE i = L - 1
        BY <1>4, <4>1 DEF Following
      <4>2. CASE i # L - 1
        <5>1. i < L /\ i < L - 1 /\ i + 1 \in 1..(L - 1)
          BY <1>4, <4>2
        <5> QED
          BY <1>5, <5>1 DEF Following
      <4> QED
        BY <4>1, <4>2
    <3> QED
      BY <1>3, <1>5, <1>6, <3>1, <3>2
  <2> QED
    BY <1>5, <2>1, <2>2 DEF LeftInv
<1>10. AcyclicInv'
  <2>1. SUFFICES ASSUME NEW S \in SUBSET (Done \cup {n}), S # {}
                 PROVE  \E m \in S : waits_for[m] \cap S = {}
    BY <1>3, <1>6 DEF AcyclicInv
  <2>2. CASE S \ {n} = {}
    BY <1>6, <1>7, <2>1, <2>2
  <2>3. CASE S \ {n} # {}
    <3>1. S \ {n} \in SUBSET Done
      BY <2>1
    <3>2. PICK m \in S \ {n} : waits_for[m] \cap (S \ {n}) = {}
      BY <1>2, <2>3, <3>1 DEF AcyclicInv
    <3>3. n \notin waits_for[m]
      BY <1>2, <1>6, <3>1, <3>2 DEF LeftInv
    <3> QED
      BY <3>2, <3>3
  <2> QED
    BY <2>2, <2>3
<1>11. RootsInv'
  BY <1>2, <1>3 DEF RootsInv
<1> QED
  BY <1>8, <1>9, <1>10, <1>11

(* The first finding. *)
LEMMA FindingIsWalk ==
    ASSUME TypeOK, DetectorTypes, PassInv, NEW n \in Threads, CloseCycle(n), hits = 0
    PROVE  ClosedWalk(cycle)'
<1> DEFINE L == Len(frames)
<1>1. /\ PathInv /\ mpc = "dfs" /\ n \in top.todo /\ n \in stack
      /\ waits_for' = waits_for
  BY DEF CloseCycle, PassInv, maps
<1>2. L \in Nat \ {0} /\ top = frames[L] /\ L \in 1..L
  BY <1>1, TopFrame DEF top
<1>3. /\ Len(cycle') = L + 1
      /\ \A i \in 1..L : cycle'[i] = frames[i].node
      /\ cycle'[L + 1] = n
  BY ClosedPath DEF CloseCycle
<1>4. ASSUME NEW i \in 1..(Len(cycle') - 1)
      PROVE  cycle'[i + 1] \in waits_for'[cycle'[i]]
  <2>1. CASE i = L
    BY <1>1, <1>2, <1>3, <2>1 DEF PathInv
  <2>2. CASE i # L
    <3>1. i \in 1..(L - 1) /\ i \in 1..L /\ i + 1 \in 1..L
      BY <1>2, <1>3, <2>2
    <3> QED
      BY <1>1, <1>3, <3>1 DEF PathInv
  <2> QED
    BY <2>1, <2>2
<1>5. \E i \in 1..(Len(cycle') - 1) : cycle'[i] = cycle'[Len(cycle')]
  <2>1. PICK i \in 1..L : frames[i].node = n
    BY <1>1 DEF PathInv
  <2>2. i \in 1..(Len(cycle') - 1)
    BY <1>2, <1>3
  <2> QED
    BY <1>3, <2>1, <2>2
<1> QED
  BY <1>4, <1>5 DEF ClosedWalk

(* A closed walk goes round a set of threads that waits for itself. *)
LEMMA WalkHasLoop ==
    ASSUME NEW c \in Seq(Threads), ClosedWalk(c)
    PROVE  \E S \in SUBSET Threads : S # {} /\ \A n \in S : waits_for[n] \cap S # {}
<1> DEFINE L == Len(c)
<1>1. L \in Nat /\ \A i \in 1..L : c[i] \in Threads
  BY LenProperties, ElementOfSeq
<1>2. PICK i \in 1..(L - 1) : c[i] = c[L]
  BY DEF ClosedWalk
<1> DEFINE S == {c[j] : j \in i..(L - 1)}
<1>3. i \in Nat /\ i <= L - 1 /\ i >= 1
  BY <1>1
<1>4. S \in SUBSET Threads
  BY <1>1, <1>3
<1>5. c[i] \in S
  BY <1>1, <1>3
<1>6. ASSUME NEW j \in i..(L - 1)
      PROVE  waits_for[c[j]] \cap S # {}
  <2>1. c[j + 1] \in waits_for[c[j]]
    <3>1. j \in 1..(L - 1)
      BY <1>1, <1>3
    <3> QED
      BY <3>1 DEF ClosedWalk
  <2>2. c[j + 1] \in S
    <3>1. CASE j = L - 1
      BY <1>1, <1>2, <1>5, <3>1
    <3>2. CASE j # L - 1
      <4>1. j + 1 \in i..(L - 1)
        BY <1>1, <1>3, <3>2
      <4> QED
        BY <4>1
    <3> QED
      BY <3>1, <3>2
  <2> QED
    BY <2>1, <2>2
<1>7. S # {} /\ \A n \in S : waits_for[n] \cap S # {}
  BY <1>5, <1>6
<1> QED
  BY <1>4, <1>7

(* A pass that ends without a finding leaves no set that waits for itself. *)
LEMMA EndIsAcyclic ==
    ASSUME TypeOK, DetectorTypes, PassInv, mpc = "roots", roots = {}, hits = 0
    PROVE  ~ \E S \in SUBSET Threads : S # {} /\ \A n \in S : waits_for[n] \cap S # {}
<1>1. SUFFICES ASSUME NEW S \in SUBSET Threads, S # {},
                      \A n \in S : waits_for[n] \cap S # {}
               PROVE  FALSE
  OBVIOUS
<1>2. PathInv /\ LeftInv /\ AcyclicInv /\ RootsInv /\ frames = <<>>
  BY DEF PassInv, DetectorTypes
<1>3. Done = visited
  BY <1>2 DEF PathInv, Done
<1>4. S \subseteq Done
  <2>1. S \subseteq wait_keys
    BY <1>1 DEF TypeOK, KeysOK
  <2> QED
    BY <1>2, <1>3, <2>1 DEF RootsInv, DetectorTypes
<1> QED
  BY <1>1, <1>2, <1>4 DEF AcyclicInv

-----------------------------------------------------------------------------
(* The pass in the main loop: a step outside it leaves it or counts a      *)
(* finding, and no call is recorded while it runs.                         *)

LEMMA PassStep ==
    ASSUME TypeOK, DetectorTypes, PassInv, HitInv, MainLoop
    PROVE  PassInv'
<1>1. CASE BeginPass
  BY <1>1, BeginPassStep
<1>2. ASSUME NEW t \in Threads, NextRoot(t) \/ Descend(t) \/ Skip(t)
      PROVE  PassInv'
  BY <1>2, NextRootStep, DescendStep, SkipStep
<1>3. ASSUME NEW t \in Threads, CloseCycle(t)
      PROVE  PassInv'
  BY <1>3 DEF CloseCycle, PassInv
<1>4. CASE Backtrack
  BY <1>4, BacktrackStep
<1>5. CASE EndPass
  BY <1>5 DEF EndPass, PassInv
<1>6. ASSUME mpc \in {"report", "shadow", "emergency"}, hits' = hits
      PROVE  PassInv'
  BY <1>6 DEF HitInv, PassInv, DetectorTypes
<1>7. CASE KnownCycle
  BY <1>6, <1>7 DEF KnownCycle, search
<1>8. CASE \/ GroupNameFails \/ GroupDeadlock \/ NameFails \/ StartStrategy1 \/ ShadowFails
           \/ EmergencyNameFails
  BY <1>8 DEF GroupNameFails, GroupDeadlock, NameFails, StartStrategy1, ShadowFails,
     EmergencyNameFails, PassInv
<1>9. CASE NobodyToResolve \/ FinishStrategy1 \/ EmergencyBreak \/ EmergencyFails
  BY <1>6, <1>9 DEF NobodyToResolve, FinishStrategy1, EmergencyBreak, EmergencyFails, search
<1>10. CASE RecordCall \/ ResumeThread \/ Crash
  BY <1>10 DEF RecordCall, ResumeThread, Crash, PassInv
<1>11. ASSUME NEW t \in Threads, TakeStop(t)
       PROVE  PassInv'
  BY <1>11 DEF TakeStop, PassInv
<1>12. ASSUME NEW t \in Threads, TakeExit(t)
       PROVE  PassInv'
  BY <1>12 DEF TakeExit, detector, PassInv
<1> QED
  BY <1>1, <1>2, <1>3, <1>4, <1>5, <1>7, <1>8, <1>9, <1>10, <1>11, <1>12
     DEF MainLoop, Search, Resolution

LEMMA HitStep ==
    ASSUME TypeOK, DetectorTypes, PassInv, HitInv, MainLoop
    PROVE  HitInv'
<1>1. ASSUME mpc' \notin {"report", "shadow", "emergency"}
      PROVE  HitInv'
  BY <1>1 DEF HitInv
<1>2. ASSUME NEW t \in Threads, CloseCycle(t)
      PROVE  HitInv'
  <2>1. mpc' = "report" /\ hits' = hits + 1 /\ hits \in Nat
    BY <1>2 DEF CloseCycle, DetectorTypes
  <2>2. hits' > 0 /\ (hits' = 1 => hits = 0)
    BY <2>1
  <2> QED
    BY <1>2, <2>1, <2>2, FindingIsWalk DEF HitInv
<1>3. CASE StartStrategy1 \/ ShadowFails
  BY <1>3 DEF StartStrategy1, ShadowFails, search, HitInv
<1>4. ASSUME NEW t \in Threads, TakeStop(t)
      PROVE  HitInv'
  BY <1>1, <1>4 DEF TakeStop
<1>5. CASE RecordCall \/ ResumeThread \/ Crash
  BY <1>1, <1>5 DEF RecordCall, ResumeThread, Crash
<1>6. CASE BeginPass \/ Backtrack \/ EndPass \/ KnownCycle
  BY <1>1, <1>6 DEF BeginPass, Backtrack, EndPass, KnownCycle
<1>7. ASSUME NEW t \in Threads, NextRoot(t) \/ Descend(t) \/ Skip(t)
      PROVE  HitInv'
  BY <1>1, <1>7 DEF NextRoot, Descend, Skip
<1>8. CASE \/ GroupNameFails \/ GroupDeadlock \/ NameFails \/ NobodyToResolve
           \/ EmergencyNameFails \/ EmergencyFails
  BY <1>1, <1>8 DEF GroupNameFails, GroupDeadlock, NameFails, NobodyToResolve,
     EmergencyNameFails, EmergencyFails
<1>9. CASE FinishStrategy1 \/ EmergencyBreak
  BY <1>1, <1>9 DEF FinishStrategy1, EmergencyBreak, AfterErase
<1>10. ASSUME NEW t \in Threads, TakeExit(t)
       PROVE  HitInv'
  BY <1>1, <1>10 DEF TakeExit, detector
<1> QED
  BY <1>2, <1>3, <1>4, <1>5, <1>6, <1>7, <1>8, <1>9, <1>10 DEF MainLoop, Search, Resolution

-----------------------------------------------------------------------------
(* The victims.  While strategy 1 runs its victim is in the vector behind  *)
(* threads that are gone; nobody comes back, so this holds of every victim *)
(* of a recorded resolution for ever.                                      *)

(* v is the first thread of the sequence c that is not gone, or was. *)
VictimOf(c, v) ==
    \E k \in 1..Len(c) : c[k] = v /\ \A j \in 1..(k - 1) : ~ Alive(c[j])

VictimInv == mpc = "shadow" => VictimOf(cycle, victim)

(* Threads die, and none comes back. *)
NoneReturns == \A t \in Threads : Alive(t)' => Alive(t)

LEMMA VictimsStay ==
    ASSUME NoneReturns, NEW c \in Seq(Threads), NEW v, VictimOf(c, v)
    PROVE  VictimOf(c, v)'
<1>1. PICK k \in 1..Len(c) : c[k] = v /\ \A j \in 1..(k - 1) : ~ Alive(c[j])
  BY DEF VictimOf
<1>2. ASSUME NEW j \in 1..(k - 1) PROVE ~ Alive(c[j])'
  <2>1. Len(c) \in Nat
    BY LenProperties
  <2>2. j \in 1..Len(c)
    BY <2>1
  <2>3. c[j] \in Threads
    BY <2>2, ElementOfSeq
  <2> QED
    BY <1>1, <2>3 DEF NoneReturns
<1> QED
  BY <1>1, <1>2 DEF VictimOf

LEMMA WasVictimStays ==
    ASSUME DetectorTypes, NoneReturns, NEW v, WasVictim(v),
           \A i \in 1..Len(detected_deadlocks) :
              /\ i \in 1..Len(detected_deadlocks')
              /\ detected_deadlocks'[i] = detected_deadlocks[i]
    PROVE  WasVictim(v)'
<1>1. PICK i \in 1..Len(detected_deadlocks) :
         detected_deadlocks[i].resolved /\ VictimOf(detected_deadlocks[i].cycle, v)
  BY DEF WasVictim, VictimOf
<1>2. detected_deadlocks[i] \in Deadlocks
  BY <1>1, ElementOfSeq DEF DetectorTypes
<1>3. detected_deadlocks[i].cycle \in Seq(Threads)
  BY <1>2 DEF Deadlocks
<1> DEFINE c == detected_deadlocks[i].cycle
<1>4. VictimOf(c, v)'
  <2> SUFFICES ASSUME NEW d, d = c PROVE VictimOf(d, v)'
    OBVIOUS
  <2> QED
    BY <1>1, <1>3, VictimsStay
<1> QED
  BY <1>1, <1>4 DEF WasVictim, VictimOf

LEMMA VictimsAreFirst ==
    ASSUME DetectorTypes, NEW v \in Victims
    PROVE  VictimOf(cycle, v)
<1>1. PICK i \in 1..Len(cycle) :
         v = cycle[i] /\ \A k \in 1..(i - 1) : ~ Alive(cycle[k])
  BY DEF Victims, Candidates
<1> QED
  BY <1>1 DEF VictimOf

LEMMA ResumedLives ==
    ASSUME TypeOK, NEW u \in Threads, Stopped(u), tracee' = [tracee EXCEPT ![u] = Resumed(@)]
    PROVE  NoneReturns
<1>1. tracee[u].phase # "dead" /\ tracee \in [Threads -> Tracees]
  BY DEF Stopped, TypeOK
<1> QED
  BY <1>1 DEF NoneReturns, Alive

LEMMA LoopNoneReturns ==
    ASSUME TypeOK, DetectorTypes, MainLoop
    PROVE  NoneReturns
<1>0. tracee \in [Threads -> Tracees] /\ Dead.phase = "dead"
  BY DEF TypeOK, Dead
<1>1. ASSUME UNCHANGED tracee
      PROVE  NoneReturns
  BY <1>1 DEF NoneReturns, Alive
<1>2. CASE RecordCall \/ \E t \in Threads : TakeStop(t)
  BY <1>1, <1>2 DEF RecordCall, TakeStop
<1>3. ASSUME NEW t \in Threads, TakeExit(t)
      PROVE  NoneReturns
  <2>1. tracee' = [tracee EXCEPT ![t] = Dead]
    BY <1>3 DEF TakeExit, Collect
  <2> QED
    BY <1>0, <2>1 DEF NoneReturns, Alive
<1>4. CASE ResumeThread
  BY <1>1, <1>4, ResumedLives DEF ResumeThread, DetectorTypes
<1>5. CASE Search
  BY <1>1, <1>5, SearchReads
<1>6. CASE FinishStrategy1
  <2>1. tracee' = Reattached(victim)
    BY <1>6 DEF FinishStrategy1
  <2>2. CASE victim \in Threads /\ Stopped(victim)
    BY <2>1, <2>2, ResumedLives DEF Reattached
  <2>3. CASE ~ Stopped(victim)
    BY <1>1, <2>1, <2>3 DEF Reattached
  <2>4. CASE victim \notin Threads
    <3>1. [tracee EXCEPT ![victim] = Resumed(@)] = tracee
      BY <1>0, <2>4
    <3> QED
      BY <1>1, <2>1, <3>1 DEF Reattached
  <2> QED
    BY <2>2, <2>3, <2>4
<1>7. CASE EmergencyBreak
  <2>1. tracee' = [t \in Threads |-> IF Alive(t) THEN Zombie ELSE Dead]
    BY <1>7 DEF EmergencyBreak
  <2> QED
    BY <1>0, <2>1 DEF NoneReturns, Alive
<1>8. CASE Crash
  BY <1>0, <1>8 DEF Crash, NoneReturns, Alive
<1>9. CASE \/ GroupNameFails \/ GroupDeadlock \/ NobodyToResolve \/ NameFails
           \/ StartStrategy1 \/ ShadowFails \/ EmergencyNameFails \/ EmergencyFails
  BY <1>1, <1>9 DEF GroupNameFails, GroupDeadlock, NobodyToResolve, NameFails,
     StartStrategy1, ShadowFails, EmergencyNameFails, EmergencyFails
<1> QED
  BY <1>2, <1>3, <1>4, <1>5, <1>6, <1>7, <1>8, <1>9 DEF MainLoop, Resolution

(* Only a step that begins strategy 1 chooses a victim. *)
LEMMA VictimStep ==
    ASSUME TypeOK, DetectorTypes, VictimInv, MainLoop
    PROVE  VictimInv'
<1>1. CASE StartStrategy1
  <2>1. VictimOf(cycle, victim')
    BY <1>1, VictimsAreFirst DEF StartStrategy1
  <2>2. UNCHANGED <<cycle, tracee>>
    BY <1>1 DEF StartStrategy1
  <2> QED
    BY <2>1, <2>2 DEF VictimInv, VictimOf, Alive
<1>2. CASE mpc' # "shadow"
  BY <1>2 DEF VictimInv
<1> QED
  <2> SUFFICES ASSUME ~ StartStrategy1 PROVE mpc' # "shadow"
    BY <1>1, <1>2
  <2> QED
    BY DEF MainLoop, TakeStop, TakeExit, detector, RecordCall, ResumeThread, Crash, Search,
       BeginPass, NextRoot, Descend, Skip, CloseCycle, Backtrack, EndPass, KnownCycle,
       Resolution, GroupNameFails, GroupDeadlock, NobodyToResolve, NameFails, ShadowFails,
       FinishStrategy1, EmergencyBreak, EmergencyNameFails, EmergencyFails, AfterErase

(* Records are added behind those there are. *)
LEMMA RecordsGrow ==
    ASSUME DetectorTypes, MainLoop, NEW i \in 1..Len(detected_deadlocks)
    PROVE  i \in 1..Len(detected_deadlocks') /\ detected_deadlocks'[i] = detected_deadlocks[i]
<1>0. Len(detected_deadlocks) \in Nat
  BY LenProperties DEF DetectorTypes
<1>1. CASE UNCHANGED detected_deadlocks
  BY <1>1
<1>2. CASE Recorded(TRUE) \/ Recorded(FALSE)
  <2>1. /\ Len(detected_deadlocks') = Len(detected_deadlocks) + 1
        /\ detected_deadlocks'[i] = detected_deadlocks[i]
    BY <1>2, RecordedTypes
  <2> QED
    BY <1>0, <2>1
<1> QED
  BY <1>1, <1>2 DEF MainLoop, TakeStop, TakeExit, detector, records, RecordCall, ResumeThread,
     Crash, Search, BeginPass, NextRoot, Descend, Skip, CloseCycle, Backtrack, EndPass,
     KnownCycle, Resolution, GroupNameFails, GroupDeadlock, NobodyToResolve, NameFails,
     StartStrategy1, ShadowFails, FinishStrategy1, EmergencyBreak, EmergencyNameFails,
     EmergencyFails

LEMMA VictimsStayVictims ==
    ASSUME TypeOK, DetectorTypes, MainLoop, NEW v, WasVictim(v)
    PROVE  WasVictim(v)'
  BY LoopNoneReturns, RecordsGrow, WasVictimStays

(* A resolution that succeeds records its victim. *)
LEMMA RecordedVictim ==
    ASSUME DetectorTypes, NoneReturns, NEW v, VictimOf(cycle, v), Recorded(TRUE)
    PROVE  WasVictim(v)'
<1>1. PICK n \in Nat : n = Len(detected_deadlocks) + 1 /\ n \in 1..n
  BY LenProperties DEF DetectorTypes
<1>2. /\ n \in 1..Len(detected_deadlocks')
      /\ detected_deadlocks'[n].cycle = cycle /\ detected_deadlocks'[n].resolved
  BY <1>1, RecordedTypes
<1>3. ASSUME NEW c, c = cycle
      PROVE  VictimOf(c, v)'
  BY <1>3, VictimsStay DEF DetectorTypes
<1> QED
  BY <1>2, <1>3 DEF WasVictim, VictimOf

-----------------------------------------------------------------------------
(* The locks of a cycle.                                                   *)

(* c is what dfs_deadlock returns for a cycle of n threads found from one  *)
(* of them, each of which waits, on the cycle, only for the next.          *)
Ring(c, n) ==
    /\ c \in Seq(Threads) /\ Len(c) = n + 1 /\ c[n + 1] = c[1]
    /\ \A i, j \in 1..n : c[i] = c[j] => i = j
    /\ \A a \in Addrs : \A i, j \in 1..n :
          lock_owners[a] = c[j] /\ c[i] \in futex_waiters[a] => c[j] = c[i + 1]

(* The code looks for a lock of each thread at which the thread after it   *)
(* waits, but it is the thread before it that does: of a cycle of three or *)
(* more threads no lock is named (find_locks_in_deadlock), so that no lock *)
(* loses its owner when the deadlock is resolved (FinishStrategy1).        *)
THEOREM LongRingsNameNoLock ==
    ASSUME NEW n \in Nat, n >= 3, NEW c, Ring(c, n)
    PROVE  find_locks_in_deadlock(c) = {}
<1> SUFFICES ASSUME NEW a \in Addrs, NEW i \in 1..(n + 1), lock_owners[a] = c[i],
                    c[(i % (n + 1)) + 1] \in futex_waiters[a]
             PROVE  FALSE
  BY DEF find_locks_in_deadlock, Ring
<1>1. /\ c[n + 1] = c[1]
      /\ \A j, k \in 1..n : c[j] = c[k] => j = k
      /\ \A j, k \in 1..n : lock_owners[a] = c[k] /\ c[j] \in futex_waiters[a] => c[k] = c[j + 1]
  BY DEF Ring
<1>2. CASE i < n
  <2>1. i \in 1..n /\ i + 1 \in 1..n /\ i + 2 \in 1..(n + 1) /\ 1 \in 1..n
    BY <1>2
  <2>2. i % (n + 1) = i
    BY <1>2
  <2>3. c[i] = c[(i + 1) + 1]
    BY <1>1, <2>1, <2>2
  <2>4. CASE i + 2 \in 1..n
    <3>1. i = i + 2
      BY <1>1, <2>1, <2>3, <2>4
    <3> QED
      BY <3>1
  <2>5. CASE i + 2 = n + 1
    <3>1. c[i] = c[1]
      BY <1>1, <2>3, <2>5
    <3>2. i = 1
      BY <1>1, <2>1, <3>1
    <3> QED
      BY <2>5, <3>2
  <2> QED
    BY <2>1, <2>4, <2>5
<1>3. CASE i = n
  <2>1. n % (n + 1) = n /\ n \in 1..n /\ 1 \in 1..n /\ 2 \in 1..n
    OBVIOUS
  <2>2. c[1] \in futex_waiters[a] /\ lock_owners[a] = c[n]
    BY <1>1, <1>3, <2>1
  <2>3. c[n] = c[1 + 1]
    BY <1>1, <2>1, <2>2
  <2>4. n = 2
    BY <1>1, <2>1, <2>3
  <2> QED
    BY <2>4
<1>4. CASE i = n + 1
  <2>1. (n + 1) % (n + 1) = 0 /\ 1 \in 1..n /\ 2 \in 1..n
    OBVIOUS
  <2>2. c[1] \in futex_waiters[a] /\ lock_owners[a] = c[1]
    BY <1>1, <1>4, <2>1
  <2>3. c[1] = c[1 + 1]
    BY <1>1, <2>1, <2>2
  <2>4. 1 = 2
    BY <1>1, <2>1, <2>3
  <2> QED
    BY <2>4
<1> QED
  BY <1>2, <1>3, <1>4

(* Of a cycle of two the thread before is the thread after, and every lock *)
(* of one that the other waits at is named (find_locks_in_deadlock).       *)
THEOREM PairsNameTheirLocks ==
    ASSUME NEW c, Ring(c, 2)
    PROVE  find_locks_in_deadlock(c) =
             {a \in Addrs : \/ lock_owners[a] = c[1] /\ c[2] \in futex_waiters[a]
                            \/ lock_owners[a] = c[2] /\ c[1] \in futex_waiters[a]}
<1>1. Len(c) = 3 /\ c[3] = c[1] /\ c[1] # c[2]
  BY DEF Ring
<1>2. 1..3 = {1, 2, 3} /\ 1 % 3 = 1 /\ 2 % 3 = 2 /\ 3 % 3 = 0
  OBVIOUS
<1>3. \A a \in Addrs : ~ (lock_owners[a] = c[1] /\ c[1] \in futex_waiters[a])
  <2>1. 1 \in 1..2 /\ 1 + 1 = 2
    OBVIOUS
  <2> QED
    BY <1>1, <2>1 DEF Ring
<1>4. ASSUME NEW a \in Addrs
      PROVE  (\E i \in 1..3 : lock_owners[a] = c[i] /\ c[(i % 3) + 1] \in futex_waiters[a])
                <=> \/ lock_owners[a] = c[1] /\ c[2] \in futex_waiters[a]
                    \/ lock_owners[a] = c[2] /\ c[1] \in futex_waiters[a]
  <2>1. 1 + 1 = 2 /\ 2 + 1 = 3 /\ 0 + 1 = 1
    OBVIOUS
  <2> QED
    BY <1>1, <1>2, <1>3, <2>1
<1> QED
  BY <1>1, <1>4 DEF find_locks_in_deadlock

=============================================================================
