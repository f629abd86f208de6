-------------------------- MODULE SupervisorProofs --------------------------
(* Proofs about the deployment of run.sh, for every number of faults,      *)
(* signals, threads started and victims.                                   *)
EXTENDS Supervisor, SequenceTheorems, FiniteSetTheorems, TLAPS

Commands == {"start_python", "checkpoint_python", "start_interceptor", "kill_interceptor",
             "kill_python", "restore_python", "check_python", "check_interceptor"}
Useds == [programs : Nat, monitors : Nat, faults : Nat, traps : Nat, churn : Nat, victims : Nat]
RunOrNone == Runs \cup {0}

DeployTypes ==
    /\ script \in Seq(Commands)
    /\ pid_file \in RunOrNone /\ int_pid_file \in RunOrNone
    /\ image \in SUBSET All /\ live \in SUBSET All
    /\ born \in [All -> Nat]
    /\ traced \in [All -> RunOrNone]
    /\ monitors \in SUBSET Runs /\ sudos \in SUBSET monitors
    /\ target \in [Runs -> RunOrNone] /\ names \in [Runs -> Nat]
    /\ as_root \in BOOLEAN /\ interrupted \in BOOLEAN
    /\ used \in Useds

(* What is traced is alive and traced by a running monitor of its program. *)
TracedInv ==
    \A t \in All : traced[t] # 0 => /\ t \in live
                                    /\ traced[t] \in monitors
                                    /\ target[traced[t]] = t[1]

NamedInv ==
    /\ \A i \in Runs : names[i] # 0 => names[i] <= born[<<target[i], "worker">>]
    /\ \A i \in Runs : names[i] # 0 => i \in monitors /\ target[i] \in Runs

(* Programs and monitors not started yet have left no trace, and a thread  *)
(* lives only as long as the main thread of its program.                   *)
FreshInv ==
    /\ pid_file <= used.programs
    /\ \A t \in All : t[1] > used.programs => t \notin live /\ t \notin image /\ born[t] = 0
    /\ \A i \in monitors : i <= used.monitors

WholeInv ==
    /\ \A t \in live : LiveRun(t[1])
    /\ \A t \in image : <<t[1], "main">> \in image

DeployInv == DeployTypes /\ TracedInv /\ NamedInv /\ FreshInv /\ WholeInv

LEMMA RunFacts == Runs \in SUBSET (Nat \ {0}) /\ 0 \notin Runs
  BY SupervisorBounds DEF Runs

LEMMA ThreadFacts ==
    ASSUME NEW t \in All
    PROVE  /\ t = <<t[1], t[2]>> /\ t[1] \in Runs /\ t[1] \in Nat
           /\ t[2] \in Tids
           /\ <<t[1], "main">> \in All /\ <<t[1], "worker">> \in All
<1>1. t \in Runs \X Tids
  BY DEF All
<1>2. t = <<t[1], t[2]>> /\ t[1] \in Runs /\ t[2] \in Tids
  BY <1>1
<1>3. t[1] \in Nat
  BY <1>2, RunFacts
<1>4. <<t[1], "main">> \in All /\ <<t[1], "worker">> \in All
  BY <1>2 DEF All, Tids
<1> QED
  BY <1>2, <1>3, <1>4

LEMMA UseKeeps ==
    ASSUME NEW b \in {"faults", "traps", "churn", "victims"}, NEW max, DeployTypes, Use(b, max)
    PROVE  /\ used' \in Useds
           /\ used'.programs = used.programs /\ used'.monitors = used.monitors
           /\ used'.victims = IF b = "victims" THEN used.victims + 1 ELSE used.victims
<1>1. used \in Useds /\ used' = [used EXCEPT ![b] = @ + 1]
  BY DEF Use, DeployTypes
<1>2. CASE b = "faults"
  <2>1. used' = [used EXCEPT !.faults = @ + 1]
    BY <1>1, <1>2
  <2> QED
    BY <1>1, <1>2, <2>1 DEF Useds
<1>3. CASE b = "traps"
  <2>1. used' = [used EXCEPT !.traps = @ + 1]
    BY <1>1, <1>3
  <2> QED
    BY <1>1, <1>3, <2>1 DEF Useds
<1>4. CASE b = "churn"
  <2>1. used' = [used EXCEPT !.churn = @ + 1]
    BY <1>1, <1>4
  <2> QED
    BY <1>1, <1>4, <2>1 DEF Useds
<1>5. CASE b = "victims"
  <2>1. used' = [used EXCEPT !.victims = @ + 1]
    BY <1>1, <1>5
  <2> QED
    BY <1>1, <1>5, <2>1 DEF Useds
<1> QED
  BY <1>2, <1>3, <1>4, <1>5

LEMMA RecoveryIs ==
    /\ Recovery \in Seq(Commands) /\ Len(Recovery) = 5
    /\ Recovery[1] = "kill_interceptor" /\ Recovery[2] = "kill_python"
    /\ Recovery[3] = "restore_python" /\ Recovery[4] = "start_python"
    /\ Recovery[5] = "start_interceptor"
  BY DEF Recovery, Commands

(* A thread is not newer than its program. *)
LEMMA OldThread ==
    ASSUME DeployInv, NEW t \in All
    PROVE  t[1] <= used.programs <=> ~ t[1] > used.programs
<1>1. used.programs \in Nat /\ t[1] \in Nat
  BY ThreadFacts DEF DeployInv, DeployTypes, Useds
<1> QED
  BY <1>1

LEMMA ImageIsOld ==
    ASSUME DeployInv
    PROVE  \A t \in image : t[1] <= used.programs
<1>1. \A t \in image : t \in All /\ ~ t[1] > used.programs
  BY DEF DeployInv, DeployTypes, FreshInv
<1> QED
  BY <1>1, OldThread

(* The steps of the invariant, by what they do to threads and monitors.    *)

(* The counts of programs and monitors stay. *)
SameCounts == /\ used' \in Useds
              /\ used'.programs = used.programs /\ used'.monitors = used.monitors

(* Nothing happens to threads or monitors. *)
LEMMA QuietKeeps ==
    ASSUME DeployInv, SameCounts, script' \in Seq(Commands),
           image' \in SUBSET All, \A t \in image' : t[1] <= used.programs,
           \A t \in image' : <<t[1], "main">> \in image',
           interrupted' \in BOOLEAN, sudos' \in SUBSET sudos,
           UNCHANGED <<pid_file, int_pid_file, live, born, traced, monitors, target, names, as_root>>
    PROVE  DeployInv'
<1>1. DeployTypes'
  BY DEF DeployInv, DeployTypes, SameCounts
<1>2. TracedInv' /\ NamedInv' /\ WholeInv'
  BY DEF DeployInv, TracedInv, NamedInv, WholeInv, LiveRun
<1>3. FreshInv'
  <2>1. \A t \in image' : ~ t[1] > used.programs
    BY OldThread
  <2> QED
    BY <2>1 DEF DeployInv, FreshInv, SameCounts
<1> QED
  BY <1>1, <1>2, <1>3 DEF DeployInv

(* Programs end. *)
LEMMA EndedKeeps ==
    ASSUME DeployInv, SameCounts, NEW gone, Ended(gone), script' \in Seq(Commands),
           UNCHANGED <<files, born, monitors, sudos, target, names, user>>
    PROVE  DeployInv'
<1>1. /\ live' = {t \in live : t[1] \notin gone}
      /\ \A t \in All : traced'[t] = IF t[1] \in gone THEN 0 ELSE traced[t]
      /\ traced' \in [All -> RunOrNone]
  BY DEF Ended, DeployInv, DeployTypes, RunOrNone
<1>2. DeployTypes'
  BY <1>1 DEF DeployInv, DeployTypes, SameCounts, files, user
<1>3. TracedInv' /\ NamedInv'
  BY <1>1 DEF DeployInv, TracedInv, NamedInv
<1>4. FreshInv'
  BY <1>1 DEF DeployInv, FreshInv, SameCounts, files
<1>5. WholeInv'
  <2>1. \A t \in live : t[1] \notin gone => <<t[1], "main">>[1] \notin gone
    OBVIOUS
  <2> QED
    BY <1>1, <2>1 DEF DeployInv, WholeInv, LiveRun, files
<1> QED
  BY <1>2, <1>3, <1>4, <1>5 DEF DeployInv

(* A monitor ends, and with it its programs. *)
LEMMA MonitorEndsKeeps ==
    ASSUME DeployInv, SameCounts, NEW i \in Runs, MonitorEnds(i), script' \in Seq(Commands),
           sudos' = sudos \ {i}, UNCHANGED <<files, born, user>>
    PROVE  DeployInv'
<1> DEFINE gone == {t[1] : t \in TracedBy(i)}
<1>1. /\ live' = {t \in live : t[1] \notin gone}
      /\ \A t \in All : traced'[t] = IF t[1] \in gone THEN 0 ELSE traced[t]
      /\ traced' \in [All -> RunOrNone]
      /\ monitors' = monitors \ {i}
      /\ target' = [target EXCEPT ![i] = 0] /\ names' = [names EXCEPT ![i] = 0]
  BY DEF MonitorEnds, Ended, DeployInv, DeployTypes, RunOrNone
<1>2. \A t \in All : traced[t] = i => t[1] \in gone
  BY RunFacts DEF TracedBy, DeployInv, TracedInv
<1> HIDE DEF gone
<1>3. DeployTypes'
  BY <1>1 DEF DeployInv, DeployTypes, SameCounts, files, user, RunOrNone
<1>4. TracedInv'
  <2> SUFFICES ASSUME NEW t \in All, traced'[t] # 0
               PROVE  t \in live' /\ traced'[t] \in monitors' /\ target'[traced'[t]] = t[1]
    BY DEF TracedInv
  <2>1. traced'[t] = traced[t] /\ t[1] \notin gone /\ traced[t] # i
    BY <1>1, <1>2
  <2>2. traced[t] \in monitors /\ target[traced[t]] = t[1] /\ t \in live
    BY <2>1 DEF DeployInv, TracedInv
  <2> QED
    BY <1>1, <2>1, <2>2 DEF DeployInv, DeployTypes
<1>5. NamedInv'
  BY <1>1 DEF DeployInv, DeployTypes, NamedInv
<1>6. FreshInv'
  BY <1>1 DEF DeployInv, FreshInv, SameCounts, files
<1>7. WholeInv'
  <2>1. \A t \in live : t[1] \notin gone => <<t[1], "main">>[1] \notin gone
    OBVIOUS
  <2> QED
    BY <1>1, <2>1 DEF DeployInv, WholeInv, LiveRun, files
<1> QED
  BY <1>3, <1>4, <1>5, <1>6, <1>7 DEF DeployInv

(* The script stays a sequence of commands. *)
LEMMA DoesKeeps ==
    ASSUME DeployTypes, NEW c, Does(c)
    PROVE  script' \in Seq(Commands)
  BY HeadTailProperties DEF Does, DeployTypes

LEMMA CheckKeeps ==
    ASSUME DeployTypes, NEW c, NEW gone, check(c, gone)
    PROVE  script' \in Seq(Commands)
<1>1. script # <<>> /\ script \in Seq(Commands)
      /\ script' = (IF gone /\ RecoveriesLeft THEN Recovery ELSE <<>>) \o Tail(script)
  BY DEF check, DeployTypes
<1>2. Tail(script) \in Seq(Commands) /\ <<>> \in Seq(Commands)
  BY <1>1, HeadTailProperties, EmptySeq
<1> QED
  BY <1>1, <1>2, RecoveryIs, ConcatProperties

LEMMA StartPythonKeeps ==
    ASSUME DeployInv, start_python
    PROVE  DeployInv'
<1>0. PICK p \in Runs :
        LET threads == {<<p, t>> : t \in Tids}
        IN  /\ Does("start_python")
            /\ p = used.programs + 1
            /\ live' = live \cup threads
            /\ born' = [t \in All |-> IF t \in threads THEN 1 ELSE born[t]]
            /\ pid_file' = p
            /\ used' = [used EXCEPT !.programs = p]
            /\ UNCHANGED <<int_pid_file, image, tracing, user>>
  BY DEF start_python
<1>1. /\ p = used.programs + 1 /\ p \in Nat
      /\ live' = live \cup {<<p, "main">>, <<p, "worker">>}
      /\ \A t \in All : born'[t] = IF t[1] = p THEN 1 ELSE born[t]
      /\ born' \in [All -> Nat]
      /\ pid_file' = p
      /\ used' = [used EXCEPT !.programs = p]
      /\ UNCHANGED <<int_pid_file, image, traced, monitors, sudos, target, names, as_root, interrupted>>
  <2>1. {<<p, t>> : t \in Tids} = {<<p, "main">>, <<p, "worker">>}
    BY DEF Tids
  <2>2. ASSUME NEW t \in All
        PROVE  t \in {<<p, "main">>, <<p, "worker">>} <=> t[1] = p
    <3>1. t = <<t[1], t[2]>> /\ (t[2] = "main" \/ t[2] = "worker")
      BY ThreadFacts DEF Tids
    <3>2. <<p, "main">>[1] = p /\ <<p, "worker">>[1] = p
      OBVIOUS
    <3> QED
      BY <3>1, <3>2
  <2> QED
    BY <1>0, <2>1, <2>2, RunFacts DEF tracing, user, DeployInv, DeployTypes
<1>2. used' \in Useds /\ used'.programs = p /\ used'.monitors = used.monitors
      /\ used.programs \in Nat
  BY <1>1 DEF Useds, DeployInv, DeployTypes
<1>3. <<p, "main">> \in All /\ <<p, "worker">> \in All
  BY DEF All, Tids
<1>4. DeployTypes'
  BY <1>0, <1>1, <1>2, <1>3, DoesKeeps DEF DeployInv, DeployTypes, RunOrNone
<1>5. TracedInv'
  BY <1>1 DEF DeployInv, TracedInv
<1>6. NamedInv'
  <2> SUFFICES ASSUME NEW i \in Runs, names[i] # 0
               PROVE  names[i] <= born'[<<target[i], "worker">>] /\ i \in monitors /\ target[i] \in Runs
    BY <1>1 DEF NamedInv
  <2>1. names[i] <= born[<<target[i], "worker">>] /\ i \in monitors /\ target[i] \in Runs
    BY DEF DeployInv, NamedInv
  <2>2. <<target[i], "worker">> \in All
    BY <2>1 DEF All, Tids
  <2>3. CASE target[i] = p
    <3>1. p > used.programs /\ <<p, "worker">>[1] = p
      BY <1>1, <1>2
    <3>2. born[<<target[i], "worker">>] = 0
      BY <1>3, <2>3, <3>1 DEF DeployInv, FreshInv
    <3>3. names[i] \in Nat
      BY DEF DeployInv, DeployTypes
    <3> QED
      BY <2>1, <3>2, <3>3
  <2>4. CASE target[i] # p
    BY <1>1, <2>1, <2>2, <2>4
  <2> QED
    BY <2>3, <2>4
<1>7. FreshInv'
  <2>1. ASSUME NEW t \in All, t[1] > p
        PROVE  t[1] > used.programs /\ t[1] # p
    <3>1. t[1] \in Nat
      BY ThreadFacts
    <3> QED
      BY <1>1, <1>2, <2>1, <3>1
  <2>2. \A t \in All : t[1] # p => (t \in live' <=> t \in live)
    BY <1>1
  <2>3. p <= p
    BY <1>1
  <2> QED
    BY <1>1, <1>2, <2>1, <2>2, <2>3 DEF DeployInv, FreshInv
<1>8. WholeInv'
  BY <1>1 DEF DeployInv, WholeInv, LiveRun
<1> QED
  BY <1>4, <1>5, <1>6, <1>7, <1>8 DEF DeployInv

(* A thread starts under an id that is free: its incarnations count up. *)
LEMMA BornKeeps ==
    ASSUME DeployInv, SameCounts, NEW new \in SUBSET All, \A t \in new : t[1] <= used.programs,
           live' = live \cup new, \A t \in new : LiveRun(t[1])',
           born' \in [All -> Nat], \A t \in All : born'[t] >= born[t],
           \A t \in All \ new : born'[t] = born[t],
           script' \in Seq(Commands), UNCHANGED <<files, tracing, user>>
    PROVE  DeployInv'
<1>1. DeployTypes'
  BY DEF DeployInv, DeployTypes, SameCounts, files, tracing, user
<1>2. TracedInv'
  BY DEF DeployInv, TracedInv, tracing
<1>3. NamedInv'
  <2> SUFFICES ASSUME NEW i \in Runs, names[i] # 0
               PROVE  names[i] <= born'[<<target[i], "worker">>] /\ i \in monitors /\ target[i] \in Runs
    BY DEF NamedInv, tracing
  <2>1. names[i] <= born[<<target[i], "worker">>] /\ i \in monitors /\ target[i] \in Runs
    BY DEF DeployInv, NamedInv
  <2>2. <<target[i], "worker">> \in All
    BY <2>1 DEF All, Tids
  <2>3. names[i] \in Nat /\ born[<<target[i], "worker">>] \in Nat /\ born'[<<target[i], "worker">>] \in Nat
    BY <2>2 DEF DeployInv, DeployTypes
  <2>4. born'[<<target[i], "worker">>] >= born[<<target[i], "worker">>]
    BY <2>2
  <2> QED
    BY <2>1, <2>3, <2>4
<1>4. FreshInv'
  <2>1. \A t \in new : ~ t[1] > used.programs
    BY OldThread
  <2> QED
    BY <2>1 DEF DeployInv, FreshInv, SameCounts, files, tracing
<1>5. WholeInv'
  BY DEF DeployInv, WholeInv, LiveRun, files
<1> QED
  BY <1>1, <1>2, <1>3, <1>4, <1>5 DEF DeployInv

LEMMA RestoreKeeps ==
    ASSUME DeployInv, restore_python
    PROVE  DeployInv'
<1>1. SameCounts /\ script' \in Seq(Commands) /\ UNCHANGED <<files, tracing, user>>
  BY DoesKeeps DEF restore_python, SameCounts, DeployInv, DeployTypes
<1>2. CASE UNCHANGED <<live, born>>
  BY <1>1, <1>2, QuietKeeps, ImageIsOld DEF DeployInv, DeployTypes, WholeInv, files, tracing, user
<1>3. CASE /\ live' = live \cup image
           /\ born' = [t \in All |-> born[t] + IF t \in image THEN 1 ELSE 0]
  <2>1. image \in SUBSET All /\ \A t \in All : born[t] \in Nat
    BY DEF DeployInv, DeployTypes
  <2>2. \A t \in All : born'[t] = IF t \in image THEN born[t] + 1 ELSE born[t]
    BY <1>3, <2>1
  <2>3. born' \in [All -> Nat] /\ \A t \in All : born'[t] >= born[t]
    BY <1>3, <2>1, <2>2
  <2> QED
    BY <1>1, <1>3, <2>1, <2>2, <2>3, BornKeeps, ImageIsOld
         DEF DeployInv, WholeInv, LiveRun
<1> QED
  BY <1>2, <1>3 DEF restore_python

LEMMA StartInterceptorKeeps ==
    ASSUME DeployInv, start_interceptor
    PROVE  DeployInv'
<1>1. PICK i \in Runs :
        /\ Does("start_interceptor")
        /\ i = used.monitors + 1
        /\ attach_all_threads(i, pid_file)
        /\ monitors' = monitors \cup {i}
        /\ sudos' = sudos \cup {i}
        /\ target' = [target EXCEPT ![i] = pid_file]
        /\ int_pid_file' = i
        /\ used' = [used EXCEPT !.monitors = i]
        /\ UNCHANGED <<pid_file, image, live, born, names, user>>
  BY DEF start_interceptor
<1>2. used' \in Useds /\ used'.programs = used.programs /\ used'.monitors = i
      /\ used.monitors \in Nat /\ i \in Nat /\ i # 0 /\ i <= i
  <2>1. i \in Nat /\ i # 0
    BY RunFacts
  <2>2. used \in Useds
    BY DEF DeployInv, DeployTypes
  <2> QED
    BY <1>1, <2>1, <2>2 DEF Useds
<1>3. i \notin monitors /\ \A j \in monitors : j <= i
  <2>1. \A j \in monitors : j \in Nat /\ j <= used.monitors
    BY RunFacts DEF DeployInv, DeployTypes, FreshInv
  <2> QED
    BY <1>1, <1>2, <2>1
<1>4. names[i] = 0
  BY <1>3 DEF DeployInv, NamedInv
<1>5. /\ \A t \in All : traced'[t] = IF t \in live /\ t[1] = pid_file /\ traced[t] = 0
                                     THEN i ELSE traced[t]
      /\ traced' \in [All -> RunOrNone]
  BY <1>1 DEF attach_all_threads, DeployInv, DeployTypes, RunOrNone
<1>6. DeployTypes'
  BY <1>1, <1>2, <1>5, DoesKeeps DEF DeployInv, DeployTypes, RunOrNone, user
<1>7. TracedInv'
  <2>1. \A j \in Runs : j # i => target'[j] = target[j]
    BY <1>1 DEF DeployInv, DeployTypes
  <2>2. target'[i] = pid_file
    BY <1>1 DEF DeployInv, DeployTypes
  <2>3. monitors \subseteq Runs
    BY DEF DeployInv, DeployTypes
  <2> SUFFICES ASSUME NEW t \in All, traced'[t] # 0
               PROVE  t \in live' /\ traced'[t] \in monitors' /\ target'[traced'[t]] = t[1]
    BY DEF TracedInv
  <2>4. CASE t \in live /\ t[1] = pid_file /\ traced[t] = 0
    BY <1>1, <1>5, <2>2, <2>4
  <2>5. CASE ~ (t \in live /\ t[1] = pid_file /\ traced[t] = 0)
    <3>1. traced'[t] = traced[t]
      BY <1>5, <2>5
    <3>2. t \in live /\ traced[t] \in monitors /\ target[traced[t]] = t[1]
      BY <3>1 DEF DeployInv, TracedInv
    <3> QED
      BY <1>1, <1>3, <2>1, <2>3, <3>1, <3>2
  <2> QED
    BY <2>4, <2>5
<1>8. NamedInv'
  <2>1. \A j \in Runs : j # i => target'[j] = target[j]
    BY <1>1 DEF DeployInv, DeployTypes
  <2> QED
    BY <1>1, <1>4, <2>1 DEF DeployInv, NamedInv
<1>9. FreshInv'
  BY <1>1, <1>2, <1>3 DEF DeployInv, FreshInv
<1>10. WholeInv'
  BY <1>1 DEF DeployInv, WholeInv, LiveRun
<1> QED
  BY <1>6, <1>7, <1>8, <1>9, <1>10 DEF DeployInv

LEMMA CheckpointKeeps ==
    ASSUME DeployInv, checkpoint_python
    PROVE  DeployInv'
<1>1. SameCounts /\ script' \in Seq(Commands)
      /\ UNCHANGED <<pid_file, int_pid_file, live, born, tracing, user>>
  BY DoesKeeps DEF checkpoint_python, SameCounts, DeployInv, DeployTypes
<1>2. CASE UNCHANGED image
  BY <1>1, <1>2, QuietKeeps, ImageIsOld DEF DeployInv, DeployTypes, WholeInv, tracing, user
<1>3. CASE LiveRun(pid_file) /\ image' = {t \in live : t[1] = pid_file}
  <2>1. image' \in SUBSET All /\ \A t \in image' : t[1] <= used.programs
    BY <1>3 DEF DeployInv, DeployTypes, FreshInv
  <2>2. \A t \in image' : <<t[1], "main">> \in image'
    BY <1>3 DEF LiveRun
  <2> QED
    BY <1>1, <2>1, <2>2, QuietKeeps DEF DeployInv, DeployTypes, tracing, user
<1> QED
  BY <1>2, <1>3 DEF checkpoint_python

LEMMA KillInterceptorKeeps ==
    ASSUME DeployInv, kill_interceptor
    PROVE  DeployInv'
<1>1. SameCounts /\ script' \in Seq(Commands) /\ UNCHANGED <<files, born, user>>
      /\ sudos' = sudos \ {int_pid_file}
  BY DoesKeeps DEF kill_interceptor, SameCounts, DeployInv, DeployTypes
<1>2. CASE int_pid_file \in sudos /\ MonitorEnds(int_pid_file)
  <2>1. int_pid_file \in Runs
    BY <1>2 DEF DeployInv, DeployTypes
  <2> QED
    BY <1>1, <1>2, <2>1, MonitorEndsKeeps
<1>3. CASE UNCHANGED <<live, traced, monitors, target, names>>
  BY <1>1, <1>3, QuietKeeps, ImageIsOld DEF DeployInv, DeployTypes, WholeInv, files, user
<1> QED
  BY <1>2, <1>3 DEF kill_interceptor

LEMMA ScriptKeeps ==
    ASSUME DeployInv, Script
    PROVE  DeployInv'
<1>1. CASE kill_python
  <2>1. SameCounts /\ script' \in Seq(Commands)
    BY <1>1, DoesKeeps DEF kill_python, SameCounts, DeployInv, DeployTypes
  <2> QED
    BY <1>1, <2>1, EndedKeeps DEF kill_python
<1>2. CASE check_python \/ check_interceptor \/ NextRound
  <2>1. script' \in Seq(Commands)
    <3>1. <<"check_python", "check_interceptor">> \in Seq(Commands)
      BY DEF Commands
    <3> QED
      BY <1>2, <3>1, CheckKeeps DEF check_python, check_interceptor, NextRound, DeployInv
  <2>2. SameCounts /\ UNCHANGED <<files, live, born, tracing, user>>
    BY <1>2 DEF check_python, check_interceptor, check, NextRound, SameCounts, DeployInv, DeployTypes
  <2> QED
    BY <2>1, <2>2, QuietKeeps, ImageIsOld DEF DeployInv, DeployTypes, WholeInv, files, tracing, user
<1> QED
  BY <1>1, <1>2, StartPythonKeeps, CheckpointKeeps, StartInterceptorKeeps, KillInterceptorKeeps,
     RestoreKeeps DEF Script

LEMMA TrapKeeps ==
    ASSUME DeployInv, Trap
    PROVE  DeployInv'
<1>1. SameCounts
  BY UseKeeps DEF Trap, SameCounts, DeployInv
<1>2. script' \in Seq(Commands)
  BY RecoveryIs, ConcatProperties DEF Trap, DeployInv, DeployTypes
<1>3. interrupted' \in BOOLEAN /\ UNCHANGED <<files, live, born, tracing, as_root>>
  BY DEF Trap, DeployInv, DeployTypes
<1> QED
  BY <1>1, <1>2, <1>3, QuietKeeps, ImageIsOld DEF DeployInv, DeployTypes, WholeInv, files, tracing

LEMMA SpawnKeeps ==
    ASSUME DeployInv, NEW p \in Runs, Spawn(p)
    PROVE  DeployInv'
<1> DEFINE t == <<p, "worker">>
<1>1. /\ LiveRun(p) /\ t \notin live /\ SameCounts
      /\ live' = live \cup {t} /\ born' = [born EXCEPT ![t] = @ + 1]
      /\ UNCHANGED <<script, files, tracing, user>>
  BY UseKeeps DEF Spawn, SameCounts, DeployInv
<1>2. t \in All /\ <<p, "main">> \in All /\ t[1] = p /\ <<p, "main">>[1] = p
  BY DEF All, Tids
<1> HIDE DEF t
<1>3. t[1] <= used.programs
  <2>1. ~ p > used.programs
    BY <1>1, <1>2 DEF LiveRun, DeployInv, FreshInv
  <2> QED
    BY <1>2, <2>1, OldThread
<1>4. born[t] \in Nat
  BY <1>2 DEF DeployInv, DeployTypes
<1>5. born'[t] = born[t] + 1 /\ \A u \in All : u # t => born'[u] = born[u]
  BY <1>1, <1>2 DEF DeployInv, DeployTypes
<1>6. born' \in [All -> Nat]
  BY <1>1, <1>2, <1>4 DEF DeployInv, DeployTypes
<1>7. \A u \in All : born'[u] >= born[u]
  <2>1. \A u \in All : born[u] \in Nat
    BY DEF DeployInv, DeployTypes
  <2> QED
    BY <1>4, <1>5, <2>1
<1>8. LiveRun(t[1])'
  BY <1>1, <1>2 DEF LiveRun
<1>9. script' \in Seq(Commands)
  BY <1>1 DEF DeployInv, DeployTypes
<1> QED
  <2> DEFINE new == {t}
  <2>1. /\ new \in SUBSET All /\ live' = live \cup new
        /\ \A u \in new : u[1] <= used.programs /\ LiveRun(u[1])'
        /\ \A u \in All \ new : born'[u] = born[u]
    BY <1>1, <1>2, <1>3, <1>5, <1>8
  <2> HIDE DEF new
  <2> QED
    BY <1>1, <1>6, <1>7, <1>9, <2>1, BornKeeps

LEMMA WorkerEndsKeeps ==
    ASSUME DeployInv, NEW p \in Runs, WorkerEnds(p)
    PROVE  DeployInv'
<1> DEFINE t == <<p, "worker">>
<1>1. /\ SameCounts /\ live' = live \ {t} /\ traced' = [traced EXCEPT ![t] = 0]
      /\ UNCHANGED <<script, files, born, monitors, sudos, target, names, user>>
  BY UseKeeps DEF WorkerEnds, SameCounts, DeployInv
<1>2. \A q : <<q, "main">> # t
  OBVIOUS
<1> HIDE DEF t
<1>3. traced' \in [All -> RunOrNone] /\ \A u \in All : traced'[u] # 0 => u # t /\ traced'[u] = traced[u]
  BY <1>1 DEF DeployInv, DeployTypes, RunOrNone
<1>4. DeployTypes'
  BY <1>1, <1>3 DEF DeployInv, DeployTypes, SameCounts, files, user
<1>5. TracedInv' /\ NamedInv'
  BY <1>1, <1>3 DEF DeployInv, TracedInv, NamedInv
<1>6. FreshInv' /\ WholeInv'
  BY <1>1, <1>2 DEF DeployInv, FreshInv, WholeInv, LiveRun, SameCounts, files
<1> QED
  BY <1>4, <1>5, <1>6 DEF DeployInv

LEMMA HandleCallKeeps ==
    ASSUME DeployInv, NEW i \in Runs, HandleCall(i)
    PROVE  DeployInv'
<1> DEFINE t == <<target[i], "worker">>
<1>1. /\ t \in live /\ traced[t] = i /\ names' = [names EXCEPT ![i] = born[t]]
      /\ UNCHANGED <<script, files, live, born, traced, monitors, sudos, target, user, used>>
  BY DEF HandleCall, TracedBy
<1>2. t \in All /\ born[t] \in Nat
  BY <1>1 DEF DeployInv, DeployTypes
<1>3. i \in monitors /\ target[i] \in Runs
  <2>1. t[1] \in Runs /\ t[1] = target[i]
    BY <1>2, ThreadFacts
  <2>2. i # 0
    BY RunFacts
  <2> QED
    BY <1>1, <1>2, <2>1, <2>2 DEF DeployInv, TracedInv
<1>4. /\ names' \in [Runs -> Nat] /\ names'[i] = born[t]
      /\ \A j \in Runs : j # i => names'[j] = names[j]
  BY <1>1, <1>2 DEF DeployInv, DeployTypes
<1>5. DeployTypes'
  BY <1>1, <1>4 DEF DeployInv, DeployTypes, files, user
<1>6. TracedInv' /\ FreshInv' /\ WholeInv'
  BY <1>1 DEF DeployInv, TracedInv, FreshInv, WholeInv, LiveRun, files
<1>7. NamedInv'
  <2>1. born[t] <= born[t]
    BY <1>2
  <2> QED
    BY <1>1, <1>3, <1>4, <2>1 DEF DeployInv, NamedInv
<1> QED
  BY <1>5, <1>6, <1>7 DEF DeployInv

LEMMA ReattachKeeps ==
    ASSUME DeployInv, NEW i \in Runs, Reattach(i)
    PROVE  DeployInv'
<1> DEFINE t == <<target[i], "worker">>
<1>1. /\ TracedBy(i) # {} /\ t \in live /\ SameCounts
      /\ traced' = [traced EXCEPT ![t] = i]
      /\ UNCHANGED <<script, files, live, born, monitors, sudos, target, names, user>>
  BY UseKeeps DEF Reattach, SameCounts, DeployInv
<1>2. t \in All /\ t[1] = target[i]
  BY <1>1 DEF DeployInv, DeployTypes
<1>3. i \in monitors
  BY <1>1, RunFacts DEF TracedBy, DeployInv, DeployTypes, TracedInv
<1> HIDE DEF t
<1>4. /\ traced' \in [All -> RunOrNone] /\ traced'[t] = i
      /\ \A u \in All : u # t => traced'[u] = traced[u]
  BY <1>1, <1>2 DEF DeployInv, DeployTypes, RunOrNone
<1>5. DeployTypes'
  BY <1>1, <1>4 DEF DeployInv, DeployTypes, SameCounts, files, user
<1>6. TracedInv'
  BY <1>1, <1>2, <1>3, <1>4 DEF DeployInv, TracedInv
<1>7. NamedInv' /\ FreshInv' /\ WholeInv'
  BY <1>1 DEF DeployInv, NamedInv, FreshInv, WholeInv, LiveRun, SameCounts, files
<1> QED
  BY <1>5, <1>6, <1>7 DEF DeployInv

LEMMA EnvironmentKeeps ==
    ASSUME DeployInv, Environment
    PROVE  DeployInv'
<1>0. script \in Seq(Commands)
  BY DEF DeployInv, DeployTypes
<1>1. ASSUME NEW p \in Runs, ProgramCrashes(p)
      PROVE  DeployInv'
  <2>1. SameCounts
    BY <1>1, UseKeeps DEF ProgramCrashes, SameCounts, DeployInv
  <2> QED
    BY <1>0, <1>1, <2>1, EndedKeeps DEF ProgramCrashes
<1>2. ASSUME NEW t \in All, SignalTaken(t)
      PROVE  DeployInv'
  <2>1. SameCounts
    BY <1>2, UseKeeps DEF SignalTaken, SameCounts, DeployInv
  <2> QED
    BY <1>0, <1>2, <2>1, EndedKeeps DEF SignalTaken
<1>3. ASSUME NEW i \in Runs, MonitorCrashes(i)
      PROVE  DeployInv'
  <2>1. SameCounts
    BY <1>3, UseKeeps DEF MonitorCrashes, SameCounts, DeployInv
  <2> QED
    BY <1>0, <1>3, <2>1, MonitorEndsKeeps DEF MonitorCrashes
<1> QED
  BY <1>1, <1>2, <1>3, TrapKeeps, SpawnKeeps, WorkerEndsKeeps, HandleCallKeeps, ReattachKeeps
     DEF Environment

LEMMA IdleKeeps ==
    ASSUME DeployInv, UNCHANGED depvars
    PROVE  DeployInv'
<1>1. SameCounts
  BY DEF depvars, SameCounts, DeployInv, DeployTypes
<1> QED
  BY <1>1, QuietKeeps, ImageIsOld DEF depvars, DeployInv, DeployTypes, WholeInv, files, tracing, user

LEMMA DeployInitInv == DeploymentInit => DeployInv
<1> SUFFICES ASSUME DeploymentInit PROVE DeployInv
  OBVIOUS
<1>1. <<"start_python", "checkpoint_python", "start_interceptor">> \in Seq(Commands)
  BY DEF Commands
<1>2. DeployTypes
  BY <1>1 DEF DeploymentInit, DeployTypes, RunOrNone, Useds
<1>3. used.programs = 0
  BY DEF DeploymentInit
<1>4. TracedInv /\ NamedInv /\ FreshInv /\ WholeInv
  BY <1>3 DEF DeploymentInit, TracedInv, NamedInv, FreshInv, WholeInv
<1> QED
  BY <1>2, <1>4 DEF DeployInv

LEMMA DeployInvariant == DeploymentSpec => []DeployInv
<1>1. DeployInv /\ [DeploymentNext]_depvars => DeployInv'
  BY ScriptKeeps, EnvironmentKeeps, IdleKeeps DEF DeploymentNext
<1> QED
  BY <1>1, DeployInitInv, PTL DEF DeploymentSpec

(* The bookkeeping of attachments: what is traced exists and is traced by  *)
(* a running monitor that run.sh started for its program; a monitor names  *)
(* no thread that was not started.                                         *)
THEOREM SupervisorTypeCorrect == DeploymentSpec => []SupervisorTypeOK
<1>1. DeployInv => SupervisorTypeOK
  BY DEF DeployInv, DeployTypes, TracedInv, NamedInv, SupervisorTypeOK
<1> QED
  BY <1>1, DeployInvariant, PTL

-----------------------------------------------------------------------------
(* Names.                                                                  *)

LEMMA SameNamed ==
    ASSUME \A t \in live' : traced'[t] # 0 =>
              /\ t \in live /\ traced'[t] = traced[t]
              /\ names'[traced[t]] = names[traced[t]] /\ born'[t] = born[t]
    PROVE  Misnamed' \subseteq Misnamed
  BY DEF Misnamed

(* A new monitor has named nobody. *)
LEMMA StartInterceptorNames ==
    ASSUME DeployInv, start_interceptor
    PROVE  Misnamed' \subseteq Misnamed
<1>1. PICK i \in Runs :
        /\ i = used.monitors + 1
        /\ attach_all_threads(i, pid_file)
        /\ UNCHANGED <<live, born, names>>
  BY DEF start_interceptor
<1>2. i \notin monitors
  <2>1. \A j \in monitors : j \in Nat /\ j <= used.monitors
    BY RunFacts DEF DeployInv, DeployTypes, FreshInv
  <2>2. used.monitors \in Nat
    BY DEF DeployInv, DeployTypes, Useds
  <2> QED
    BY <1>1, <2>1, <2>2
<1>3. names[i] = 0
  BY <1>2 DEF DeployInv, NamedInv
<1>4. \A t \in live : traced'[t] = i \/ traced'[t] = traced[t]
  BY <1>1 DEF attach_all_threads, DeployInv, DeployTypes
<1> QED
  BY <1>1, <1>3, <1>4 DEF Misnamed

(* A monitor names the one worker it traces. *)
LEMMA HandleCallNames ==
    ASSUME DeployInv, NEW i \in Runs, HandleCall(i)
    PROVE  Misnamed' \subseteq Misnamed
<1> DEFINE t == <<target[i], "worker">>
<1>1. /\ names' = [names EXCEPT ![i] = born[t]]
      /\ UNCHANGED <<live, born, traced>>
  BY DEF HandleCall
<1>2. \A j \in Runs : names'[j] = IF j = i THEN born[t] ELSE names[j]
  BY <1>1 DEF DeployInv, DeployTypes
<1>3. SUFFICES ASSUME NEW u \in live, u[2] = "worker", traced[u] # 0,
                      names'[traced[u]] \notin {0, born[u]}
               PROVE  names[traced[u]] \notin {0, born[u]}
  BY <1>1 DEF Misnamed
<1>4. u \in All /\ traced[u] \in Runs /\ target[traced[u]] = u[1]
  BY <1>3 DEF DeployInv, DeployTypes, TracedInv
<1>5. CASE traced[u] = i
  <2>1. u = t
    BY <1>3, <1>4, <1>5, ThreadFacts
  <2> QED
    BY <1>2, <1>3, <1>4, <1>5, <2>1
<1>6. CASE traced[u] # i
  BY <1>2, <1>3, <1>4, <1>6
<1> QED
  BY <1>5, <1>6

LEMMA EndedNames ==
    ASSUME DeployInv, NEW gone, Ended(gone), UNCHANGED <<born, names>>
    PROVE  Misnamed' \subseteq Misnamed
<1>1. /\ live' \subseteq live
      /\ \A t \in live : traced'[t] # 0 => traced'[t] = traced[t]
  BY DEF Ended, DeployInv, DeployTypes
<1> QED
  BY <1>1, SameNamed

LEMMA MonitorEndsNames ==
    ASSUME DeployInv, NEW i \in Runs, MonitorEnds(i), UNCHANGED born
    PROVE  Misnamed' \subseteq Misnamed
<1> DEFINE gone == {t[1] : t \in TracedBy(i)}
<1>1. /\ live' = {t \in live : t[1] \notin gone}
      /\ \A t \in live : traced'[t] = IF t[1] \in gone THEN 0 ELSE traced[t]
      /\ names' = [names EXCEPT ![i] = 0]
  BY DEF MonitorEnds, Ended, DeployInv, DeployTypes
<1>2. \A t \in live : traced[t] = i => t[1] \in gone
  BY DEF TracedBy
<1> HIDE DEF gone
<1>3. \A t \in live : traced[t] # 0 => traced[t] \in Runs
  BY DEF DeployInv, DeployTypes, TracedInv
<1>4. \A j \in Runs : j # i => names'[j] = names[j]
  BY <1>1 DEF DeployInv, DeployTypes
<1> QED
  BY <1>1, <1>2, <1>3, <1>4, SameNamed

(* A program's threads are new, or brought back where nobody traces. *)
LEMMA StartNames ==
    ASSUME DeployInv, start_python \/ restore_python
    PROVE  Misnamed' \subseteq Misnamed
<1>1. UNCHANGED <<traced, names>>
  BY DEF start_python, restore_python, tracing
<1>2. ASSUME NEW t \in All, traced[t] # 0
      PROVE  t \in live /\ born'[t] = born[t]
  <2>0. t \in live /\ LiveRun(t[1])
    BY <1>2 DEF DeployInv, TracedInv, WholeInv
  <2>1. CASE start_python
    <3>1. PICK p \in Runs :
            /\ p = used.programs + 1
            /\ born' = [u \in All |-> IF u \in {<<p, x>> : x \in Tids} THEN 1 ELSE born[u]]
      BY <2>1 DEF start_python
    <3>2. t \notin {<<p, x>> : x \in Tids}
      <4>1. ~ t[1] > used.programs
        BY <2>0, <1>2 DEF DeployInv, FreshInv
      <4>2. used.programs \in Nat
        BY DEF DeployInv, DeployTypes, Useds
      <4>3. t[1] # p
        BY <3>1, <4>1, <4>2, ThreadFacts
      <4> QED
        BY <4>3
    <3> QED
      BY <1>2, <2>0, <3>1, <3>2
  <2>2. CASE restore_python
    <3>1. CASE born' = born
      BY <2>0, <3>1
    <3>2. CASE /\ \A u \in image : ~ LiveRun(u[1])
               /\ born' = [u \in All |-> born[u] + IF u \in image THEN 1 ELSE 0]
      <4>1. t \notin image /\ born[t] \in Nat
        BY <2>0, <3>2 DEF DeployInv, DeployTypes
      <4> QED
        BY <2>0, <3>2, <4>1
    <3> QED
      BY <2>2, <3>1, <3>2 DEF restore_python
  <2> QED
    BY <2>1, <2>2
<1>3. \A t \in live' : t \in All
  BY StartPythonKeeps, RestoreKeeps DEF DeployInv, DeployTypes
<1> QED
  BY <1>1, <1>2, <1>3, SameNamed

LEMMA ChurnNames ==
    ASSUME DeployInv, NEW p \in Runs, Spawn(p) \/ WorkerEnds(p)
    PROVE  Misnamed' \subseteq Misnamed
<1> DEFINE t == <<p, "worker">>
<1>1. t \in All
  BY DEF All, Tids
<1>2. CASE Spawn(p)
  <2>1. /\ t \notin live /\ live' = live \cup {t} /\ born' = [born EXCEPT ![t] = @ + 1]
        /\ UNCHANGED <<traced, names>>
    BY <1>2 DEF Spawn, tracing
  <2>2. traced[t] = 0
    BY <1>1, <2>1 DEF DeployInv, TracedInv
  <2>3. \A u \in live : u # t => born'[u] = born[u]
    BY <2>1 DEF DeployInv, DeployTypes
  <2> QED
    BY <2>1, <2>2, <2>3, SameNamed
<1>3. CASE WorkerEnds(p)
  <2>1. live' = live \ {t} /\ traced' = [traced EXCEPT ![t] = 0] /\ UNCHANGED <<born, names>>
    BY <1>3 DEF WorkerEnds
  <2>2. \A u \in live : u # t => traced'[u] = traced[u]
    BY <2>1 DEF DeployInv, DeployTypes
  <2> QED
    BY <2>1, <2>2, SameNamed
<1> QED
  BY <1>2, <1>3

LEMMA StillNames ==
    ASSUME DeployInv, UNCHANGED <<live, traced, born, names>>
    PROVE  Misnamed' \subseteq Misnamed
  BY DEF Misnamed

(* The name cache (get_thread_name) takes one thread for another only by a *)
(* resolution of its own monitor: threads that get a used id are not       *)
(* traced until reattach_and_resume_tracing attaches them as the victim.   *)
THEOREM MisnamedOnlyByResolution == DeploymentSpec => MisnamedByResolution
<1>1. ASSUME DeployInv, Script
      PROVE  Misnamed' \subseteq Misnamed
  <2>1. CASE start_python \/ restore_python
    BY <1>1, <2>1, StartNames
  <2>2. CASE checkpoint_python \/ check_python \/ check_interceptor \/ NextRound
    BY <1>1, <2>2, StillNames
       DEF checkpoint_python, check_python, check_interceptor, check, NextRound, tracing
  <2>3. CASE start_interceptor
    BY <1>1, <2>3, StartInterceptorNames
  <2>4. CASE kill_interceptor
    <3>1. CASE int_pid_file \in sudos /\ MonitorEnds(int_pid_file)
      BY <1>1, <2>4, <3>1, MonitorEndsNames DEF kill_interceptor, DeployInv, DeployTypes
    <3>2. CASE UNCHANGED <<live, traced, monitors, target, names>>
      BY <1>1, <2>4, <3>2, StillNames DEF kill_interceptor
    <3> QED
      BY <2>4, <3>1, <3>2 DEF kill_interceptor
  <2>5. CASE kill_python
    BY <1>1, <2>5, EndedNames DEF kill_python
  <2> QED
    BY <1>1, <2>1, <2>2, <2>3, <2>4, <2>5 DEF Script
<1>2. ASSUME DeployInv, Environment
      PROVE  Misnamed' \subseteq Misnamed \/ used'.victims > used.victims
  <2>1. CASE Trap
    BY <1>2, <2>1, StillNames DEF Trap, tracing
  <2>2. ASSUME NEW p \in Runs, ProgramCrashes(p)
        PROVE  Misnamed' \subseteq Misnamed
    BY <1>2, <2>2, EndedNames DEF ProgramCrashes
  <2>3. ASSUME NEW t \in All, SignalTaken(t)
        PROVE  Misnamed' \subseteq Misnamed
    BY <1>2, <2>3, EndedNames DEF SignalTaken
  <2>4. ASSUME NEW i \in Runs, MonitorCrashes(i)
        PROVE  Misnamed' \subseteq Misnamed
    BY <1>2, <2>4, MonitorEndsNames DEF MonitorCrashes
  <2>5. ASSUME NEW i \in Runs, Reattach(i)
        PROVE  used'.victims > used.victims
    <3>1. used'.victims = used.victims + 1
      BY <1>2, <2>5, UseKeeps DEF Reattach, DeployInv
    <3>2. used.victims \in Nat
      BY <1>2 DEF DeployInv, DeployTypes, Useds
    <3> QED
      BY <3>1, <3>2
  <2> QED
    BY <1>2, <2>1, <2>2, <2>3, <2>4, <2>5, ChurnNames, HandleCallNames DEF Environment
<1>3. DeployInv /\ [DeploymentNext]_depvars =>
        [~ (Misnamed' \subseteq Misnamed) => used'.victims > used.victims]_depvars
  BY <1>1, <1>2 DEF DeploymentNext, depvars
<1> QED
  BY <1>3, DeployInvariant, PTL DEF DeploymentSpec, MisnamedByResolution

-----------------------------------------------------------------------------
(* The script, as long as no signal interrupted a start or a recovery.     *)

Looks == {"check_python", "check_interceptor"}

(* The last k commands of a recovery are left, and then looks. *)
Remaining(s, k) ==
    /\ k <= Len(s)
    /\ \A n \in 1..k : s[n] = Recovery[5 - k + n]
    /\ \A n \in 1..Len(s) : n > k => s[n] \in Looks

LEMMA NothingRemains ==
    /\ <<>> \in Seq(Commands) /\ Remaining(<<>>, 0)
    /\ <<"check_python", "check_interceptor">> \in Seq(Commands)
    /\ Remaining(<<"check_python", "check_interceptor">>, 0)
    /\ Remaining(<<"start_interceptor">>, 1)
<1>1. <<>> \in Seq(Commands) /\ Remaining(<<>>, 0)
  BY DEF Remaining
<1>2. <<"check_python", "check_interceptor">> \in Seq(Commands)
  BY DEF Commands
<1>3. Remaining(<<"check_python", "check_interceptor">>, 0)
  BY DEF Remaining, Looks
<1>4. Remaining(<<"start_interceptor">>, 1)
  BY RecoveryIs DEF Remaining
<1> QED
  BY <1>1, <1>2, <1>3, <1>4

LEMMA NextCommand ==
    ASSUME NEW s \in Seq(Commands), s # <<>>, NEW k \in 0..5, Remaining(s, k)
    PROVE  \/ k = 0 /\ Head(s) \in Looks /\ Remaining(Tail(s), 0)
           \/ k \in 1..5 /\ Head(s) = Recovery[6 - k] /\ Remaining(Tail(s), k - 1)
<1>1. /\ Len(s) \in Nat \ {0} /\ Head(s) = s[1]
      /\ Tail(s) \in Seq(Commands) /\ Len(Tail(s)) = Len(s) - 1
      /\ \A n \in 1..Len(Tail(s)) : Tail(s)[n] = s[n + 1]
  BY HeadTailProperties, EmptySeq, LenProperties
<1>2. CASE k = 0
  <2>1. Head(s) \in Looks
    BY <1>1, <1>2 DEF Remaining
  <2>2. Remaining(Tail(s), 0)
    <3>1. \A n \in 1..Len(Tail(s)) : n + 1 \in 1..Len(s) /\ n + 1 > 0
      BY <1>1
    <3>2. \A n \in 1..Len(Tail(s)) : Tail(s)[n] \in Looks
      BY <1>1, <1>2, <3>1 DEF Remaining
    <3>3. 0 <= Len(Tail(s)) /\ 1..0 = {}
      BY <1>1
    <3> QED
      BY <3>2, <3>3 DEF Remaining
  <2> QED
    BY <1>2, <2>1, <2>2
<1>3. CASE k \in 1..5
  <2>1. Head(s) = Recovery[6 - k]
    <3>1. 1 \in 1..k /\ 5 - k + 1 = 6 - k
      BY <1>3
    <3> QED
      BY <1>1, <3>1 DEF Remaining
  <2>2. k - 1 <= Len(Tail(s))
    BY <1>1, <1>3 DEF Remaining
  <2>3. ASSUME NEW n \in 1..(k - 1)
        PROVE  Tail(s)[n] = Recovery[5 - (k - 1) + n]
    <3>1. n \in 1..Len(Tail(s)) /\ n + 1 \in 1..k /\ 5 - k + (n + 1) = 5 - (k - 1) + n
      BY <1>1, <1>3, <2>2, <2>3
    <3> QED
      BY <1>1, <3>1 DEF Remaining
  <2>4. ASSUME NEW n \in 1..Len(Tail(s)), n > k - 1
        PROVE  Tail(s)[n] \in Looks
    <3>1. n + 1 \in 1..Len(s) /\ n + 1 > k
      BY <1>1, <1>3, <2>4
    <3> QED
      BY <1>1, <3>1 DEF Remaining
  <2> QED
    BY <1>3, <2>1, <2>2, <2>3, <2>4 DEF Remaining
<1> QED
  BY <1>2, <1>3

LEMMA FullRecovery ==
    ASSUME NEW s \in Seq(Commands), Remaining(s, 0)
    PROVE  Remaining(Recovery \o s, 5)
<1> DEFINE r == Recovery \o s
<1>1. /\ Len(s) \in Nat
      /\ Len(r) = 5 + Len(s)
      /\ \A n \in 1..5 : r[n] = Recovery[n]
      /\ \A n \in 1..Len(r) : n > 5 => r[n] = s[n - 5]
  <2>0. Recovery \in Seq(Commands) /\ Len(Recovery) = 5
    BY RecoveryIs
  <2>1. /\ Len(r) = Len(Recovery) + Len(s)
        /\ \A n \in 1 .. Len(Recovery) + Len(s) : r[n] =
             IF n <= Len(Recovery) THEN Recovery[n] ELSE s[n - Len(Recovery)]
    BY <2>0, ConcatProperties, Zenon
  <2>2. Len(s) \in Nat
    BY LenProperties
  <2> HIDE DEF r
  <2> QED
    BY <2>0, <2>1, <2>2
<1> HIDE DEF r
<1>2. \A n \in 1..5 : 5 - 5 + n = n
  OBVIOUS
<1>3. \A n \in 1..Len(r) : n > 5 => n - 5 \in 1..Len(s) /\ n - 5 > 0
  BY <1>1
<1>4. 5 <= Len(r)
  BY <1>1
<1>5. \A n \in 1..Len(r) : n > 5 => r[n] \in Looks
  BY <1>1, <1>3 DEF Remaining
<1>6. Remaining(r, 5)
  BY <1>1, <1>2, <1>4, <1>5 DEF Remaining
<1> QED
  BY <1>6 DEF r

(* A recovery that is not over has the start of its monitor ahead. *)
LEMMA StartAhead ==
    ASSUME NEW s \in Seq(Commands), NEW k \in 1..5, Remaining(s, k)
    PROVE  \E n \in 1..Len(s) : s[n] = "start_interceptor"
<1>1. k \in 1..k /\ 5 - k + k = 5
  OBVIOUS
<1>2. s[k] = Recovery[5] /\ k \in 1..Len(s)
  <2>1. s[k] = Recovery[5 - k + k] /\ k <= Len(s) /\ Len(s) \in Nat
    BY <1>1, LenProperties DEF Remaining
  <2> QED
    BY <1>1, <2>1
<1> QED
  BY <1>2, RecoveryIs

(* Where the script is, and what that says of the programs: what is        *)
(* watched is what the files name, no program runs but the first one and   *)
(* that of the pid file, and the checkpoint is of the first one.           *)
NoneTraced == \A t \in All : traced[t] = 0
OneWatched ==
    /\ \A t \in All : traced[t] # 0 => t[1] = pid_file /\ traced[t] = int_pid_file
    /\ Programs \subseteq {1, pid_file}
    /\ \A t \in image : t[1] = 1

(* The start of the script, before its monitor. *)
Beginning ==
    /\ NoneTraced
    /\ \/ /\ script = <<"start_python", "checkpoint_python", "start_interceptor">>
          /\ live = {} /\ used.programs = 0
       \/ script = <<"checkpoint_python", "start_interceptor">> /\ pid_file = 1

(* Later, k commands before the next look: no thread is traced from the    *)
(* kill of the program to the start of the next monitor.                   *)
Later(k) ==
    /\ Remaining(script, k)
    /\ k \in 1..3 => NoneTraced
    /\ k \in 2..3 => Programs \subseteq {1}

ScriptInv == ~ interrupted => OneWatched /\ (Beginning \/ \E k \in 0..5 : Later(k))

(* Steps after which no other program runs or is traced. *)
Mild ==
    /\ UNCHANGED <<image, pid_file, int_pid_file>>
    /\ used'.programs = used.programs
    /\ Programs' \subseteq Programs
    /\ live = {} => live' = {}
    /\ \A t \in All : traced'[t] # 0 =>
          \E u \in All : traced[u] # 0 /\ traced[u] = traced'[t] /\ u[1] = t[1]

LEMMA MildKeeps ==
    ASSUME Mild
    PROVE  /\ OneWatched => OneWatched'
           /\ NoneTraced => NoneTraced'
           /\ Programs \subseteq {1} => Programs' \subseteq {1}
<1>1. OneWatched => OneWatched'
  BY DEF Mild, OneWatched
<1>2. NoneTraced => NoneTraced'
  BY DEF Mild, NoneTraced
<1>3. Programs \subseteq {1} => Programs' \subseteq {1}
  BY DEF Mild
<1> QED
  BY <1>1, <1>2, <1>3

LEMMA MildScript ==
    ASSUME ScriptInv, Mild, UNCHANGED <<script, interrupted>>
    PROVE  ScriptInv'
<1> SUFFICES ASSUME ~ interrupted
             PROVE  OneWatched' /\ (Beginning' \/ \E k \in 0..5 : Later(k)')
  BY DEF ScriptInv
<1>1. OneWatched'
  BY MildKeeps DEF ScriptInv
<1>2. CASE Beginning
  BY <1>1, <1>2, MildKeeps DEF Beginning, Mild
<1>3. ASSUME NEW k \in 0..5, Later(k)
      PROVE  Later(k)'
  BY <1>3, MildKeeps DEF Later, Remaining
<1> QED
  BY <1>1, <1>2, <1>3 DEF ScriptInv

LEMMA EndedIsMild ==
    ASSUME DeployInv, NEW gone, Ended(gone), UNCHANGED <<image, pid_file, int_pid_file>>,
           used'.programs = used.programs
    PROVE  Mild
<1>1. /\ live' \subseteq live
      /\ \A t \in All : traced'[t] # 0 => traced'[t] = traced[t]
  BY DEF Ended
<1> QED
  BY <1>1 DEF Mild, Programs, LiveRun

LEMMA StillIsMild ==
    ASSUME UNCHANGED <<image, pid_file, int_pid_file, live, traced>>,
           used'.programs = used.programs
    PROVE  Mild
  BY DEF Mild, Programs, LiveRun

(* What is not a command or a signal to the script is mild. *)
LEMMA EnvironmentIsMild ==
    ASSUME DeployInv, Environment
    PROVE  Trap \/ (Mild /\ UNCHANGED <<script, interrupted>>)
<1> DEFINE Kept == Mild /\ UNCHANGED <<script, interrupted>>
<1>1. ASSUME NEW p \in Runs, ProgramCrashes(p)
      PROVE  Kept
  <2>1. used'.programs = used.programs
    BY <1>1, UseKeeps DEF ProgramCrashes, DeployInv
  <2> QED
    BY <1>1, <2>1, EndedIsMild DEF ProgramCrashes, files, user
<1>2. ASSUME NEW t \in All, SignalTaken(t)
      PROVE  Kept
  <2>1. used'.programs = used.programs
    BY <1>2, UseKeeps DEF SignalTaken, DeployInv
  <2> QED
    BY <1>2, <2>1, EndedIsMild DEF SignalTaken, files, user
<1>3. ASSUME NEW i \in Runs, MonitorCrashes(i)
      PROVE  Kept
  <2>1. used'.programs = used.programs
    BY <1>3, UseKeeps DEF MonitorCrashes, DeployInv
  <2> QED
    BY <1>3, <2>1, EndedIsMild DEF MonitorCrashes, MonitorEnds, files, user
<1>4. ASSUME NEW p \in Runs, Spawn(p)
      PROVE  Kept
  <2>1. used'.programs = used.programs
    BY <1>4, UseKeeps DEF Spawn, DeployInv
  <2>2. /\ LiveRun(p) /\ live' = live \cup {<<p, "worker">>}
        /\ UNCHANGED <<script, files, traced, interrupted>>
    BY <1>4 DEF Spawn, tracing, user
  <2>3. \A q : <<q, "main">> # <<p, "worker">>
    OBVIOUS
  <2>4. Programs' = Programs /\ live # {}
    BY <2>2, <2>3 DEF Programs, LiveRun
  <2> QED
    BY <2>1, <2>2, <2>4 DEF Mild, files
<1>5. ASSUME NEW p \in Runs, WorkerEnds(p)
      PROVE  Kept
  <2>1. used'.programs = used.programs
    BY <1>5, UseKeeps DEF WorkerEnds, DeployInv
  <2>2. /\ live' \subseteq live
        /\ \A t \in All : traced'[t] # 0 => traced'[t] = traced[t]
        /\ UNCHANGED <<script, files, interrupted>>
    BY <1>5 DEF WorkerEnds, user, DeployInv, DeployTypes
  <2> QED
    BY <2>1, <2>2 DEF Mild, Programs, LiveRun, files
<1>6. ASSUME NEW i \in Runs, HandleCall(i)
      PROVE  Kept
  BY <1>6, StillIsMild DEF HandleCall, files, user
<1>7. ASSUME NEW i \in Runs, Reattach(i)
      PROVE  Kept
  <2> DEFINE t == <<target[i], "worker">>
  <2>1. used'.programs = used.programs
    BY <1>7, UseKeeps DEF Reattach, DeployInv
  <2>2. /\ TracedBy(i) # {} /\ traced' = [traced EXCEPT ![t] = i]
        /\ UNCHANGED <<script, files, live, interrupted>>
    BY <1>7 DEF Reattach, user
  <2>3. t[1] = target[i]
    OBVIOUS
  <2> HIDE DEF t
  <2>4. PICK u \in All : traced[u] = i /\ u[1] = t[1] /\ traced[u] # 0
    <3>1. PICK u \in live : traced[u] = i
      BY <2>2 DEF TracedBy
    <3> QED
      BY <2>3, <3>1, RunFacts DEF DeployInv, DeployTypes, TracedInv
  <2>5. \A v \in All : traced'[v] = IF v = t THEN i ELSE traced[v]
    BY <2>2 DEF DeployInv, DeployTypes
  <2>6. \A v \in All : traced'[v] # 0 =>
          \E w \in All : traced[w] # 0 /\ traced[w] = traced'[v] /\ w[1] = v[1]
    BY <2>4, <2>5
  <2> QED
    BY <2>1, <2>2, <2>6 DEF Mild, Programs, LiveRun, files
<1> HIDE DEF Kept
<1>8. Trap \/ Kept
  BY <1>1, <1>2, <1>3, <1>4, <1>5, <1>6, <1>7 DEF Environment
<1> QED
  BY <1>8 DEF Kept

(* A command that is not part of the start is one of a recovery, or a look. *)
LEMMA AtCommand ==
    ASSUME DeployInv, ScriptInv, ~ interrupted, NEW c \in Commands, Does(c)
    PROVE  /\ OneWatched
           /\ \/ /\ c = "start_python" /\ NoneTraced /\ live = {} /\ used.programs = 0
                 /\ script' = <<"checkpoint_python", "start_interceptor">>
              \/ /\ c = "checkpoint_python" /\ NoneTraced /\ pid_file = 1
                 /\ script' = <<"start_interceptor">>
              \/ /\ c \in Looks /\ Remaining(Tail(script), 0)
              \/ \E k \in 1..5 : /\ c = Recovery[6 - k] /\ Later(k)
                                 /\ Remaining(script', k - 1)
<1>1. script \in Seq(Commands) /\ script # <<>> /\ Head(script) = c /\ script' = Tail(script)
  BY DEF Does, DeployInv, DeployTypes
<1>2. OneWatched /\ (Beginning \/ \E k \in 0..5 : Later(k))
  BY DEF ScriptInv
<1>3. CASE Beginning
  <2>1. CASE script = <<"start_python", "checkpoint_python", "start_interceptor">>
    <3>1. /\ Head(script) = "start_python"
          /\ Tail(script) = <<"checkpoint_python", "start_interceptor">>
      BY <2>1
    <3>2. NoneTraced /\ live = {} /\ used.programs = 0
      <4>1. script # <<"checkpoint_python", "start_interceptor">>
        BY <2>1
      <4> QED
        BY <1>3, <4>1 DEF Beginning
    <3> QED
      BY <1>1, <1>2, <3>1, <3>2
  <2>2. CASE script = <<"checkpoint_python", "start_interceptor">>
    <3>1. Head(script) = "checkpoint_python" /\ Tail(script) = <<"start_interceptor">>
      BY <2>2
    <3>2. NoneTraced /\ pid_file = 1
      <4>1. script # <<"start_python", "checkpoint_python", "start_interceptor">>
        BY <2>2
      <4> QED
        BY <1>3, <4>1 DEF Beginning
    <3> QED
      BY <1>1, <1>2, <3>1, <3>2
  <2> QED
    BY <1>3, <2>1, <2>2 DEF Beginning
<1>4. ASSUME NEW k \in 0..5, Later(k)
      PROVE  \/ c \in Looks /\ Remaining(Tail(script), 0)
             \/ k \in 1..5 /\ c = Recovery[6 - k] /\ Remaining(script', k - 1)
  <2>1. Remaining(script, k)
    BY <1>4 DEF Later
  <2> QED
    BY <1>1, <2>1, NextCommand
<1> QED
  BY <1>2, <1>3, <1>4

(* The command of a recovery tells how much of it is left. *)
LEMMA LeftOver ==
    ASSUME NEW k \in 1..5
    PROVE  /\ Recovery[6 - k] = "start_interceptor" <=> k = 1
           /\ Recovery[6 - k] = "start_python" <=> k = 2
           /\ Recovery[6 - k] = "restore_python" <=> k = 3
           /\ Recovery[6 - k] = "kill_python" <=> k = 4
           /\ Recovery[6 - k] = "kill_interceptor" <=> k = 5
           /\ Recovery[6 - k] \notin Looks /\ Recovery[6 - k] # "checkpoint_python"
<1>1. k = 1 \/ k = 2 \/ k = 3 \/ k = 4 \/ k = 5
  OBVIOUS
<1> QED
  BY <1>1, RecoveryIs DEF Looks

LEMMA StartPythonScript ==
    ASSUME DeployInv, ScriptInv, start_python
    PROVE  ScriptInv'
<1>1. PICK p \in Runs :
        LET threads == {<<p, t>> : t \in Tids}
        IN  /\ Does("start_python")
            /\ p = used.programs + 1
            /\ live' = live \cup threads
            /\ pid_file' = p
            /\ UNCHANGED <<image, traced, interrupted>>
  BY DEF start_python, tracing, user
<1> SUFFICES ASSUME ~ interrupted
             PROVE  OneWatched' /\ (Beginning' \/ \E k \in 0..5 : Later(k)')
  BY <1>1 DEF ScriptInv
<1>2. Programs' \subseteq Programs \cup {p}
  BY <1>1 DEF Programs, LiveRun
<1>3. "start_python" \in Commands /\ "start_python" \notin Looks
  BY DEF Commands, Looks
<1>4. CASE /\ NoneTraced /\ live = {} /\ used.programs = 0
           /\ script' = <<"checkpoint_python", "start_interceptor">>
  <2>1. p = 1
    BY <1>1, <1>4
  <2>2. Programs = {}
    BY <1>4 DEF Programs, LiveRun
  <2>3. NoneTraced'
    BY <1>1, <1>4 DEF NoneTraced
  <2>4. OneWatched
    BY DEF ScriptInv
  <2>5. OneWatched'
    BY <1>1, <1>2, <2>2, <2>3, <2>4 DEF OneWatched, NoneTraced
  <2>6. Beginning'
    BY <1>1, <1>4, <2>1, <2>3 DEF Beginning
  <2> QED
    BY <2>5, <2>6
<1>5. CASE \E k \in 1..5 : /\ "start_python" = Recovery[6 - k] /\ Later(k)
                           /\ Remaining(script', k - 1)
  <2>1. Later(2) /\ Remaining(script', 1)
    BY <1>5, LeftOver
  <2>2. NoneTraced /\ Programs \subseteq {1}
    BY <2>1 DEF Later
  <2>3. NoneTraced'
    BY <1>1, <2>2 DEF NoneTraced
  <2>4. OneWatched
    BY DEF ScriptInv
  <2>5. OneWatched'
    BY <1>1, <1>2, <2>2, <2>3, <2>4 DEF OneWatched, NoneTraced
  <2>6. Later(1)'
    BY <2>1, <2>3 DEF Later, Remaining
  <2> QED
    BY <2>5, <2>6
<1> QED
  BY <1>1, <1>3, <1>4, <1>5, AtCommand

LEMMA CheckpointScript ==
    ASSUME DeployInv, ScriptInv, checkpoint_python
    PROVE  ScriptInv'
<1>1. /\ Does("checkpoint_python")
      /\ image' = {t \in live : t[1] = pid_file} \/ image' = image
      /\ UNCHANGED <<pid_file, int_pid_file, live, traced, interrupted>>
  BY DEF checkpoint_python, tracing, user
<1> SUFFICES ASSUME ~ interrupted
             PROVE  OneWatched' /\ \E k \in 0..5 : Later(k)'
  BY <1>1 DEF ScriptInv
<1>2. OneWatched /\ NoneTraced /\ pid_file = 1 /\ script' = <<"start_interceptor">>
  <2>1. "checkpoint_python" \in Commands /\ "checkpoint_python" \notin Looks
    BY DEF Commands, Looks
  <2> QED
    BY <1>1, <2>1, AtCommand, LeftOver
<1>3. Programs' = Programs /\ NoneTraced'
  BY <1>1, <1>2 DEF Programs, LiveRun, NoneTraced
<1>4. OneWatched'
  BY <1>1, <1>2, <1>3 DEF OneWatched
<1>5. Later(1)'
  BY <1>2, <1>3, NothingRemains DEF Later
<1> QED
  BY <1>4, <1>5

LEMMA StartInterceptorScript ==
    ASSUME DeployInv, ScriptInv, start_interceptor
    PROVE  ScriptInv'
<1>1. PICK i \in Runs :
        /\ Does("start_interceptor")
        /\ attach_all_threads(i, pid_file)
        /\ int_pid_file' = i
        /\ UNCHANGED <<pid_file, image, live, interrupted>>
  BY DEF start_interceptor, user
<1> SUFFICES ASSUME ~ interrupted
             PROVE  OneWatched' /\ \E k \in 0..5 : Later(k)'
  BY <1>1 DEF ScriptInv
<1>2. OneWatched /\ Later(1) /\ Remaining(script', 0)
  <2>1. "start_interceptor" \in Commands /\ "start_interceptor" \notin Looks
    BY DEF Commands, Looks
  <2>2. \A k \in 1..5 : "start_interceptor" = Recovery[6 - k] => k = 1 /\ k - 1 = 0
    BY LeftOver
  <2>3. /\ OneWatched
        /\ \E k \in 1..5 : /\ "start_interceptor" = Recovery[6 - k] /\ Later(k)
                            /\ Remaining(script', k - 1)
    BY <1>1, <2>1, AtCommand
  <2> QED
    BY <2>2, <2>3
<1>3. NoneTraced
  BY <1>2 DEF Later
<1>4. \A t \in All : traced'[t] # 0 => t[1] = pid_file /\ traced'[t] = i
  BY <1>1, <1>3 DEF attach_all_threads, NoneTraced
<1>5. Programs' = Programs
  BY <1>1 DEF Programs, LiveRun
<1>6. OneWatched'
  BY <1>1, <1>2, <1>4, <1>5 DEF OneWatched
<1>7. Later(0)'
  BY <1>2 DEF Later, Remaining
<1> QED
  BY <1>6, <1>7

(* The other commands of a recovery, k of them left before the command.    *)
LEMMA RecoveryCommand ==
    ASSUME DeployInv, ScriptInv, ~ interrupted, NEW k \in 3..5, Does(Recovery[6 - k])
    PROVE  OneWatched /\ Later(k) /\ Remaining(script', k - 1)
<1>1. /\ Recovery[6 - k] \in Commands
      /\ Recovery[6 - k] \notin Looks \cup {"start_python", "checkpoint_python"}
  <2>1. k = 3 \/ k = 4 \/ k = 5
    OBVIOUS
  <2> QED
    BY <2>1, RecoveryIs DEF Commands, Looks
<1>2. /\ OneWatched
      /\ \E j \in 1..5 : /\ Recovery[6 - k] = Recovery[6 - j] /\ Later(j)
                         /\ Remaining(script', j - 1)
  <2> DEFINE c == Recovery[6 - k]
  <2>1. c \in Commands /\ c \notin Looks /\ c # "start_python" /\ c # "checkpoint_python"
        /\ Does(c)
    BY <1>1
  <2> HIDE DEF c
  <2>2. /\ OneWatched
        /\ \E j \in 1..5 : c = Recovery[6 - j] /\ Later(j) /\ Remaining(script', j - 1)
    BY <2>1, AtCommand
  <2> QED
    BY <2>2 DEF c
<1>3. \A j \in 1..5 : Recovery[6 - k] = Recovery[6 - j] => j = k
  <2>1. k = 3 \/ k = 4 \/ k = 5
    OBVIOUS
  <2> QED
    BY <2>1, LeftOver, RecoveryIs
<1> QED
  BY <1>2, <1>3

LEMMA RestoreScript ==
    ASSUME DeployInv, ScriptInv, restore_python
    PROVE  ScriptInv'
<1>1. /\ Does("restore_python")
      /\ live' = live \cup image \/ live' = live
      /\ UNCHANGED <<pid_file, int_pid_file, image, traced, interrupted>>
  BY DEF restore_python, files, tracing, user
<1> SUFFICES ASSUME ~ interrupted
             PROVE  OneWatched' /\ \E k \in 0..5 : Later(k)'
  BY <1>1 DEF ScriptInv
<1>2. OneWatched /\ Later(3) /\ Remaining(script', 2)
  <2>1. Recovery[6 - 3] = "restore_python" /\ 3 - 1 = 2 /\ 3 \in 3..5
    BY RecoveryIs
  <2>2. Does(Recovery[6 - 3])
    BY <1>1, <2>1
  <2>3. OneWatched /\ Later(3) /\ Remaining(script', 3 - 1)
    BY <2>1, <2>2, RecoveryCommand
  <2> QED
    BY <2>1, <2>3
<1>3. NoneTraced /\ Programs \subseteq {1}
  BY <1>2 DEF Later
<1>4. NoneTraced' /\ Programs' \subseteq {1}
  <2>1. \A q : <<q, "main">>[1] = q
    OBVIOUS
  <2>2. Programs' \subseteq Programs \cup {1}
    BY <1>1, <1>2, <2>1 DEF Programs, LiveRun, OneWatched
  <2> QED
    BY <1>1, <1>3, <2>2 DEF NoneTraced
<1>5. OneWatched'
  BY <1>1, <1>2, <1>4 DEF OneWatched, NoneTraced
<1>6. Later(2)'
  BY <1>2, <1>4 DEF Later, Remaining
<1> QED
  BY <1>5, <1>6

LEMMA KillPythonScript ==
    ASSUME DeployInv, ScriptInv, kill_python
    PROVE  ScriptInv'
<1>1. /\ Does("kill_python") /\ Ended({pid_file})
      /\ UNCHANGED <<pid_file, int_pid_file, image, interrupted, used>>
  BY DEF kill_python, files, user
<1> SUFFICES ASSUME ~ interrupted
             PROVE  OneWatched' /\ \E k \in 0..5 : Later(k)'
  BY <1>1 DEF ScriptInv
<1>2. OneWatched /\ Later(4) /\ Remaining(script', 3)
  <2>1. Recovery[6 - 4] = "kill_python" /\ 4 - 1 = 3 /\ 4 \in 3..5
    BY RecoveryIs
  <2>2. Does(Recovery[6 - 4])
    BY <1>1, <2>1
  <2>3. OneWatched /\ Later(4) /\ Remaining(script', 4 - 1)
    BY <2>1, <2>2, RecoveryCommand
  <2> QED
    BY <2>1, <2>3
<1>3. /\ live' = {t \in live : t[1] # pid_file}
      /\ \A t \in All : traced'[t] = IF t[1] = pid_file THEN 0 ELSE traced[t]
  BY <1>1 DEF Ended
<1>4. NoneTraced'
  BY <1>2, <1>3 DEF NoneTraced, OneWatched
<1>5. Programs' \subseteq {1}
  <2>1. \A q : <<q, "main">>[1] = q
    OBVIOUS
  <2>2. Programs' \subseteq Programs \ {pid_file}
    BY <1>3, <2>1 DEF Programs, LiveRun
  <2> QED
    BY <1>2, <2>2 DEF OneWatched
<1>6. OneWatched'
  BY <1>1, <1>2, <1>4, <1>5 DEF OneWatched, NoneTraced
<1>7. Later(3)'
  BY <1>2, <1>4, <1>5 DEF Later, Remaining
<1> QED
  BY <1>6, <1>7

LEMMA KillInterceptorScript ==
    ASSUME DeployInv, ScriptInv, kill_interceptor
    PROVE  ScriptInv'
<1>1. /\ Does("kill_interceptor") /\ Mild /\ UNCHANGED interrupted
  <2>1. /\ Does("kill_interceptor")
        /\ UNCHANGED <<pid_file, int_pid_file, image, interrupted, used>>
    BY DEF kill_interceptor, files, user
  <2>2. Ended({t[1] : t \in TracedBy(int_pid_file)}) \/ UNCHANGED <<live, traced>>
    BY DEF kill_interceptor, MonitorEnds
  <2> QED
    BY <2>1, <2>2, EndedIsMild, StillIsMild
<1> SUFFICES ASSUME ~ interrupted
             PROVE  OneWatched' /\ \E k \in 0..5 : Later(k)'
  BY <1>1 DEF ScriptInv
<1>2. OneWatched /\ Remaining(script', 4)
  <2>1. Recovery[6 - 5] = "kill_interceptor" /\ 5 - 1 = 4 /\ 5 \in 3..5
    BY RecoveryIs
  <2>2. Does(Recovery[6 - 5])
    BY <1>1, <2>1
  <2>3. OneWatched /\ Later(5) /\ Remaining(script', 5 - 1)
    BY <2>1, <2>2, RecoveryCommand
  <2> QED
    BY <2>1, <2>3
<1>3. OneWatched'
  BY <1>1, <1>2, MildKeeps
<1>4. Later(4)'
  <2>1. 4 \notin 1..3 /\ 4 \notin 2..3
    OBVIOUS
  <2> QED
    BY <1>2, <2>1 DEF Later, Remaining
<1> QED
  BY <1>3, <1>4

(* A look, which may find a recovery due, and the next round.               *)
LEMMA LookScript ==
    ASSUME DeployInv, ScriptInv, check_python \/ check_interceptor \/ NextRound
    PROVE  ScriptInv'
<1>1. Mild /\ UNCHANGED interrupted
  <2>1. UNCHANGED <<files, live, born, tracing, user, used>>
    BY DEF check_python, check_interceptor, check, NextRound
  <2> QED
    BY <2>1, StillIsMild DEF files, tracing, user
<1> SUFFICES ASSUME ~ interrupted
             PROVE  OneWatched' /\ \E k \in 0..5 : Later(k)'
  BY <1>1 DEF ScriptInv
<1>2. OneWatched'
  BY <1>1, MildKeeps DEF ScriptInv
<1>3. Remaining(script', 0) \/ Remaining(script', 5)
  <2>1. ASSUME NEW c \in Looks, NEW gone, check(c, gone)
        PROVE  Remaining(script', 0) \/ Remaining(script', 5)
    <3>1. /\ script # <<>> /\ Head(script) = c /\ script \in Seq(Commands)
          /\ script' = (IF gone /\ RecoveriesLeft THEN Recovery ELSE <<>>) \o Tail(script)
      BY <2>1 DEF check, DeployInv, DeployTypes
    <3>2. Tail(script) \in Seq(Commands)
      BY <3>1, HeadTailProperties
    <3>3. Remaining(Tail(script), 0)
      <4>1. \/ script = <<"start_python", "checkpoint_python", "start_interceptor">>
            \/ script = <<"checkpoint_python", "start_interceptor">>
            \/ \E k \in 0..5 : Later(k)
        BY DEF ScriptInv, Beginning
      <4>2. CASE script = <<"start_python", "checkpoint_python", "start_interceptor">>
        <5>1. Head(script) = "start_python"
          BY <4>2
        <5> QED
          BY <2>1, <3>1, <5>1 DEF Looks
      <4>3. CASE script = <<"checkpoint_python", "start_interceptor">>
        <5>1. Head(script) = "checkpoint_python"
          BY <4>3
        <5> QED
          BY <2>1, <3>1, <5>1 DEF Looks
      <4>4. ASSUME NEW k \in 0..5, Later(k)
            PROVE  Remaining(Tail(script), 0)
        <5>1. Remaining(script, k)
          BY <4>4 DEF Later
        <5>2. k \in 1..5 => Recovery[6 - k] \notin Looks
          BY LeftOver
        <5> QED
          BY <2>1, <3>1, <5>1, <5>2, NextCommand
      <4> QED
        BY <4>1, <4>2, <4>3, <4>4
    <3>4. script' = Recovery \o Tail(script) \/ script' = Tail(script)
      <4>1. <<>> \o Tail(script) = Tail(script)
        BY <3>2, ConcatEmptySeq
      <4> QED
        BY <3>1, <4>1
    <3> QED
      BY <3>2, <3>3, <3>4, FullRecovery
  <2>2. CASE NextRound
    BY <2>2, NothingRemains DEF NextRound
  <2> QED
    BY <2>1, <2>2 DEF check_python, check_interceptor, Looks
<1>4. Later(0)' \/ Later(5)'
  <2>1. \A k \in {0, 5} : k \notin 1..3 /\ k \notin 2..3
    OBVIOUS
  <2> QED
    BY <1>3, <2>1 DEF Later, Remaining
<1> QED
  BY <1>2, <1>4

LEMMA TrapScript ==
    ASSUME DeployInv, ScriptInv, Trap
    PROVE  ScriptInv'
<1>1. /\ script' = Recovery \o script
      /\ ~ interrupted' => ~ interrupted
                            /\ ~ \E n \in 1..Len(script) : script[n] = "start_interceptor"
  BY DEF Trap, DeployInv, DeployTypes
<1>2. Mild
  <2>1. used'.programs = used.programs
    BY UseKeeps DEF Trap, DeployInv
  <2> QED
    BY <2>1, StillIsMild DEF Trap, files, tracing
<1> SUFFICES ASSUME ~ interrupted'
             PROVE  OneWatched' /\ \E k \in 0..5 : Later(k)'
  BY DEF ScriptInv
<1>3. OneWatched'
  BY <1>1, <1>2, MildKeeps DEF ScriptInv
<1>4. Remaining(script, 0)
  <2>1. \/ script = <<"start_python", "checkpoint_python", "start_interceptor">>
        \/ script = <<"checkpoint_python", "start_interceptor">>
        \/ \E k \in 0..5 : Remaining(script, k)
    BY <1>1 DEF ScriptInv, Beginning, Later
  <2>2. CASE script = <<"start_python", "checkpoint_python", "start_interceptor">>
    <3>1. Len(script) = 3 /\ script[3] = "start_interceptor" /\ 3 \in 1..3
      BY <2>2
    <3> QED
      BY <1>1, <3>1
  <2>3. CASE script = <<"checkpoint_python", "start_interceptor">>
    <3>1. Len(script) = 2 /\ script[2] = "start_interceptor" /\ 2 \in 1..2
      BY <2>3
    <3> QED
      BY <1>1, <3>1
  <2>4. \A k \in 1..5 : ~ Remaining(script, k)
    BY <1>1, StartAhead DEF DeployInv, DeployTypes
  <2>5. \A k \in 0..5 : k = 0 \/ k \in 1..5
    OBVIOUS
  <2> QED
    BY <2>1, <2>2, <2>3, <2>4, <2>5
<1>5. Remaining(script', 5)
  BY <1>1, <1>4, FullRecovery DEF DeployInv, DeployTypes
<1>6. Later(5)'
  <2>1. 5 \notin 1..3 /\ 5 \notin 2..3
    OBVIOUS
  <2> QED
    BY <1>5, <2>1 DEF Later, Remaining
<1> QED
  BY <1>3, <1>6

LEMMA ScriptInvariant == DeploymentSpec => []ScriptInv
<1>1. DeploymentInit => ScriptInv
  <2>1. DeploymentInit => NoneTraced /\ Programs = {}
    BY DEF DeploymentInit, NoneTraced, Programs, LiveRun
  <2>2. DeploymentInit => used.programs = 0
    BY DEF DeploymentInit
  <2> QED
    BY <2>1, <2>2 DEF DeploymentInit, ScriptInv, OneWatched, NoneTraced, Beginning
<1>2. DeployInv /\ ScriptInv /\ [DeploymentNext]_depvars => ScriptInv'
  <2> SUFFICES ASSUME DeployInv, ScriptInv, [DeploymentNext]_depvars
               PROVE  ScriptInv'
    OBVIOUS
  <2>1. CASE Script
    BY <2>1, StartPythonScript, CheckpointScript, StartInterceptorScript, KillInterceptorScript,
       KillPythonScript, RestoreScript, LookScript DEF Script
  <2>2. CASE Environment
    BY <2>2, EnvironmentIsMild, MildScript, TrapScript
  <2>3. CASE UNCHANGED depvars
    <3>1. UNCHANGED <<image, pid_file, int_pid_file, live, traced, script, interrupted>>
          /\ used'.programs = used.programs
      BY <2>3 DEF depvars, files, tracing, user
    <3> QED
      BY <3>1, StillIsMild, MildScript
  <2> QED
    BY <2>1, <2>2, <2>3 DEF DeploymentNext
<1> QED
  BY <1>1, <1>2, DeployInvariant, PTL DEF DeploymentSpec

(* Whenever the script of run.sh looks, a watched program is the one of    *)
(* PID_FILE, watched by the monitor of INT_PID_FILE, whatever became of    *)
(* the monitors whose sudo kill_all killed.                                *)
THEOREM WatchedFiled == DeploymentSpec => []WatchedIsFiled
<1>1. DeployInv /\ ScriptInv => WatchedIsFiled
  BY DEF DeployInv, DeployTypes, ScriptInv, OneWatched, WatchedIsFiled
<1> QED
  BY <1>1, DeployInvariant, ScriptInvariant, PTL

(* However many recoveries restore the checkpoint, they leave no more than *)
(* one program behind that run.sh does not know.                           *)
THEOREM OneLeft == DeploymentSpec => []OneLeftBehind
<1>1. ScriptInv => OneLeftBehind
  <2> SUFFICES ASSUME Programs \subseteq {1, pid_file}
               PROVE  Cardinality(Programs \ {pid_file}) <= 1
    BY DEF ScriptInv, OneWatched, OneLeftBehind
  <2>1. Programs \ {pid_file} \subseteq {1}
    OBVIOUS
  <2>2. IsFiniteSet({1}) /\ Cardinality({1}) = 1
    BY FS_Singleton
  <2>3. Cardinality(Programs \ {pid_file}) <= Cardinality({1})
    BY <2>1, <2>2, FS_Subset
  <2> QED
    BY <2>2, <2>3
<1> QED
  BY <1>1, ScriptInvariant, PTL

=============================================================================
