----------------------------- MODULE Supervisor -----------------------------
(***************************************************************************)
(* The deployment: src/run.sh starts a program, checkpoints it, starts a   *)
(* monitor for it and watches both, and recovers when one is gone or a     *)
(* signal comes.  Each monitor (src/main.cpp) attaches to the threads its  *)
(* program has at that moment, names those it handles, attaches the victim *)
(* of a resolution again, and takes its program along when it dies.        *)
(*                                                                         *)
(* The script is the sequence of the commands it has yet to run.  A trap   *)
(* is taken between two commands, also between those of a recovery, which  *)
(* then goes on.  No pid file is left over from an earlier run.            *)
(***************************************************************************)
EXTENDS Integers, Sequences, FiniteSets

CONSTANTS
    MaxFaults,   \* bound on crashes of programs and monitors
    MaxTraps,    \* bound on the signals the script is sent
    MaxChurn,    \* bound on the threads that end or are started later
    MaxVictims   \* bound on the resolutions of the monitors

ASSUME SupervisorBounds == {MaxFaults, MaxTraps, MaxChurn, MaxVictims} \subseteq Nat

VARIABLES
    script,        \* commands to run before the next look
    pid_file,      \* the program of PID_FILE
    int_pid_file,  \* the monitor of INT_PID_FILE, 0 if there is no file
    image,         \* the checkpoint: a program and its threads then
    live,          \* threads that exist: <<program, thread id>>
    born,          \* thread -> incarnations of its id so far
    traced,        \* thread -> the monitor that traces it, or 0
    monitors,      \* monitors that run
    sudos,         \* those whose sudo runs
    target,        \* monitor -> its program, 0 before it is started
    names,         \* monitor -> the worker thread it gave a name to, by incarnation
    as_root,       \* root runs the script
    interrupted,   \* history: a signal came before a start or a recovery was done
    used           \* what was used of the bounds

tracing == <<traced, monitors, sudos, target, names>>
files   == <<pid_file, int_pid_file, image>>
user    == <<as_root, interrupted>>
depvars == <<script, files, live, born, tracing, user, used>>

(* Programs and monitors are numbered as they are started, and the number  *)
(* of recoveries is bounded: one for each fault and each signal, which is  *)
(* all the script of root needs.                                           *)
Runs == 1..(1 + MaxFaults + MaxTraps)
RecoveriesLeft ==
    used.programs + Len(SelectSeq(script, LAMBDA c : c = "start_python")) < Cardinality(Runs)
Tids == {"main", "worker"}
All  == Runs \X Tids

LiveRun(p) == <<p, "main">> \in live
Programs   == {p \in Runs : LiveRun(p)}
TracedBy(i) == {t \in live : traced[t] = i}

-----------------------------------------------------------------------------
(* Ends of processes.                                                      *)

(* The threads of the programs in gone end. *)
Ended(gone) ==
    /\ live' = {t \in live : t[1] \notin gone}
    /\ traced' = [t \in All |-> IF t[1] \in gone THEN 0 ELSE traced[t]]

(* A monitor ends, and with it all it knew.  PTRACE_O_EXITKILL kills what  *)
(* it traces.                                                              *)
MonitorEnds(i) ==
    /\ monitors' = monitors \ {i}
    /\ target' = [target EXCEPT ![i] = 0]
    /\ names' = [names EXCEPT ![i] = 0]
    /\ Ended({t[1] : t \in TracedBy(i)})

-----------------------------------------------------------------------------
(* The commands of run.sh.                                                 *)

(* A slip: the monitor is started first. *)
RecoverySwapped == <<"kill_interceptor", "kill_python", "restore_python", "start_interceptor",
                     "start_python">>

(* cleanup_and_restart. *)
Recovery == <<"kill_interceptor", "kill_python", "restore_python", "start_python",
              "start_interceptor">>

(* The next command is done. *)
Does(command) == /\ script # <<>>
                 /\ Head(script) = command
                 /\ script' = Tail(script)

(* After its second of sleep the program has its worker threads. *)
start_python ==
    \E p \in Runs :
    LET threads == {<<p, t>> : t \in Tids}
    IN  /\ Does("start_python")
        /\ p = used.programs + 1
        /\ live' = live \cup threads
        /\ born' = [t \in All |-> IF t \in threads THEN 1 ELSE born[t]]
        /\ pid_file' = p
        /\ used' = [used EXCEPT !.programs = p]
        /\ UNCHANGED <<int_pid_file, image, tracing, user>>

(* criu dump fails on a process that is gone or traced, and may fail. *)
checkpoint_python ==
    /\ Does("checkpoint_python")
    /\ \/ /\ LiveRun(pid_file)
          /\ \A t \in Tids : traced[<<pid_file, t>>] = 0
          /\ image' = {t \in live : t[1] = pid_file}
       \/ UNCHANGED image
    /\ UNCHANGED <<pid_file, int_pid_file, live, born, tracing, user, used>>

(* criu restore brings the threads back under their old ids.  It fails if  *)
(* they are taken, and may fail.                                           *)
restore_python ==
    /\ Does("restore_python")
    /\ \/ /\ \A t \in image : ~ LiveRun(t[1])
          /\ live' = live \cup image
          /\ born' = [t \in All |-> born[t] + IF t \in image THEN 1 ELSE 0]
       \/ UNCHANGED <<live, born>>
    /\ UNCHANGED <<files, tracing, user, used>>

(* A slip: a thread that has ended counts as attached. *)
attach_all_threads_unchecked(i, p) ==
    traced' = [t \in All |-> IF t[1] = p /\ traced[t] = 0 THEN i ELSE traced[t]]

(* attach_all_threads: every thread of the program that nobody traces yet. *)
attach_all_threads(i, p) ==
    traced' = [t \in All |-> IF t \in live /\ t[1] = p /\ traced[t] = 0 THEN i ELSE traced[t]]

start_interceptor ==
    \E i \in Runs :
        /\ Does("start_interceptor")
        /\ i = used.monitors + 1
        /\ attach_all_threads(i, pid_file)
        /\ monitors' = monitors \cup {i}
        /\ sudos' = sudos \cup {i}
        /\ target' = [target EXCEPT ![i] = pid_file]
        /\ int_pid_file' = i
        /\ used' = [used EXCEPT !.monitors = i]
        /\ UNCHANGED <<pid_file, image, live, born, names, user>>

(* kill_all, the monitor: the pid is that of sudo.  If sudo has forked, the *)
(* monitor itself lives on.                                                *)
kill_interceptor ==
    /\ Does("kill_interceptor")
    /\ sudos' = sudos \ {int_pid_file}
    /\ \/ int_pid_file \in sudos /\ MonitorEnds(int_pid_file)
       \/ UNCHANGED <<live, traced, monitors, target, names>>
    /\ UNCHANGED <<files, born, user, used>>

(* A slip: without -9 the signal is SIGTERM, which only an untraced thread *)
(* lets through.                                                           *)
kill_python_term ==
    /\ Does("kill_python")
    /\ Ended({p \in {pid_file} : \E t \in live : t[1] = p /\ traced[t] = 0})
    /\ UNCHANGED <<files, born, monitors, sudos, target, names, user, used>>

(* kill_all, the program. *)
kill_python ==
    /\ Does("kill_python")
    /\ Ended({pid_file})
    /\ UNCHANGED <<files, born, monitors, sudos, target, names, user, used>>

(* The two looks of the loop. *)
check(command, gone) ==
    /\ script # <<>>
    /\ Head(script) = command
    /\ script' = (IF gone /\ RecoveriesLeft THEN Recovery ELSE <<>>) \o Tail(script)
    /\ UNCHANGED <<files, live, born, tracing, user, used>>

check_python      == check("check_python", ~ LiveRun(pid_file))

(* kill -0 on the pid of sudo, which only root may signal: for anybody     *)
(* else a running monitor is gone, too.                                    *)
check_interceptor ==
    check("check_interceptor", int_pid_file # 0 /\ (int_pid_file \notin sudos \/ ~ as_root))

NextRound ==
    /\ script = <<>>
    /\ script' = <<"check_python", "check_interceptor">>
    /\ UNCHANGED <<files, live, born, tracing, user, used>>

Script ==
    \/ start_python \/ checkpoint_python \/ start_interceptor
    \/ kill_interceptor \/ kill_python \/ restore_python
    \/ check_python \/ check_interceptor
    \/ NextRound

-----------------------------------------------------------------------------
(* What happens to the script, the programs and the monitors.              *)

Use(bound, max) == /\ used[bound] < max
                   /\ used' = [used EXCEPT ![bound] = @ + 1]

(* SIGTERM: cleanup_and_restart runs before the next command. *)
Trap ==
    /\ RecoveriesLeft
    /\ Use("traps", MaxTraps)
    /\ script' = Recovery \o script
    /\ interrupted' = (interrupted \/ \E n \in 1..Len(script) : script[n] = "start_interceptor")
    /\ UNCHANGED <<files, live, born, tracing, as_root>>

ProgramCrashes(p) ==
    /\ LiveRun(p)
    /\ Use("faults", MaxFaults)
    /\ Ended({p})
    /\ UNCHANGED <<script, files, born, monitors, sudos, target, names, user>>

(* With the monitor its sudo returns. *)
MonitorCrashes(i) ==
    /\ i \in monitors
    /\ Use("faults", MaxFaults)
    /\ MonitorEnds(i)
    /\ sudos' = sudos \ {i}
    /\ UNCHANGED <<script, files, born, user>>

(* SIGTERM or SIGCONT to a program: app.py exits.  A traced thread that    *)
(* takes the signal is resumed without it (resume_tid), so only an         *)
(* untraced thread lets it through.                                        *)
SignalTaken(t) ==
    /\ t \in live
    /\ traced[t] = 0
    /\ Use("faults", MaxFaults)
    /\ Ended({t[1]})
    /\ UNCHANGED <<script, files, born, monitors, sudos, target, names, user>>

(* A slip: PTRACE_O_TRACECLONE attaches new threads, too. *)
SpawnTraced(p) ==
    LET t == <<p, "worker">>
    IN  /\ LiveRun(p)
        /\ t \notin live
        /\ Use("churn", MaxChurn)
        /\ live' = live \cup {t}
        /\ born' = [born EXCEPT ![t] = @ + 1]
        /\ traced' = [traced EXCEPT ![t] = traced[<<p, "main">>]]
        /\ UNCHANGED <<script, files, monitors, sudos, target, names, user>>

(* A program starts a thread; it may get the id of one that has ended.  It *)
(* is not traced.                                                          *)
Spawn(p) ==
    LET t == <<p, "worker">>
    IN  /\ LiveRun(p)
        /\ t \notin live
        /\ Use("churn", MaxChurn)
        /\ live' = live \cup {t}
        /\ born' = [born EXCEPT ![t] = @ + 1]
        /\ UNCHANGED <<script, files, tracing, user>>

WorkerEnds(p) ==
    LET t == <<p, "worker">>
    IN  /\ t \in live
        /\ Use("churn", MaxChurn)
        /\ live' = live \ {t}
        /\ traced' = [traced EXCEPT ![t] = 0]
        /\ UNCHANGED <<script, files, born, monitors, sudos, target, names, user>>

(* get_thread_name: a thread is named when its first futex call is         *)
(* handled, and its id keeps that name.  The id of a main thread is not    *)
(* given out again while its program lives, so only workers are followed.  *)
HandleCall(i) ==
    LET t == <<target[i], "worker">>
    IN  /\ t \in TracedBy(i)
        /\ names[i] = 0
        /\ names' = [names EXCEPT ![i] = born[t]]
        /\ UNCHANGED <<script, files, live, born, traced, monitors, sudos, target, user,
                       used>>

(* reattach_and_resume_tracing in the resolution of a deadlock found at a  *)
(* stop: the victim's id may have been given to a new thread.              *)
Reattach(i) ==
    LET t == <<target[i], "worker">>
    IN  /\ TracedBy(i) # {}
        /\ names[i] # 0
        /\ t \in live
        /\ traced[t] = 0
        /\ Use("victims", MaxVictims)
        /\ traced' = [traced EXCEPT ![t] = i]
        /\ UNCHANGED <<script, files, live, born, monitors, sudos, target, names, user>>

Environment ==
    \/ Trap
    \/ \E p \in Runs : ProgramCrashes(p) \/ Spawn(p) \/ WorkerEnds(p)
    \/ \E t \in All : SignalTaken(t)
    \/ \E i \in Runs : MonitorCrashes(i) \/ HandleCall(i) \/ Reattach(i)

-----------------------------------------------------------------------------

DeploymentInit ==
    /\ script = <<"start_python", "checkpoint_python", "start_interceptor">>
    /\ pid_file = 0 /\ int_pid_file = 0
    /\ image = {}
    /\ live = {}
    /\ born = [t \in All |-> 0]
    /\ traced = [t \in All |-> 0]
    /\ monitors = {} /\ sudos = {}
    /\ target = [i \in Runs |-> 0]
    /\ names = [i \in Runs |-> 0]
    /\ as_root \in BOOLEAN
    /\ interrupted = FALSE
    /\ used = [programs |-> 0, monitors |-> 0, faults |-> 0, traps |-> 0, churn |-> 0,
               victims |-> 0]

DeploymentNext == Script \/ Environment

(* The script is scheduled and its commands return.  Nothing has to crash, *)
(* start or resolve.                                                       *)
DeploymentSpec == DeploymentInit /\ [][DeploymentNext]_depvars /\ WF_depvars(Script)

-----------------------------------------------------------------------------
(* Properties.                                                             *)

(* A traced thread exists, its monitor runs and was started for its        *)
(* program; a monitor has named threads of its program only.               *)
SupervisorTypeOK ==
    /\ \A t \in All : traced[t] # 0 => /\ t \in live
                                       /\ traced[t] \in monitors
                                       /\ target[traced[t]] = t[1]
    /\ sudos \subseteq monitors
    /\ \A i \in Runs : names[i] # 0 => names[i] <= born[<<target[i], "worker">>]

(* Threads traced by a monitor that knows their id by an earlier thread.   *)
Misnamed == {t \in live : /\ t[2] = "worker"
                          /\ traced[t] # 0
                          /\ names[traced[t]] \notin {0, born[t]}}

(* The cache of names never forgets, yet a monitor takes one thread for    *)
(* another only by its own resolutions: a thread that got a used id is not *)
(* traced (there is no PTRACE_O_TRACECLONE) until it is attached as the    *)
(* victim of a deadlock of its predecessor, or by a new monitor.           *)
MisnamedByResolution ==
    [][~ (Misnamed' \subseteq Misnamed) => used'.victims > used.victims]_depvars

(* The restored program and the started one are two: a recovery leaves one *)
(* program behind that nobody watches.  It is never more than one, though  *)
(* every recovery restores, as the threads come back under their old ids.  *)
OneLeftBehind ==
    ~ interrupted => Cardinality(Programs \ {pid_file}) <= 1

(* Whenever the script looks, a watched program is the one it looks at: a  *)
(* monitor that outlived its sudo (kill_all kills the sudo) lost its       *)
(* program to kill_all, and never watches another.                         *)
WatchedIsFiled ==
    ~ interrupted /\ script = <<>> =>
        \A t \in live : traced[t] # 0 => t[1] = pid_file /\ traced[t] = int_pid_file

(* When faults and signals have ended, a program runs, the script knows    *)
(* it, and a monitor watches it, whatever the recoveries went through, if  *)
(* root runs the script.                                                   *)
Recovers == as_root => <>[](LiveRun(pid_file) /\ traced[<<pid_file, "main">>] # 0)

=============================================================================
