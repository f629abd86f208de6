------------------------------ MODULE Unlocker ------------------------------
(***************************************************************************)
(* FutexUnlocker of include/futex_unlocker.h: unlock_multiple tries three  *)
(* ways to write 0 into each futex word of a list, and checks each time by *)
(* reading the word back, while the threads of the target go on locking    *)
(* and unlocking.  Any system call it makes may fail: the target may be    *)
(* gone, forbid access or be traced by another process.                    *)
(*                                                                         *)
(* Words are numbered as they lie in memory, four bytes apart; of a value  *)
(* only its low byte is kept, 0 if the word is unlocked.  wake_futex does  *)
(* nothing here: its FUTEX_WAKE names an address of the calling process,   *)
(* and wakes no thread of the target.                                      *)
(***************************************************************************)
EXTENDS Naturals, Sequences

CONSTANTS
    Words,        \* the last word
    LockAddrs,    \* the argument lock_addrs
    MaxAttempts   \* the argument max_attempts

ASSUME UnlockerAssumption ==
    /\ Words \in Nat \ {0}
    /\ LockAddrs \in Seq(1..Words)
    /\ MaxAttempts \in Nat \ {0}

VARIABLES
    word,               \* the target's memory
    upc,                \* where the unlocker stands
    index,              \* the lock it is at
    attempt, method,    \* the attempt and the way it tries
    tries,              \* failed PTRACE_ATTACHs of this attempt
    ptrace_attached,
    total_attempts, successful_unlocks,
    success_count

counters == <<total_attempts, successful_unlocks, success_count>>
control  == <<upc, index, attempt, method, tries, ptrace_attached>>
unlockvars == <<word, control, counters>>

lock_addr == LockAddrs[index]

-----------------------------------------------------------------------------
(* is_unlocked, when the memory can be read or not. *)
is_unlocked(readable) == readable /\ word[lock_addr] = 0

(* unlock returns to unlock_multiple. *)
Return(success) ==
    /\ upc' = "next"
    /\ index' = index + 1
    /\ IF success
       THEN /\ successful_unlocks' = successful_unlocks + 1
            /\ success_count' = success_count + 1
       ELSE UNCHANGED <<successful_unlocks, success_count>>
    /\ UNCHANGED <<attempt, method, tries, ptrace_attached, total_attempts>>

(* Slips: one attempt too many, or attempts that are not counted. *)
TryNextOnceMore ==
    IF method = "ptrace" /\ attempt = MaxAttempts
    THEN Return(FALSE)
    ELSE /\ upc' = "write"
         /\ method' = IF method = "process_vm" THEN "proc_mem"
                      ELSE IF method = "proc_mem" THEN "ptrace" ELSE "process_vm"
         /\ attempt' = IF method = "ptrace" THEN attempt + 1 ELSE attempt
         /\ tries' = 0
         /\ UNCHANGED <<index, ptrace_attached, counters>>
TryNextForever ==
    /\ upc' = "write"
    /\ method' = IF method = "process_vm" THEN "proc_mem"
                 ELSE IF method = "proc_mem" THEN "ptrace" ELSE "process_vm"
    /\ tries' = 0
    /\ UNCHANGED <<attempt, index, ptrace_attached, counters>>

(* The method failed, or its result did not last: the next method, after   *)
(* the last one the next attempt, after the last attempt unlock fails.     *)
TryNext ==
    IF method = "ptrace" /\ attempt = MaxAttempts - 1
    THEN Return(FALSE)
    ELSE /\ upc' = "write"
         /\ method' = IF method = "process_vm" THEN "proc_mem"
                      ELSE IF method = "proc_mem" THEN "ptrace" ELSE "process_vm"
         /\ attempt' = IF method = "ptrace" THEN attempt + 1 ELSE attempt
         /\ tries' = 0
         /\ UNCHANGED <<index, ptrace_attached, counters>>

(* unlock is called for the next lock of the list. *)
Unlock ==
    /\ upc = "next"
    /\ index <= Len(LockAddrs)
    /\ total_attempts' = total_attempts + 1
    /\ upc' = "first"
    /\ UNCHANGED <<word, index, attempt, method, tries, ptrace_attached, successful_unlocks,
                   success_count>>

(* The first check: the lock may be free already. *)
FirstCheck ==
    /\ upc = "first"
    /\ \E readable \in BOOLEAN :
         IF is_unlocked(readable) THEN Return(TRUE)
         ELSE /\ upc' = "write" /\ method' = "process_vm"
              /\ attempt' = 0 /\ tries' = 0
              /\ UNCHANGED <<index, ptrace_attached, counters>>
    /\ UNCHANGED word

(* A slip: the write is as long as a machine word. *)
WriteLong ==
    /\ upc = "write"
    /\ method \in {"process_vm", "proc_mem"}
    /\ \/ /\ word' = [w \in 1..Words |-> IF w \in {lock_addr, lock_addr + 1} THEN 0 ELSE word[w]]
          /\ upc' = "check"
          /\ UNCHANGED <<index, attempt, method, tries, ptrace_attached, counters>>
       \/ TryNext /\ UNCHANGED word

(* unlock_with_process_vm and unlock_with_proc_mem write the word, or fail. *)
WriteWord ==
    /\ upc = "write"
    /\ method \in {"process_vm", "proc_mem"}
    /\ \/ /\ word' = [word EXCEPT ![lock_addr] = 0]
          /\ upc' = "check"
          /\ UNCHANGED <<index, attempt, method, tries, ptrace_attached, counters>>
       \/ TryNext /\ UNCHANGED word

(* unlock_with_ptrace attaches first; after three failures it gives up.    *)
Attach ==
    /\ upc = "write"
    /\ method = "ptrace"
    /\ ~ ptrace_attached
    /\ \/ /\ ptrace_attached' = TRUE
          /\ UNCHANGED <<upc, index, attempt, method, tries, counters>>
       \/ IF tries < 2
          THEN /\ tries' = tries + 1
               /\ UNCHANGED <<upc, index, attempt, method, ptrace_attached, counters>>
          ELSE TryNext
    /\ UNCHANGED word

(* POKEDATA at the word clears eight bytes.  If it fails, it is tried four *)
(* more times, each a byte further, up to the first failure: n of them     *)
(* succeed, from the second on the third word loses its low byte.          *)
Cleared(n) ==
    [w \in 1..Words |->
        IF (n >= 1 /\ w \in {lock_addr, lock_addr + 1}) \/ (n >= 2 /\ w = lock_addr + 2)
        THEN 0 ELSE word[w]]

Poke ==
    /\ upc = "write"
    /\ method = "ptrace"
    /\ ptrace_attached
    /\ \/ /\ \/ word' = Cleared(1)
             \/ word' = Cleared(4)
          /\ upc' = "check"
          /\ UNCHANGED <<index, attempt, method, tries, ptrace_attached, counters>>
       \/ /\ \E n \in 0..3 : word' = Cleared(n)
          /\ TryNext

(* After a method that succeeded the word is read back. *)
Check ==
    /\ upc = "check"
    /\ \E readable \in BOOLEAN : IF is_unlocked(readable) THEN Return(TRUE) ELSE TryNext
    /\ UNCHANGED word

(* The list is done and the object destroyed. *)
Finish ==
    /\ upc = "next"
    /\ index > Len(LockAddrs)
    /\ upc' = "done"
    /\ ptrace_attached' = FALSE
    /\ UNCHANGED <<word, index, attempt, method, tries, counters>>

UnlockerStep ==
    \/ Unlock \/ FirstCheck \/ WriteWord \/ Attach \/ Poke \/ Check \/ Finish

(* A thread of the target locks a free word or unlocks a locked one. *)
TargetStep ==
    /\ upc \notin {"next", "done"}
    /\ \E w \in 1..Words : word' = [word EXCEPT ![w] = 1 - @]
    /\ UNCHANGED <<control, counters>>

UnlockerInit ==
    /\ word \in [1..Words -> {0, 1}]
    /\ upc = "next"
    /\ index = 1
    /\ attempt = 0 /\ method = "process_vm" /\ tries = 0
    /\ ptrace_attached = FALSE
    /\ total_attempts = 0 /\ successful_unlocks = 0 /\ success_count = 0

UnlockerSpec ==
    /\ UnlockerInit
    /\ [][UnlockerStep \/ TargetStep]_unlockvars
    /\ WF_unlockvars(UnlockerStep)

-----------------------------------------------------------------------------
(* Properties.                                                             *)

(* The loops stay within their bounds and the statistics agree with the    *)
(* result of unlock_multiple.                                              *)
UnlockerTypeOK ==
    /\ word \in [1..Words -> {0, 1}]
    /\ index \in 1..(Len(LockAddrs) + 1)
    /\ attempt \in 0..(MaxAttempts - 1) /\ tries \in 0..2
    /\ success_count = successful_unlocks /\ success_count < index
    /\ total_attempts = IF upc \in {"next", "done"} THEN index - 1 ELSE index

(* Only the ptrace method touches memory besides the futex word, and at    *)
(* most the two words behind it (PTRACE_POKEDATA writes a long).           *)
OnlyPtraceOverreaches ==
    [][UnlockerStep =>
         \A w \in 1..Words : word'[w] # word[w] =>
            \/ w = lock_addr
            \/ method = "ptrace" /\ w \in {lock_addr + 1, lock_addr + 2}]_unlockvars

(* The retries end, even if the target's threads lock each word again and  *)
(* again.                                                                  *)
UnlockerEnds == <>(upc = "done")

=============================================================================
