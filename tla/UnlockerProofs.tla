--------------------------- MODULE UnlockerProofs ---------------------------
(* Proofs about FutexUnlocker, for every memory, list of locks and number  *)
(* of attempts.                                                            *)
EXTENDS Unlocker, SequenceTheorems, TLAPS

(* The inductive invariant: the loops stay within their bounds, unlock is  *)
(* at a lock of the list, and the counters follow index and upc.           *)
UnlockerInv ==
    /\ word \in [1..Words -> {0, 1}]
    /\ upc \in {"next", "first", "write", "check", "done"}
    /\ index \in 1..(Len(LockAddrs) + 1)
    /\ upc \notin {"next", "done"} => index <= Len(LockAddrs)
    /\ method \in {"process_vm", "proc_mem", "ptrace"}
    /\ attempt \in 0..(MaxAttempts - 1) /\ tries \in 0..2
    /\ success_count \in Nat /\ success_count = successful_unlocks /\ success_count < index
    /\ total_attempts = IF upc \in {"next", "done"} THEN index - 1 ELSE index

LEMMA ConstantTypes ==
    /\ Words \in Nat \ {0} /\ MaxAttempts \in Nat \ {0} /\ Len(LockAddrs) \in Nat
    /\ \A i \in 1..Len(LockAddrs) : LockAddrs[i] \in 1..Words
  BY UnlockerAssumption, LenProperties, ElementOfSeq

LEMMA UnlockerInitInv == UnlockerInit => UnlockerInv
  BY ConstantTypes DEF UnlockerInit, UnlockerInv

(* unlock returns, or the next method or attempt begins. *)
LEMMA ReturnKeeps ==
    ASSUME UnlockerInv, upc \notin {"next", "done"}, NEW success \in BOOLEAN, Return(success),
           word' \in [1..Words -> {0, 1}]
    PROVE  UnlockerInv'
  BY ConstantTypes DEF UnlockerInv, Return

LEMMA TryNextKeeps ==
    ASSUME UnlockerInv, upc \notin {"next", "done"}, TryNext, word' \in [1..Words -> {0, 1}]
    PROVE  UnlockerInv'
<1>1. CASE method = "ptrace" /\ attempt = MaxAttempts - 1
  BY <1>1, ReturnKeeps DEF TryNext
<1>2. CASE ~ (method = "ptrace" /\ attempt = MaxAttempts - 1)
  <2>1. /\ upc' = "write" /\ tries' = 0
        /\ method' \in {"process_vm", "proc_mem", "ptrace"}
        /\ attempt' = (IF method = "ptrace" THEN attempt + 1 ELSE attempt)
        /\ UNCHANGED <<index, total_attempts, successful_unlocks, success_count>>
    BY <1>2 DEF TryNext, counters
  <2>2. attempt' \in 0..(MaxAttempts - 1)
    BY <1>2, <2>1, ConstantTypes DEF UnlockerInv
  <2> QED
    BY <2>1, <2>2 DEF UnlockerInv
<1> QED
  BY <1>1, <1>2

(* A step inside unlock that neither returns nor goes on to a next try. *)
LEMMA InsideKeeps ==
    ASSUME UnlockerInv, upc \notin {"next", "done"}, upc' \in {"write", "check"},
           tries' \in 0..2, UNCHANGED <<index, attempt, method, counters>>,
           word' \in [1..Words -> {0, 1}]
    PROVE  UnlockerInv'
  BY DEF UnlockerInv, counters

LEMMA ClearedTypes ==
    ASSUME UnlockerInv, NEW n \in 0..4
    PROVE  Cleared(n) \in [1..Words -> {0, 1}]
  BY DEF Cleared, UnlockerInv

LEMMA PokeClears ==
    ASSUME Poke
    PROVE  \E n \in 0..4 : word' = Cleared(n)
<1>1. \/ word' = Cleared(1)
      \/ word' = Cleared(4)
      \/ \E n \in 0..3 : word' = Cleared(n)
  BY DEF Poke
<1>2. 1 \in 0..4 /\ 4 \in 0..4 /\ \A n \in 0..3 : n \in 0..4
  OBVIOUS
<1> QED
  BY <1>1, <1>2

LEMMA UnlockerStepInv ==
    ASSUME UnlockerInv, UnlockerStep
    PROVE  UnlockerInv'
<1>0. word \in [1..Words -> {0, 1}]
  BY DEF UnlockerInv
<1>1. CASE Unlock
  BY <1>1, ConstantTypes DEF Unlock, UnlockerInv
<1>2. CASE FirstCheck
  <2>1. word' \in [1..Words -> {0, 1}] /\ upc \notin {"next", "done"}
    BY <1>0, <1>2 DEF FirstCheck
  <2>2. CASE Return(TRUE)
    BY <2>1, <2>2, ReturnKeeps
  <2>3. CASE /\ upc' = "write" /\ method' = "process_vm" /\ attempt' = 0 /\ tries' = 0
             /\ UNCHANGED <<index, ptrace_attached, counters>>
    BY <2>1, <2>3, ConstantTypes DEF UnlockerInv, counters
  <2> QED
    BY <1>2, <2>2, <2>3 DEF FirstCheck
<1>3. CASE WriteWord
  <2>1. word' \in [1..Words -> {0, 1}] /\ upc \notin {"next", "done"}
    BY <1>0, <1>3 DEF WriteWord
  <2>2. \/ TryNext
        \/ upc' = "check" /\ UNCHANGED <<index, attempt, method, tries, counters>>
    BY <1>3 DEF WriteWord
  <2> QED
    BY <2>1, <2>2, TryNextKeeps, InsideKeeps DEF UnlockerInv
<1>4. CASE Attach
  <2>1. word' \in [1..Words -> {0, 1}] /\ upc = "write"
    BY <1>0, <1>4 DEF Attach
  <2>2. \/ TryNext
        \/ upc' = upc /\ tries' \in 0..2 /\ UNCHANGED <<index, attempt, method, counters>>
    BY <1>4 DEF Attach, UnlockerInv
  <2> QED
    BY <2>1, <2>2, TryNextKeeps, InsideKeeps
<1>5. CASE Poke
  <2>1. \E n \in 0..4 : word' = Cleared(n)
    BY <1>5, PokeClears
  <2>2. word' \in [1..Words -> {0, 1}] /\ upc \notin {"next", "done"}
    BY <1>5, <2>1, ClearedTypes DEF Poke
  <2>3. \/ TryNext
        \/ upc' = "check" /\ UNCHANGED <<index, attempt, method, tries, counters>>
    BY <1>5 DEF Poke
  <2> QED
    BY <2>2, <2>3, TryNextKeeps, InsideKeeps DEF UnlockerInv
<1>6. CASE Check
  <2>1. word' \in [1..Words -> {0, 1}] /\ upc \notin {"next", "done"}
    BY <1>0, <1>6 DEF Check
  <2> QED
    BY <1>6, <2>1, ReturnKeeps, TryNextKeeps DEF Check
<1>7. CASE Finish
  BY <1>7 DEF Finish, UnlockerInv, counters
<1> QED
  BY <1>1, <1>2, <1>3, <1>4, <1>5, <1>6, <1>7 DEF UnlockerStep

LEMMA UnlockerNextInv ==
    UnlockerInv /\ [UnlockerStep \/ TargetStep]_unlockvars => UnlockerInv'
<1> SUFFICES ASSUME UnlockerInv, [UnlockerStep \/ TargetStep]_unlockvars
             PROVE  UnlockerInv'
  OBVIOUS
<1>1. CASE TargetStep
  BY <1>1 DEF TargetStep, control, counters, UnlockerInv
<1>2. CASE UNCHANGED unlockvars
  BY <1>2 DEF unlockvars, control, counters, UnlockerInv
<1> QED
  BY <1>1, <1>2, UnlockerStepInv

LEMMA UnlockerInvariant == UnlockerSpec => []UnlockerInv
  BY UnlockerInitInv, UnlockerNextInv, PTL DEF UnlockerSpec

(* unlock_multiple walks its list once, unlock makes at most max_attempts  *)
(* attempts of three methods and three PTRACE_ATTACHs each, and the        *)
(* statistics agree with the number unlock_multiple returns.               *)
THEOREM UnlockerTypeCorrect == UnlockerSpec => []UnlockerTypeOK
<1>1. UnlockerInv => UnlockerTypeOK
  BY DEF UnlockerInv, UnlockerTypeOK
<1> QED
  BY <1>1, UnlockerInvariant, PTL

(* unlock_with_process_vm and unlock_with_proc_mem write the futex word    *)
(* and nothing else; what PTRACE_POKEDATA writes besides lies within the   *)
(* two words behind it.                                                    *)
THEOREM PtraceOverreaches == UnlockerSpec => OnlyPtraceOverreaches
<1>1. UnlockerInv /\ [UnlockerStep \/ TargetStep]_unlockvars =>
        [UnlockerStep => \A w \in 1..Words : word'[w] # word[w] =>
            \/ w = lock_addr
            \/ method = "ptrace" /\ w \in {lock_addr + 1, lock_addr + 2}]_unlockvars
  <2> SUFFICES ASSUME UnlockerInv, UnlockerStep, NEW w \in 1..Words, word'[w] # word[w],
                      w # lock_addr
               PROVE  method = "ptrace" /\ w \in {lock_addr + 1, lock_addr + 2}
    BY DEF unlockvars
  <2>0. word \in [1..Words -> {0, 1}]
    BY DEF UnlockerInv
  <2>1. ~ Unlock /\ ~ FirstCheck /\ ~ Attach /\ ~ Check /\ ~ Finish
    BY DEF Unlock, FirstCheck, Attach, Check, Finish
  <2>2. ~ WriteWord
    BY <2>0 DEF WriteWord
  <2>3. Poke
    BY <2>1, <2>2 DEF UnlockerStep
  <2>4. method = "ptrace" /\ \E n \in 0..4 : word' = Cleared(n)
    BY <2>3, PokeClears DEF Poke
  <2> QED
    BY <2>4 DEF Cleared
<1> QED
  BY <1>1, UnlockerInvariant, PTL DEF UnlockerSpec, OnlyPtraceOverreaches

=============================================================================
