---------------------------- MODULE MCAnyProgram ----------------------------
(* AnyProgram on small instances.                                          *)
EXTENDS AnyProgram

CONSTANTS t1, t2, t3, a1, a2, a3, s

MCLockOf3 == (t1 :> a1) @@ (t2 :> a2) @@ (t3 :> a3)

(* Threads are interchangeable together with the locks they released, if   *)
(* their names are alike.                                                  *)
Symmetry ==
    {[x \in Threads \cup {LockOf[t] : t \in Threads} |->
        IF x \in Threads THEN p[x] ELSE LockOf[p[CHOOSE t \in Threads : LockOf[t] = x]]] :
     p \in {q \in Permutations(Threads) : \A t \in BadNames : q[t] \in BadNames}}

=============================================================================
