------------------------ MODULE ConflictGroupsProofs ------------------------
(* Lemmas about the conflict groups, for every order in which the hash map *)
(* of thread_locks may be walked.  The groups are a fold over that order,  *)
(* so these are proofs by induction, by way of the least counterexample.   *)
EXTENDS ConflictGroups, SequenceTheorems, FiniteSetTheorems, WellFoundedInduction, TLAPS

(* A non-empty set of numbers has a least one. *)
LEMMA LeastOf ==
    ASSUME NEW T \in SUBSET Nat, T # {}
    PROVE  \E x \in T : \A y \in T : x <= y
<1>1. PICK R : R = {e \in Nat \X Nat : e[1] < e[2]}
  OBVIOUS
<1>2. IsWellFoundedOn(R, Nat)
  BY <1>1, NatLessThanWellFounded DEF OpToRel
<1>3. PICK x \in T : \A y \in T : ~ <<y, x>> \in R
  BY <1>2, WFMin
<1>4. \A y \in T : ~ y < x
  BY <1>1, <1>3
<1> QED
  BY <1>3, <1>4

NoGroups == [t \in Threads |-> NoThread]

(* One step of the fold: the last thread of the part of order in s comes   *)
(* after the others.                                                       *)
Grouped(order, g, s) ==
    IF s = {} THEN NoGroups ELSE get_or_create_group(g[s \ {Max(s)}], order[Max(s)])

LEMMA LastIn ==
    ASSUME NEW n \in Nat, NEW s \in SUBSET (1..(n + 1)), n + 1 \in s
    PROVE  Max(s) = n + 1
<1>1. \A y \in s : n + 1 >= y
  OBVIOUS
<1>2. \A x \in s : (\A y \in s : x >= y) => x = n + 1
  OBVIOUS
<1> QED
  BY <1>1, <1>2 DEF Max

(* The fold is well defined. *)
LEMMA FoldExists ==
    ASSUME NEW order, NEW n \in Nat
    PROVE  \E g : g = [s \in SUBSET (1..n) |-> Grouped(order, g, s)]
<1> DEFINE Fold(k) == \E g : g = [s \in SUBSET (1..k) |-> Grouped(order, g, s)]
           Bad == {k \in Nat : ~ Fold(k)}
<1>1. Fold(0)
  <2> DEFINE g == [s \in SUBSET (1..0) |-> NoGroups]
  <2>1. 1..0 = {}
    OBVIOUS
  <2>2. \A s \in SUBSET (1..0) : Grouped(order, g, s) = NoGroups
    BY <2>1 DEF Grouped
  <2>3. g = [s \in SUBSET (1..0) |-> Grouped(order, g, s)]
    <3> HIDE DEF g
    <3>1. g = [s \in SUBSET (1..0) |-> NoGroups]
      BY DEF g
    <3> QED
      BY <2>2, <3>1
  <2> QED
    BY <2>3
<1>2. ASSUME NEW k \in Nat, Fold(k)
      PROVE  Fold(k + 1)
  <2>1. PICK g : g = [s \in SUBSET (1..k) |-> Grouped(order, g, s)]
    BY <1>2
  <2> DEFINE h == [s \in SUBSET (1..(k + 1)) |->
                      IF k + 1 \in s THEN get_or_create_group(g[s \ {k + 1}], order[k + 1])
                      ELSE g[s]]
  <2>2. ASSUME NEW s \in SUBSET (1..(k + 1))
        PROVE  h[s] = Grouped(order, h, s)
    <3>1. CASE k + 1 \in s
      <4>1. Max(s) = k + 1 /\ s # {}
        BY <3>1, LastIn
      <4>2. s \ {k + 1} \in SUBSET (1..(k + 1)) /\ k + 1 \notin s \ {k + 1}
        OBVIOUS
      <4>3. h[s \ {k + 1}] = g[s \ {k + 1}]
        BY <4>2
      <4>4. h[s] = get_or_create_group(g[s \ {k + 1}], order[k + 1])
        BY <3>1
      <4> HIDE DEF h
      <4> QED
        BY <4>1, <4>3, <4>4 DEF Grouped
    <3>2. CASE k + 1 \notin s
      <4>1. s \in SUBSET (1..k)
        BY <3>2
      <4>2. s \ {Max(s)} \in SUBSET (1..(k + 1)) /\ k + 1 \notin s \ {Max(s)}
        BY <3>2
      <4>3. h[s] = g[s] /\ h[s \ {Max(s)}] = g[s \ {Max(s)}]
        BY <3>2, <4>2
      <4>4. g[s] = Grouped(order, g, s)
        BY <2>1, <4>1
      <4> HIDE DEF h
      <4> QED
        BY <4>3, <4>4 DEF Grouped
    <3> QED
      BY <3>1, <3>2
  <2>3. h = [s \in SUBSET (1..(k + 1)) |-> Grouped(order, h, s)]
    <3>1. h = [s \in SUBSET (1..(k + 1)) |-> h[s]]
      OBVIOUS
    <3> HIDE DEF h
    <3> QED
      BY <2>2, <3>1
  <2> QED
    BY <2>3
<1>3. Bad = {}
  <2> HIDE DEF Fold
  <2> SUFFICES ASSUME Bad # {} PROVE FALSE
    OBVIOUS
  <2>1. PICK k \in Bad : \A j \in Bad : k <= j
    BY LeastOf
  <2>2. k \in Nat /\ ~ Fold(k) /\ k # 0
    BY <1>1, <2>1
  <2>3. k - 1 \in Nat /\ k - 1 \notin Bad /\ (k - 1) + 1 = k
    BY <2>1, <2>2
  <2>4. Fold(k - 1)
    BY <2>3
  <2>5. Fold((k - 1) + 1)
    BY <1>2, <2>3, <2>4
  <2> QED
    BY <2>2, <2>3, <2>5
<1> HIDE DEF Fold
<1>4. Fold(n)
  BY <1>3
<1> QED
  BY <1>4 DEF Fold

(* The groups after each thread of the order, as the loop of phase 1       *)
(* leaves them.                                                            *)
LEMMA FoldSteps ==
    ASSUME NEW order \in Seq(Threads)
    PROVE  \E f : /\ f[0] = NoGroups
                  /\ \A k \in 1..Len(order) : f[k] = get_or_create_group(f[k - 1], order[k])
                  /\ FoldLeft(get_or_create_group, NoGroups, order) = f[Len(order)]
<1>1. Len(order) \in Nat /\ DOMAIN order = 1..Len(order)
  BY LenProperties
<1> DEFINE n == Len(order)
<1>2. PICK it : it = CHOOSE g : g = [s \in SUBSET (1..n) |-> Grouped(order, g, s)]
  OBVIOUS
<1>3. FoldLeft(get_or_create_group, NoGroups, order) = it[1..n]
  BY <1>1, <1>2 DEF FoldLeft, MapThenFoldSet, Grouped
<1>4. it = [s \in SUBSET (1..n) |-> Grouped(order, it, s)]
  BY <1>1, <1>2, FoldExists
<1> DEFINE f == [k \in 0..n |-> it[1..k]]
<1>5. f[0] = NoGroups
  <2>1. 1..0 = {} /\ {} \in SUBSET (1..n) /\ 0 \in 0..n
    BY <1>1
  <2> HIDE DEF n
  <2>2. it[{}] = NoGroups
    BY <1>4, <2>1 DEF Grouped
  <2> QED
    BY <2>1, <2>2
<1>6. ASSUME NEW k \in 1..n
      PROVE  f[k] = get_or_create_group(f[k - 1], order[k])
  <2>0. k \in Nat /\ k >= 1 /\ k <= n /\ n \in Nat
    BY <1>1
  <2> HIDE DEF n
  <2>1. 1..k \in SUBSET (1..n) /\ 1..k # {} /\ (1..k) \ {k} = 1..(k - 1)
    <3>1. \A x \in 1..k : x \in 1..n
      BY <2>0
    <3>2. k \in 1..k
      BY <2>0
    <3>3. \A x : x \in (1..k) \ {k} <=> x \in 1..(k - 1)
      BY <2>0
    <3> QED
      BY <3>1, <3>2, <3>3
  <2>2. Max(1..k) = k
    <3>1. k - 1 \in Nat /\ (k - 1) + 1 = k /\ k \in 1..k
      BY <2>0
    <3> QED
      BY <3>1, LastIn
  <2>3. it[1..k] = get_or_create_group(it[1..(k - 1)], order[k])
    BY <1>4, <2>1, <2>2 DEF Grouped
  <2>4. k \in 0..n /\ k - 1 \in 0..n
    BY <2>0
  <2> QED
    BY <2>3, <2>4
<1>7. n \in 0..n
  BY <1>1
<1>8. f[n] = it[1..n]
  BY <1>7
<1> HIDE DEF f
<1> QED
  BY <1>3, <1>5, <1>6, <1>8

(* Every thread is in the group of a thread that opened one, with which it *)
(* shares a lock, or in none; and what shares a lock with an opener is in  *)
(* some group.                                                             *)
Stars(groups) ==
    /\ groups \in [Threads -> Owners]
    /\ \A t \in Threads : groups[t] # NoThread => /\ t \in Holders
                                                  /\ groups[groups[t]] = groups[t]
                                                  /\ groups[t] # t => SharesLock(groups[t], t)
    /\ \A t, u \in Threads : groups[t] = t /\ SharesLock(t, u) => groups[u] # NoThread
    /\ \A t, u \in Threads : groups[t] = t /\ groups[u] = u /\ t # u => ~ SharesLock(t, u)

LEMMA StarsAre ==
    ASSUME NEW groups, Stars(groups), NEW t \in Threads, groups[t] # NoThread
    PROVE  /\ t \in Holders /\ groups[groups[t]] = groups[t]
           /\ groups[t] # t => SharesLock(groups[t], t)
<1>1. \A u \in Threads : groups[u] # NoThread => /\ u \in Holders
                                                 /\ groups[groups[u]] = groups[u]
                                                 /\ groups[u] # u => SharesLock(groups[u], u)
  BY Zenon DEF Stars
<1> QED
  BY <1>1

LEMMA SharingIsMutual ==
    \A t, u \in Threads : /\ SharesLock(t, u) <=> SharesLock(u, t)
                          /\ SharesLock(t, u) => t \in Holders /\ u \in Holders
BY DEF SharesLock, Holders

LEMMA NoGroupsAreStars == Stars(NoGroups)
<1>1. \A t \in Threads : NoGroups[t] = NoThread /\ t # NoThread
  BY NoThreadAssumption DEF NoGroups
<1>2. NoGroups \in [Threads -> Owners]
  BY DEF NoGroups, Owners
<1> QED
  BY <1>1, <1>2 DEF Stars

(* One turn of the loop of phase 1. *)
LEMMA GroupsStayStars ==
    ASSUME NEW groups, Stars(groups), NEW t \in Holders
    PROVE  LET after == get_or_create_group(groups, t)
           IN  /\ Stars(after)
               /\ after[t] # NoThread
               /\ \A u \in Threads : groups[u] # NoThread => after[u] # NoThread
<1> DEFINE after == get_or_create_group(groups, t)
<1>1. t \in Threads /\ t # NoThread /\ NoThread \notin Threads
  BY NoThreadAssumption DEF Holders
<1>2. CASE groups[t] # NoThread
  BY <1>1, <1>2 DEF get_or_create_group
<1>3. CASE groups[t] = NoThread
  <2>1. after = [u \in Threads |->
                    IF groups[u] = NoThread /\ (u = t \/ SharesLock(t, u)) THEN t ELSE groups[u]]
    BY <1>3 DEF get_or_create_group
  <2> HIDE DEF after
  <2>2. \A u \in Threads : after[u] = IF groups[u] = NoThread /\ (u = t \/ SharesLock(t, u))
                                      THEN t ELSE groups[u]
    BY <2>1
  <2>3. after[t] = t
    BY <1>1, <1>3, <2>2
  <2>4. \A u \in Threads : groups[u] # NoThread => after[u] = groups[u]
    BY <2>2
  <2>5. after \in [Threads -> Owners]
    BY <1>1, <2>1 DEF Stars, Owners
  <2>6. \A u \in Threads : after[u] = u <=> groups[u] = u \/ u = t
    BY <1>1, <1>3, <2>2, <2>3
  <2>7. ASSUME NEW u \in Threads, after[u] # NoThread
        PROVE  /\ u \in Holders /\ after[after[u]] = after[u]
               /\ after[u] # u => SharesLock(after[u], u)
    <3>1. CASE groups[u] = NoThread
      <4>1. after[u] = t /\ (u = t \/ SharesLock(t, u))
        BY <2>2, <2>7, <3>1
      <4> QED
        BY <1>1, <2>3, <4>1, SharingIsMutual
    <3>2. CASE groups[u] # NoThread
      <4>1. after[u] = groups[u] /\ groups[u] \in Threads
        BY <2>4, <3>2 DEF Stars, Owners
      <4>2. /\ u \in Holders /\ groups[groups[u]] = groups[u]
            /\ groups[u] # u => SharesLock(groups[u], u)
        BY <3>2, StarsAre
      <4>3. after[groups[u]] = groups[u]
        BY <2>4, <3>2, <4>1, <4>2
      <4> QED
        BY <4>1, <4>2, <4>3
    <3> QED
      BY <3>1, <3>2
  <2>8. ASSUME NEW u \in Threads, NEW v \in Threads, after[u] = u, SharesLock(u, v)
        PROVE  after[v] # NoThread
    <3>1. CASE u = t
      BY <1>1, <2>2, <2>8, <3>1
    <3>2. CASE groups[u] = u
      BY <2>4, <2>8, <3>2 DEF Stars
    <3> QED
      BY <2>6, <2>8, <3>1, <3>2
  <2>9. \A u \in Threads : groups[u] = u => ~ SharesLock(u, t) /\ ~ SharesLock(t, u)
    BY <1>1, <1>3, SharingIsMutual DEF Stars
  <2>10. ASSUME NEW u \in Threads, NEW v \in Threads, after[u] = u, after[v] = v, u # v
         PROVE  ~ SharesLock(u, v)
    <3>1. CASE groups[u] = u /\ groups[v] = v
      BY <2>10, <3>1 DEF Stars
    <3> QED
      BY <2>6, <2>9, <2>10, <3>1
  <2>11. Stars(after)
    BY <2>5, <2>7, <2>8, <2>10 DEF Stars
  <2>12. after[t] # NoThread /\ \A u \in Threads : groups[u] # NoThread => after[u] # NoThread
    BY <1>1, <2>3, <2>4
  <2> QED
    BY <2>11, <2>12 DEF after
<1> QED
  BY <1>2, <1>3

(* The loop of phase 1 groups every thread that comes in the order. *)
LEMMA FoldIsStars ==
    ASSUME NEW order \in Seq(Holders)
    PROVE  LET groups == FoldLeft(get_or_create_group, NoGroups, order)
           IN  Stars(groups) /\ \A k \in 1..Len(order) : groups[order[k]] # NoThread
<1> DEFINE n == Len(order)
<1>1. n \in Nat /\ \A k \in 1..n : order[k] \in Holders /\ order[k] \in Threads
  BY LenProperties, ElementOfSeq DEF Holders
<1>2. order \in Seq(Threads)
  <2>1. Holders \subseteq Threads
    BY DEF Holders
  <2> QED
    BY <2>1
<1>3. PICK f : /\ f[0] = NoGroups
               /\ \A k \in 1..n : f[k] = get_or_create_group(f[k - 1], order[k])
               /\ FoldLeft(get_or_create_group, NoGroups, order) = f[n]
  BY <1>2, FoldSteps
<1> DEFINE Good(k) == Stars(f[k]) /\ \A i \in 1..k : f[k][order[i]] # NoThread
           Bad == {k \in 0..n : ~ Good(k)}
<1> HIDE DEF n
<1>4. Good(0)
  <2>1. 1..0 = {}
    OBVIOUS
  <2> QED
    BY <1>3, <2>1, NoGroupsAreStars
<1>5. ASSUME NEW k \in 1..n, Good(k - 1)
      PROVE  Good(k)
  <2>1. f[k] = get_or_create_group(f[k - 1], order[k]) /\ order[k] \in Holders
    BY <1>1, <1>3
  <2>2. /\ Stars(f[k]) /\ f[k][order[k]] # NoThread
        /\ \A u \in Threads : f[k - 1][u] # NoThread => f[k][u] # NoThread
    BY <1>5, <2>1, GroupsStayStars
  <2>3. ASSUME NEW i \in 1..k
        PROVE  f[k][order[i]] # NoThread
    <3>1. i = k \/ i \in 1..(k - 1)
      BY <1>1
    <3>2. i \in 1..n
      BY <1>1
    <3> QED
      BY <1>1, <1>5, <2>2, <3>1, <3>2
  <2> QED
    BY <2>2, <2>3
<1>6. Bad = {}
  <2> HIDE DEF Good
  <2> SUFFICES ASSUME Bad # {} PROVE FALSE
    OBVIOUS
  <2>1. Bad \in SUBSET Nat
    BY <1>1
  <2>2. PICK k \in Bad : \A j \in Bad : k <= j
    BY <2>1, LeastOf
  <2>3. k \in 0..n /\ k # 0 /\ ~ Good(k)
    BY <1>4, <2>2
  <2>4. k \in 1..n /\ k - 1 \in 0..n /\ ~ k <= k - 1
    BY <1>1, <2>3
  <2>5. Good(k - 1)
    BY <2>2, <2>4
  <2> QED
    BY <1>5, <2>3, <2>4, <2>5
<1>7. Good(n)
  <2> HIDE DEF Good
  <2>1. n \in 0..n
    BY <1>1
  <2> QED
    BY <1>6, <2>1
<1> QED
  BY <1>3, <1>7 DEF n

(* Every order goes through every thread that holds a lock. *)
LEMMA OrdersAreComplete ==
    ASSUME NEW order \in Orders
    PROVE  order \in Seq(Holders) /\ \A t \in Holders : \E k \in 1..Len(order) : order[k] = t
<1> DEFINE n == Cardinality(Holders)
<1>1. IsFiniteSet(Holders) /\ n \in Nat
  <2>1. Holders \in SUBSET Threads
    BY DEF Holders
  <2> QED
    BY <2>1, ThreadsAssumption, FS_Subset, FS_CardinalityType
<1>2. order \in [1..n -> Holders] /\ \A i, j \in 1..n : i # j => order[i] # order[j]
  BY DEF Orders, SetToSeqs
<1>3. IsFiniteSet(1..n) /\ Cardinality(1..n) = n
  <2> HIDE DEF n
  <2>1. 1 \in Int /\ n \in Int
    BY <1>1
  <2> QED
    BY <1>1, <2>1, FS_Interval
<1>4. order \in Injection(1..n, Holders)
  BY <1>2 DEF Injection, IsInjective
<1>5. order \in Surjection(1..n, Holders)
  BY <1>1, <1>3, <1>4, FS_Injection
<1>6. order \in Seq(Holders) /\ Len(order) = n
  <2> HIDE DEF n
  <2> QED
    BY <1>1, <1>2
<1> QED
  BY <1>5, <1>6 DEF Surjection

(* The grouping: every thread that holds or waits is in a group, a star    *)
(* around its opener or a waiting thread alone.                            *)
LEMMA GroupingIsStars ==
    ASSUME NEW order \in Orders
    PROVE  LET groups == analyze_conflict_groups(order)
           IN  /\ groups \in [Threads -> Owners]
               /\ \A t \in Threads : groups[t] # NoThread <=> t \in Holders \cup wait_keys
               /\ \A t \in Threads : groups[t] \notin {NoThread, t} =>
                     groups[groups[t]] = groups[t] /\ SharesLock(groups[t], t)
               /\ \A t, u \in Range(groups) \ {NoThread} : t # u => ~ SharesLock(t, u)
<1> DEFINE g == FoldLeft(get_or_create_group, NoGroups, order)
           groups == analyze_conflict_groups(order)
<1>1. Stars(g) /\ \A t \in Holders : g[t] # NoThread
  <2>1. order \in Seq(Holders) /\ \A t \in Holders : \E k \in 1..Len(order) : order[k] = t
    BY OrdersAreComplete
  <2> QED
    BY <2>1, FoldIsStars
<1>2. groups = [t \in Threads |-> IF g[t] = NoThread /\ t \in wait_keys THEN t ELSE g[t]]
  BY DEF analyze_conflict_groups, NoGroups
<1> HIDE DEF g, groups
<1>3. NoThread \notin Threads /\ Owners = Threads \cup {NoThread}
  BY NoThreadAssumption DEF Owners
<1>4. groups \in [Threads -> Owners]
  BY <1>1, <1>2, <1>3 DEF Stars
<1>5. \A t \in Threads : groups[t] = IF g[t] = NoThread /\ t \in wait_keys THEN t ELSE g[t]
  BY <1>2
<1>6. \A t \in Threads : g[t] # NoThread <=> t \in Holders
  BY <1>1, StarsAre DEF Holders
<1>7. \A t \in Threads : groups[t] # NoThread <=> t \in Holders \cup wait_keys
  BY <1>3, <1>5, <1>6
<1>8. \A t \in Threads : groups[t] # t => groups[t] = g[t]
  BY <1>5
<1>9. ASSUME NEW t \in Threads, groups[t] \notin {NoThread, t}
      PROVE  groups[groups[t]] = groups[t] /\ SharesLock(groups[t], t)
  <2>1. groups[t] = g[t] /\ g[t] \in Threads
    BY <1>3, <1>4, <1>8, <1>9
  <2>2. g[g[t]] = g[t] /\ SharesLock(g[t], t)
    BY <1>1, <1>9, <2>1, StarsAre
  <2>3. groups[g[t]] = g[t]
    BY <1>3, <1>5, <2>1, <2>2
  <2> QED
    BY <2>1, <2>2, <2>3
<1>10. ASSUME NEW t \in Range(groups) \ {NoThread}, NEW u \in Range(groups) \ {NoThread},
              t # u, SharesLock(t, u)
       PROVE  FALSE
  <2>1. t \in Threads /\ u \in Threads
    BY <1>3, <1>4 DEF Range
  <2>2. t \in Holders /\ u \in Holders
    BY <1>10, <2>1, SharingIsMutual
  <2>3. groups[t] = t /\ groups[u] = u
    BY <1>3, <1>4, <1>9 DEF Range
  <2>4. g[t] = t /\ g[u] = u
    BY <1>5, <1>6, <2>1, <2>2, <2>3
  <2> QED
    BY <1>1, <1>10, <2>1, <2>4 DEF Stars
<1> QED
  BY <1>4, <1>7, <1>9, <1>10 DEF groups

LEMMA GroupsAre ==
    ASSUME KeysOK, NEW order \in Orders
    PROVE  /\ analyze_conflict_groups(order) \in [Threads -> Owners]
           /\ \A t \in wait_keys : analyze_conflict_groups(order)[t] \in Threads
<1> DEFINE groups == analyze_conflict_groups(order)
<1>1. groups \in [Threads -> Owners] /\ \A t \in wait_keys : groups[t] # NoThread
  BY GroupingIsStars DEF KeysOK
<1> HIDE DEF groups
<1>2. \A t \in wait_keys : groups[t] \in Threads
  BY <1>1 DEF KeysOK, Owners
<1> QED
  BY <1>1, <1>2 DEF groups

(* A wait of a thread for a waiting thread of another group is an edge     *)
(* between their groups.                                                   *)
LEMMA WaitsBetweenGroups ==
    ASSUME KeysOK, NEW order \in Orders, NEW t \in Threads, NEW o \in waits_for[t],
           t \in wait_keys, o \in wait_keys,
           analyze_conflict_groups(order)[t] # analyze_conflict_groups(order)[o]
    PROVE  <<analyze_conflict_groups(order)[t], analyze_conflict_groups(order)[o]>>
              \in GroupEdges(analyze_conflict_groups(order))
<1> DEFINE groups == analyze_conflict_groups(order)
           e == <<t, o>>
<1>1. groups[t] \in Threads /\ groups[o] \in Threads
  BY GroupsAre
<1> HIDE DEF groups
<1>2. o \in Threads
  BY DEF KeysOK
<1>3. e \in Threads \X Threads /\ e[1] = t /\ e[2] = o
  BY <1>2
<1> HIDE DEF e
<1>4. groups[t] # groups[o] /\ groups[o] # NoThread
  BY <1>1, NoThreadAssumption DEF groups
<1>5. <<groups[e[1]], groups[e[2]]>> \in GroupEdges(groups)
  BY <1>3, <1>4 DEF GroupEdges
<1> QED
  BY <1>3, <1>5 DEF groups

(* A walk that closes and leaves a group closes a cycle of groups.         *)
LEMMA CrossingMeansGroupCycle ==
    ASSUME KeysOK, NEW order \in Orders, NEW c, NEW first \in Nat, NEW last \in Nat, first < last,
           \A i \in first..last : c[i] \in wait_keys,
           \A i \in first..(last - 1) : c[i + 1] \in waits_for[c[i]],
           c[first] = c[last],
           NEW j \in first..last, NEW k \in first..last,
           analyze_conflict_groups(order)[c[j]] # analyze_conflict_groups(order)[c[k]]
    PROVE  GroupCycle(order)
<1> DEFINE groups == analyze_conflict_groups(order)
           G(i) == groups[c[i]]
           S == {G(i) : i \in first..last}
           edges == GroupEdges(groups)
<1>1. \A i \in first..last : G(i) \in Threads
  BY GroupsAre
<1>2. \A i \in first..(last - 1) : i \in first..last /\ i + 1 \in first..last
  OBVIOUS
<1>3. \A i \in first..(last - 1) : G(i) # G(i + 1) => <<G(i), G(i + 1)>> \in edges
  <2> SUFFICES ASSUME NEW i \in first..(last - 1), G(i) # G(i + 1)
               PROVE  <<G(i), G(i + 1)>> \in edges
    OBVIOUS
  <2>1. /\ c[i] \in wait_keys /\ c[i + 1] \in wait_keys /\ c[i + 1] \in waits_for[c[i]]
        /\ c[i] \in Threads
    BY <1>2 DEF KeysOK
  <2> QED
    BY <2>1, WaitsBetweenGroups
<1> HIDE DEF groups, edges
<1>4. G(first) = G(last)
  OBVIOUS
<1> HIDE DEF G
<1>5. ASSUME NEW x \in first..last
      PROVE  \E i \in first..(last - 1) : G(i) = G(x) /\ G(i + 1) # G(x)
  <2> SUFFICES ASSUME \A i \in first..(last - 1) : G(i) = G(x) => G(i + 1) = G(x)
               PROVE  FALSE
    OBVIOUS
  <2>1. ASSUME NEW a \in first..last, G(a) = G(x)
        PROVE  \A b \in a..last : G(b) = G(x)
    <3> DEFINE Bad == {b \in a..last : G(b) # G(x)}
    <3> SUFFICES ASSUME Bad # {} PROVE FALSE
      OBVIOUS
    <3>1. a..last \in SUBSET Nat
      OBVIOUS
    <3>2. Bad \in SUBSET Nat
      BY <3>1
    <3>3. PICK b \in Bad : \A d \in Bad : b <= d
      BY <3>2, LeastOf
    <3>4. b \in a..last /\ b # a /\ G(b) # G(x)
      BY <2>1, <3>3
    <3>5. b - 1 \in a..last /\ b - 1 \in first..(last - 1) /\ (b - 1) + 1 = b /\ ~ b <= b - 1
      BY <3>4
    <3>6. b - 1 \notin Bad
      BY <3>3, <3>5
    <3>7. G(b - 1) = G(x)
      BY <3>5, <3>6
    <3>8. G((b - 1) + 1) = G(x)
      BY <3>5, <3>7
    <3> QED
      BY <3>4, <3>5, <3>8
  <2>2. G(last) = G(x)
    <3>1. last \in x..last
      OBVIOUS
    <3> QED
      BY <2>1, <3>1
  <2>3. first \in first..last /\ j \in first..last /\ k \in first..last
    OBVIOUS
  <2>4. \A b \in first..last : G(b) = G(x)
    BY <1>4, <2>1, <2>2, <2>3
  <2>5. G(j) # G(k)
    BY DEF G, groups
  <2> QED
    BY <2>3, <2>4, <2>5
<1>6. S \in (SUBSET Threads) \ {{}}
  <2>1. first \in first..last
    OBVIOUS
  <2> QED
    BY <1>1, <2>1
<1>7. ASSUME NEW n \in S
      PROVE  \E m \in S : <<n, m>> \in edges
  <2>1. PICK x \in first..last : n = G(x)
    OBVIOUS
  <2>2. PICK i \in first..(last - 1) : G(i) = G(x) /\ G(i + 1) # G(x)
    BY <1>5
  <2>3. <<G(i), G(i + 1)>> \in edges
    BY <1>3, <2>2
  <2>4. G(i + 1) \in S
    BY <1>2
  <2> QED
    BY <2>1, <2>2, <2>3, <2>4
<1> HIDE DEF S
<1> QED
  BY <1>6, <1>7 DEF GroupCycle, Cyclic, edges, groups

(* Sharing a lock is followed no further than one step by the grouping.    *)
SharingIsTransitive ==
    \A t, u, v \in Threads : SharesLock(t, u) /\ SharesLock(u, v) => SharesLock(t, v)

(* When sharing a lock is transitive, the order plays no part: two threads *)
(* that hold or wait are in one group if and only if they share a lock     *)
(* (analyze_conflict_groups, phase 1).                                     *)
THEOREM GroupsAreClasses ==
    ASSUME KeysOK, SharingIsTransitive, NEW order \in Orders,
           NEW t \in Holders \cup wait_keys, NEW u \in Holders \cup wait_keys
    PROVE  analyze_conflict_groups(order)[t] = analyze_conflict_groups(order)[u]
              <=> t = u \/ SharesLock(t, u)
<1> DEFINE groups == analyze_conflict_groups(order)
           Near(x, y) == x = y \/ SharesLock(x, y)
<1>1. /\ groups \in [Threads -> Owners]
      /\ \A x \in Threads : groups[x] # NoThread <=> x \in Holders \cup wait_keys
      /\ \A x \in Threads : groups[x] \notin {NoThread, x} => SharesLock(groups[x], x)
      /\ \A x, y \in Range(groups) \ {NoThread} : x # y => ~ SharesLock(x, y)
  BY GroupingIsStars
<1> HIDE DEF groups
<1>2. t \in Threads /\ u \in Threads
  BY DEF Holders, KeysOK
<1>3. /\ groups[t] \in Threads /\ groups[t] \in Range(groups) \ {NoThread}
      /\ groups[u] \in Threads /\ groups[u] \in Range(groups) \ {NoThread}
  BY <1>1, <1>2 DEF Owners, Range
<1>4. Near(groups[t], t) /\ Near(groups[u], u)
  BY <1>1, <1>2, <1>3
<1>5. \A x, y \in Threads : Near(x, y) => Near(y, x)
  BY SharingIsMutual
<1>6. \A x, y, z \in Threads : Near(x, y) /\ Near(y, z) => Near(x, z)
  BY DEF SharingIsTransitive
<1>7. Near(groups[t], groups[u]) => groups[t] = groups[u]
  BY <1>1, <1>3
<1> HIDE DEF Near
<1>8. groups[t] = groups[u] => Near(t, u)
  BY <1>2, <1>3, <1>4, <1>5, <1>6
<1>9. Near(t, u) => groups[t] = groups[u]
  <2> SUFFICES ASSUME Near(t, u) PROVE groups[t] = groups[u]
    OBVIOUS
  <2>1. Near(groups[t], u) /\ Near(u, groups[u])
    BY <1>2, <1>3, <1>4, <1>5, <1>6
  <2>2. Near(groups[t], groups[u])
    BY <1>2, <1>3, <1>6, <2>1
  <2> QED
    BY <1>7, <2>2
<1> QED
  BY <1>8, <1>9 DEF Near, groups

(* An alarm for one order is an alarm for the other.                       *)
LEMMA AlarmCarries ==
    ASSUME KeysOK, SharingIsTransitive,
           NEW order1 \in Orders, NEW order2 \in Orders, GroupCycle(order1)
    PROVE  GroupCycle(order2)
<1> DEFINE g1 == analyze_conflict_groups(order1)
           g2 == analyze_conflict_groups(order2)
           E1 == GroupEdges(g1)
           E2 == GroupEdges(g2)
<1>1. /\ g1 \in [Threads -> Owners] /\ g2 \in [Threads -> Owners]
      /\ \A x \in Threads : g1[x] # NoThread <=> x \in Holders \cup wait_keys
      /\ \A x \in Threads : g2[x] # NoThread <=> x \in Holders \cup wait_keys
  BY GroupingIsStars
<1>2. \A x \in Threads : g1[x] \notin {NoThread, x} => g1[g1[x]] = g1[x]
  BY GroupingIsStars
<1>3. \A x, y \in Holders \cup wait_keys : g1[x] = g1[y] <=> g2[x] = g2[y]
  BY GroupsAreClasses
<1>4. PICK S \in (SUBSET Threads) \ {{}} : \A n \in S : \E m \in S : <<n, m>> \in E1
  BY DEF GroupCycle, Cyclic
<1> HIDE DEF g1, g2
<1>5. ASSUME NEW a, NEW b, <<a, b>> \in E1
      PROVE  \E t \in Threads, o \in Threads : /\ o \in waits_for[t] /\ g1[o] # NoThread
                                               /\ g1[t] # g1[o] /\ a = g1[t] /\ b = g1[o]
  <2>1. PICK d \in Threads \X Threads : /\ d[2] \in waits_for[d[1]] /\ g1[d[2]] # NoThread
                                        /\ g1[d[1]] # g1[d[2]]
                                        /\ <<a, b>> = <<g1[d[1]], g1[d[2]]>>
    BY <1>5 DEF GroupEdges
  <2>2. d[1] \in Threads /\ d[2] \in Threads /\ a = g1[d[1]] /\ b = g1[d[2]]
    BY <2>1
  <2> QED
    BY <2>1, <2>2
<1>6. \A t, o \in Threads : o \in waits_for[t] /\ g2[o] # NoThread /\ g2[t] # g2[o]
          => <<g2[t], g2[o]>> \in E2
  <2> SUFFICES ASSUME NEW t \in Threads, NEW o \in Threads, o \in waits_for[t],
                      g2[o] # NoThread, g2[t] # g2[o]
               PROVE  <<g2[t], g2[o]>> \in E2
    OBVIOUS
  <2> DEFINE e == <<t, o>>
  <2>1. e \in Threads \X Threads /\ e[1] = t /\ e[2] = o
    OBVIOUS
  <2> HIDE DEF e
  <2>2. <<g2[e[1]], g2[e[2]]>> \in E2
    BY <2>1 DEF GroupEdges
  <2> QED
    BY <2>1, <2>2
<1> HIDE DEF E1, E2
<1> DEFINE S2 == {g2[s] : s \in S}
<1>7. ASSUME NEW s \in S
      PROVE  \E m \in S : g2[m] \in Threads /\ <<g2[s], g2[m]>> \in E2
  <2>1. PICK m \in S : <<s, m>> \in E1
    BY <1>4
  <2>2. PICK t \in Threads, o \in Threads :
           /\ o \in waits_for[t] /\ g1[o] # NoThread /\ g1[t] # g1[o]
           /\ s = g1[t] /\ m = g1[o]
    BY <1>5, <2>1
  <2>3. s \in Threads /\ m \in Threads
    BY <1>4
  <2>4. NoThread \notin Threads
    BY NoThreadAssumption
  <2>5. g1[s] = s /\ g1[m] = m
    BY <1>2, <2>2, <2>3, <2>4
  <2>6. {t, o, s, m} \subseteq Holders \cup wait_keys
    BY <1>1, <2>2, <2>3, <2>4, <2>5
  <2>7. g2[s] = g2[t] /\ g2[m] = g2[o] /\ g2[t] # g2[o]
    BY <1>3, <2>2, <2>5, <2>6
  <2>8. g2[o] # NoThread /\ g2[m] \in Threads
    BY <1>1, <2>2, <2>3, <2>6 DEF Owners
  <2> QED
    BY <1>6, <2>2, <2>7, <2>8
<1>8. S2 # {} /\ \A s \in S : g2[s] \in Threads
  <2>1. ASSUME NEW s \in S
        PROVE  g2[s] \in Threads
    <3>1. PICK m \in S : <<s, m>> \in E1
      BY <1>4
    <3>2. PICK t \in Threads : s = g1[t]
      BY <1>5, <3>1
    <3>3. s \in Threads /\ NoThread \notin Threads
      BY <1>4, NoThreadAssumption
    <3>4. g1[s] = s
      BY <1>2, <3>2, <3>3
    <3>5. g2[s] # NoThread
      BY <1>1, <3>3, <3>4
    <3> QED
      BY <1>1, <3>3, <3>5 DEF Owners
  <2> QED
    BY <1>4, <2>1
<1>9. S2 \in (SUBSET Threads) \ {{}}
  BY <1>8
<1>10. \A n \in S2 : \E m \in S2 : <<n, m>> \in E2
  BY <1>7
<1> HIDE DEF S2
<1> QED
  BY <1>9, <1>10 DEF GroupCycle, Cyclic, E2, g2

(* When sharing a lock is transitive, whether the group search raises an   *)
(* alarm does not depend on how the hash map of thread_locks is walked     *)
(* (detect_group_deadlock).  Without the hypothesis it may: of three       *)
(* threads in a chain, the middle one is with whichever end came first.    *)
THEOREM AlarmNeedsNoOrder ==
    ASSUME KeysOK, SharingIsTransitive, NEW order1 \in Orders, NEW order2 \in Orders
    PROVE  GroupCycle(order1) <=> GroupCycle(order2)
BY AlarmCarries

=============================================================================
