------------------------- MODULE GroupSearchProofs -------------------------
(* Proofs about detect_group_deadlock, for every set of threads and        *)
(* addresses: the search of the groups finds a cycle of them whenever      *)
(* there is one, and what it finds is expanded to threads that wait.       *)
EXTENDS GroupSearch, ConflictGroupsProofs

GroupFrames == [group : Threads, todo : SUBSET Threads]
Gpcs == {"groups", "dfs", "none", "expand", "victims", "found"}

GroupTypes ==
    /\ gpc \in Gpcs
    /\ gvisited \in SUBSET Threads /\ in_stack \in SUBSET gvisited
    /\ gframes \in Seq(GroupFrames)
    /\ group_cycles \in Seq(Seq(Threads))
    /\ group_cycle \in Seq(Threads) /\ thread_cycle \in Seq(Threads)
    /\ victims \in [Threads -> Owners]
    /\ gpc = "dfs" <=> gframes # <<>>

(* What the start guarantees of the maps and the graph of groups. *)
StartInv ==
    /\ group_wait_graph \in [Threads -> SUBSET Threads]
    /\ \A g \in Threads : \A h \in group_wait_graph[g] : g # h /\ WaitersInto(g, h) # {}
    /\ \A t \in Threads : \A o \in waits_for[t] :
          waits_for[o] # {} /\ groups[t] # groups[o] =>
             groups[t] \in Threads /\ groups[o] \in group_wait_graph[groups[t]]
    /\ waits_for \in [Threads -> SUBSET Threads]

(* The activations of dfs are a path through the graph of groups. *)
GroupPathInv ==
    /\ in_stack = {gframes[i].group : i \in 1..Len(gframes)}
    /\ \A i, j \in 1..Len(gframes) : gframes[i].group = gframes[j].group => i = j
    /\ \A i \in 1..(Len(gframes) - 1) :
         gframes[i + 1].group \in group_wait_graph[gframes[i].group]
    /\ \A i \in 1..Len(gframes) : gframes[i].todo \subseteq group_wait_graph[gframes[i].group]

(* Groups the search has left, and the one an activation is following. *)
Left == gvisited \ in_stack
Followed(i) == IF i < Len(gframes) THEN {gframes[i + 1].group} ELSE {}

(* While nothing was found, no edge leads from the groups left elsewhere,  *)
(* and no set of them waits for itself.                                    *)
GroupLeftInv ==
    /\ \A g \in Left : group_wait_graph[g] \subseteq Left
    /\ \A i \in 1..Len(gframes) :
         group_wait_graph[gframes[i].group] \ gframes[i].todo \subseteq Left \cup Followed(i)
    /\ \A S \in SUBSET Left : S # {} => \E g \in S : group_wait_graph[g] \cap S = {}

GroupHasCycle == \E S \in SUBSET Threads : S # {} /\ \A g \in S : group_wait_graph[g] \cap S # {}

MissInv ==
    /\ gpc \in {"groups", "dfs"} /\ group_cycles = <<>> => GroupLeftInv
    /\ gpc = "none" => ~ GroupHasCycle

IsGroupCycle(c) ==
    /\ Len(c) >= 2 /\ IsInjective(c)
    /\ \A i \in 1..Len(c) : c[(i % Len(c)) + 1] \in group_wait_graph[c[i]]

KeptInv == \A n \in 1..Len(group_cycles) : IsGroupCycle(group_cycles[n])

(* The expansion follows the cycle group by group, and its threads become  *)
(* the victims of their groups.                                            *)
ChosenInv ==
    /\ gpc \in {"groups", "dfs", "none"} => group_cycle = <<>> /\ thread_cycle = <<>>
    /\ gpc \in {"expand", "victims", "found"} => IsGroupCycle(group_cycle)
    /\ gpc = "expand" => Len(thread_cycle) < Len(group_cycle)
    /\ gpc \in {"victims", "found"} => Len(thread_cycle) = Len(group_cycle)
    /\ ThreadsFollowGroups
    /\ gpc = "found" => \A i \in 1..Len(group_cycle) : victims[group_cycle[i]] = thread_cycle[i]

GroupInv == GroupTypes /\ StartInv /\ GroupPathInv /\ MissInv /\ KeptInv /\ ChosenInv

-----------------------------------------------------------------------------
(* The activations.                                                        *)

LEMMA TopGroup ==
    ASSUME GroupTypes, gpc = "dfs"
    PROVE  /\ Len(gframes) \in Nat \ {0}
           /\ gtop \in GroupFrames /\ gtop = gframes[Len(gframes)]
           /\ gtop.group \in Threads /\ gtop.todo \subseteq Threads
<1>1. Len(gframes) \in Nat \ {0}
  BY EmptySeq DEF GroupTypes
<1>2. gtop \in GroupFrames
  BY <1>1, ElementOfSeq DEF GroupTypes, gtop
<1> QED
  BY <1>1, <1>2 DEF GroupFrames, gtop

LEMMA WithoutGroup ==
    ASSUME NEW f \in GroupFrames, NEW g
    PROVE  [f EXCEPT !.todo = @ \ {g}] = [group |-> f.group, todo |-> f.todo \ {g}]
  BY DEF GroupFrames

LEMMA AdvancedFrames ==
    ASSUME GroupTypes, gpc = "dfs", NEW g \in Threads
    PROVE  /\ Advanced(g) \in Seq(GroupFrames)
           /\ Len(Advanced(g)) = Len(gframes)
           /\ Advanced(g) # <<>>
           /\ \A i \in 1..Len(gframes) :
                /\ Advanced(g)[i].group = gframes[i].group
                /\ i # Len(gframes) => Advanced(g)[i].todo = gframes[i].todo
           /\ Advanced(g)[Len(gframes)].todo = gtop.todo \ {g}
<1> DEFINE f == [group |-> gtop.group, todo |-> gtop.todo \ {g}]
<1>1. Len(gframes) \in Nat \ {0} /\ gtop \in GroupFrames
  BY TopGroup
<1>2. f \in GroupFrames /\ f.group = gtop.group /\ f.todo = gtop.todo \ {g}
  BY <1>1 DEF GroupFrames
<1>3. Advanced(g) = [gframes EXCEPT ![Len(gframes)] = f]
  <2>1. [gtop EXCEPT !.todo = @ \ {g}] = f
    BY <1>1, WithoutGroup
  <2>2. Advanced(g) = [gframes EXCEPT ![Len(gframes)] = [gtop EXCEPT !.todo = @ \ {g}]]
    BY DEF Advanced, gtop
  <2> QED
    BY <2>1, <2>2
<1>4. Len(gframes) \in 1..Len(gframes)
  BY <1>1
<1> HIDE DEF f
<1>5. Advanced(g) \in Seq(GroupFrames) /\ Len(Advanced(g)) = Len(gframes)
      /\ \A i \in 1..Len(gframes) : Advanced(g)[i] = IF i = Len(gframes) THEN f ELSE gframes[i]
  BY <1>2, <1>3, <1>4, ExceptSeq DEF GroupTypes
<1>6. Advanced(g) # <<>>
  BY <1>1, <1>5, EmptySeq
<1> QED
  BY <1>2, <1>4, <1>5, <1>6 DEF gtop

(* An activation more, after the frames given. *)
LEMMA EnteredFrames ==
    ASSUME StartInv, NEW g \in Threads, NEW frames \in Seq(GroupFrames)
    PROVE  LET entered == Append(frames, [group |-> g, todo |-> group_wait_graph[g]])
           IN  /\ entered \in Seq(GroupFrames) /\ entered # <<>>
               /\ Len(entered) = Len(frames) + 1
               /\ \A i \in 1..Len(frames) : entered[i] = frames[i]
               /\ entered[Len(frames) + 1].group = g
               /\ entered[Len(frames) + 1].todo = group_wait_graph[g]
<1> DEFINE f == [group |-> g, todo |-> group_wait_graph[g]]
<1>1. f \in GroupFrames /\ f.group = g /\ f.todo = group_wait_graph[g]
  BY DEF GroupFrames, StartInv
<1> HIDE DEF f
<1> QED
  BY <1>1, AppendProperties DEF f

LEMMA ReturnedFrames ==
    ASSUME GroupTypes, gpc = "dfs"
    PROVE  /\ Front(gframes) \in Seq(GroupFrames)
           /\ Len(Front(gframes)) = Len(gframes) - 1
           /\ \A i \in 1..(Len(gframes) - 1) : Front(gframes)[i] = gframes[i]
           /\ Front(gframes) = <<>> <=> Len(gframes) = 1
<1> DEFINE n == Len(gframes) - 1
<1>1. n \in Nat /\ Len(gframes) = n + 1
  BY TopGroup
<1>2. \A i \in 1..n : gframes[i] \in GroupFrames
  BY <1>1, ElementOfSeq DEF GroupTypes
<1> HIDE DEF n
<1>3. n \in Int /\ 1 \in Int /\ n - 1 + 1 = n /\ (IF 1 <= n THEN n - 1 + 1 ELSE 0) = n
  BY <1>1
<1>4. /\ SubSeq(gframes, 1, n) \in Seq(GroupFrames)
      /\ Len(SubSeq(gframes, 1, n)) = IF 1 <= n THEN n - 1 + 1 ELSE 0
      /\ \A i \in 1..(n - 1 + 1) : SubSeq(gframes, 1, n)[i] = gframes[1 + i - 1]
  BY <1>2, <1>3, SubSeqProperties
<1>5. Front(gframes) = SubSeq(gframes, 1, n)
  BY DEF Front, n
<1>6. SubSeq(gframes, 1, n) = <<>> <=> Len(gframes) = 1
  BY <1>1, <1>3, <1>4, EmptySeq
<1> QED
  BY <1>1, <1>3, <1>4, <1>5, <1>6 DEF n

(* The path, and the cycle that closes on one of its groups. *)
LEMMA PathIs ==
    ASSUME GroupTypes
    PROVE  /\ Len(gframes) \in Nat
           /\ path \in Seq(Threads) /\ Len(path) = Len(gframes)
           /\ DOMAIN path = 1..Len(gframes)
           /\ \A i \in 1..Len(gframes) : path[i] = gframes[i].group /\ path[i] \in Threads
<1>1. Len(gframes) \in Nat
  BY LenProperties DEF GroupTypes
<1>2. \A i \in 1..Len(gframes) : gframes[i].group \in Threads
  <2>1. \A i \in 1..Len(gframes) : gframes[i] \in GroupFrames
    BY ElementOfSeq DEF GroupTypes
  <2> QED
    BY <2>1 DEF GroupFrames
<1>3. path \in [1..Len(gframes) -> Threads]
  BY <1>2 DEF path
<1>4. path \in Seq(Threads)
  BY <1>1, <1>3, SeqDef
<1>5. Len(path) = Len(gframes)
  BY <1>1, <1>3, <1>4, LenProperties
<1> QED
  BY <1>1, <1>2, <1>3, <1>4, <1>5 DEF path

LEMMA NextPlace ==
    ASSUME NEW n \in Nat, n >= 2, NEW i \in 1..n
    PROVE  (i % n) + 1 = IF i = n THEN 1 ELSE i + 1
<1>1. CASE i = n
  BY <1>1
<1>2. CASE i # n
  <2>1. i \in 0..(n - 1)
    BY <1>2
  <2>2. i % n = i
    BY <2>1
  <2> QED
    BY <1>2, <2>2
<1> QED
  BY <1>1, <1>2

LEMMA CycleFromIsCycle ==
    ASSUME GroupTypes, StartInv, GroupPathInv, gpc = "dfs",
           NEW g \in gtop.todo \cap in_stack
    PROVE  CycleFrom(g) \in Seq(Threads) /\ IsGroupCycle(CycleFrom(g))
<1> DEFINE L == Len(gframes)
<1>1. L \in Nat \ {0} /\ gtop = gframes[L] /\ gtop.group \in Threads
  BY TopGroup
<1>2. /\ path \in Seq(Threads) /\ Len(path) = L
      /\ \A i \in 1..L : path[i] = gframes[i].group /\ path[i] \in Threads
  BY PathIs
<1>3. PICK k \in 1..L : gframes[k].group = g
  BY DEF GroupPathInv
<1>4. /\ \A i, j \in 1..L : path[i] = path[j] => i = j
      /\ \A i \in 1..(L - 1) : path[i + 1] \in group_wait_graph[path[i]]
      /\ g \in group_wait_graph[path[L]]
  <2>1. \A i \in 1..(L - 1) : i \in 1..L /\ i + 1 \in 1..L
    BY <1>1
  <2>2. L \in 1..L
    BY <1>1
  <2> QED
    BY <1>1, <1>2, <2>1, <2>2 DEF GroupPathInv
<1>5. path[k] = g /\ k # L
  <2>1. g # path[L]
    <3>1. L \in 1..L /\ path[L] \in Threads
      BY <1>1, <1>2
    <3> QED
      BY <1>4, <3>1 DEF StartInv
  <2> QED
    BY <1>2, <1>3, <2>1
<1>6. SelectInSeq(path, LAMBDA h : h = g) = k
  <2> DEFINE I == {i \in 1..Len(path) : path[i] = g}
  <2>1. I = {k}
    BY <1>2, <1>3, <1>4, <1>5
  <2>2. k \in Nat /\ \A y \in {k} : k <= y
    BY <1>1
  <2>3. Min({k}) = k
    BY <2>2 DEF Min
  <2>4. SelectInSeq(path, LAMBDA h : h = g) = IF I # {} THEN Min(I) ELSE 0
    BY DEF SelectInSeq
  <2> HIDE DEF I
  <2> QED
    BY <2>1, <2>3, <2>4
<1> DEFINE c == CycleFrom(g)
           n == L - k + 1
<1>7. /\ n \in Nat /\ n >= 2 /\ k \in Nat
      /\ \A i \in 1..n : k + i - 1 \in 1..L
      /\ \A i \in 1..n : i # n => i + 1 \in 1..n /\ k + i - 1 \in 1..(L - 1)
                                  /\ k + (i + 1) - 1 = (k + i - 1) + 1
      /\ k + n - 1 = L /\ k + 1 - 1 = k /\ n \in 1..n /\ 1 \in 1..n
  BY <1>1, <1>3, <1>5
<1>8. /\ c \in Seq(Threads) /\ Len(c) = n
      /\ \A i \in 1..n : c[i] = path[k + i - 1]
  <2>1. c = SubSeq(path, k, L)
    BY <1>2, <1>6 DEF CycleFrom
  <2>2. \A i \in k..L : path[i] \in Threads
    BY <1>2, <1>7
  <2>3. k \in Int /\ L \in Int /\ k <= L
    BY <1>1, <1>3
  <2> HIDE DEF c
  <2> QED
    BY <2>1, <2>2, <2>3, SubSeqProperties
<1> HIDE DEF c, n
<1>9. IsInjective(c)
  <2>1. DOMAIN c = 1..n
    BY <1>7, <1>8, LenProperties
  <2>2. ASSUME NEW i \in 1..n, NEW j \in 1..n, c[i] = c[j]
        PROVE  i = j
    <3>1. PICK a \in 1..L : a = k + i - 1
      BY <1>7
    <3>2. PICK b \in 1..L : b = k + j - 1
      BY <1>7
    <3>3. c[i] = path[a] /\ c[j] = path[b]
      BY <1>8, <3>1, <3>2
    <3>4. a = b
      BY <1>4, <2>2, <3>3
    <3> QED
      BY <1>7, <3>1, <3>2, <3>4
  <2> QED
    BY <2>1, <2>2 DEF IsInjective
<1>10. ASSUME NEW i \in 1..n
       PROVE  c[(i % n) + 1] \in group_wait_graph[c[i]]
  <2>1. CASE i = n
    <3>1. (i % n) + 1 = 1
      BY <1>7, <2>1, NextPlace
    <3>2. c[1] = g /\ c[n] = path[L]
      BY <1>5, <1>7, <1>8
    <3> QED
      BY <1>4, <2>1, <3>1, <3>2
  <2>2. CASE i # n
    <3>1. (i % n) + 1 = i + 1
      BY <1>7, <2>2, NextPlace
    <3>2. c[i + 1] = path[(k + i - 1) + 1] /\ c[i] = path[k + i - 1]
      BY <1>7, <1>8, <2>2
    <3> QED
      BY <1>4, <1>7, <2>2, <3>1, <3>2
  <2> QED
    BY <2>1, <2>2
<1> QED
  BY <1>7, <1>8, <1>9, <1>10 DEF IsGroupCycle, c

(* A sequence of groups that is a cycle shows that there is one. *)
LEMMA CycleOfGroups ==
    ASSUME NEW c \in Seq(Threads), IsGroupCycle(c)
    PROVE  GroupHasCycle
<1> DEFINE S == {c[i] : i \in 1..Len(c)}
<1>1. /\ Len(c) \in Nat /\ Len(c) >= 2
      /\ \A i \in 1..Len(c) : c[i] \in Threads
      /\ \A i \in 1..Len(c) : c[(i % Len(c)) + 1] \in group_wait_graph[c[i]]
  BY LenProperties, ElementOfSeq DEF IsGroupCycle
<1>2. ASSUME NEW i \in 1..Len(c)
      PROVE  (i % Len(c)) + 1 \in 1..Len(c)
  <2>1. (i % Len(c)) + 1 = IF i = Len(c) THEN 1 ELSE i + 1
    BY <1>1, NextPlace
  <2> QED
    BY <1>1, <2>1
<1>3. S \in SUBSET Threads /\ S # {}
  <2>1. 1 \in 1..Len(c)
    BY <1>1
  <2> QED
    BY <1>1, <2>1
<1>4. \A g \in S : group_wait_graph[g] \cap S # {}
  BY <1>1, <1>2
<1> HIDE DEF S
<1> QED
  BY <1>3, <1>4 DEF GroupHasCycle

(* The longest of the cycles is one of them. *)
LEMMA LongestIsKept ==
    ASSUME GroupTypes, group_cycles # <<>>
    PROVE  \E n \in 1..Len(group_cycles) : Longest = group_cycles[n]
<1> DEFINE N == Len(group_cycles)
           len(i) == Len(group_cycles[i])
           LongestTo(i, k) == \A j \in 1..k : IF j < i THEN len(j) < len(i) ELSE len(j) <= len(i)
           Bad == {k \in 1..N : ~ \E i \in 1..k : LongestTo(i, k)}
<1>1. N \in Nat /\ N # 0 /\ \A i \in 1..N : len(i) \in Nat
  <2>1. N \in Nat /\ N # 0
    BY EmptySeq, LenProperties DEF GroupTypes
  <2>2. \A i \in 1..N : group_cycles[i] \in Seq(Threads)
    BY ElementOfSeq DEF GroupTypes
  <2> QED
    BY <2>1, <2>2, LenProperties
<1> HIDE DEF N, len
<1>2. Bad = {}
  <2> SUFFICES ASSUME Bad # {} PROVE FALSE
    OBVIOUS
  <2>1. Bad \in SUBSET Nat
    BY <1>1
  <2>2. PICK k \in Bad : \A j \in Bad : k <= j
    BY <2>1, LeastOf
  <2>3. k \in 1..N /\ k \in Nat /\ ~ \E i \in 1..k : LongestTo(i, k)
    BY <1>1, <2>2
  <2>4. k # 1
    <3>1. k = 1 => LongestTo(1, k)
      BY <1>1, <2>3
    <3> QED
      BY <2>3, <3>1
  <2>5. k - 1 \in 1..N /\ ~ k <= k - 1 /\ (k - 1) + 1 = k
    BY <1>1, <2>3, <2>4
  <2>6. PICK i \in 1..(k - 1) : LongestTo(i, k - 1)
    BY <2>2, <2>5
  <2>7. i \in 1..N /\ i < k /\ len(i) \in Nat /\ len(k) \in Nat
    BY <1>1, <2>3, <2>6
  <2>8. \A j \in 1..k : j = k \/ j \in 1..(k - 1)
    BY <2>3
  <2>9. \A j \in 1..k : j \in Nat /\ len(j) \in Nat
    BY <1>1, <2>3
  <2>10. CASE len(k) <= len(i)
    <3>1. LongestTo(i, k)
      BY <2>6, <2>7, <2>8, <2>10
    <3>2. i \in 1..k
      BY <2>3, <2>6
    <3> HIDE DEF LongestTo
    <3> QED
      BY <2>3, <3>1, <3>2
  <2>11. CASE len(i) < len(k)
    <3>1. \A j \in 1..(k - 1) : len(j) <= len(i)
      BY <2>6, <2>7, <2>8, <2>9
    <3>2. ASSUME NEW j \in 1..k
          PROVE  IF j < k THEN len(j) < len(k) ELSE len(j) <= len(k)
      <4>1. CASE j = k
        BY <2>7, <4>1
      <4>2. CASE j \in 1..(k - 1)
        <5>1. j < k /\ len(j) \in Nat
          BY <2>3, <2>9, <4>2
        <5>2. len(j) <= len(i)
          BY <3>1, <4>2
        <5> QED
          BY <2>7, <2>11, <5>1, <5>2
      <4> QED
        BY <2>8, <4>1, <4>2
    <3>3. LongestTo(k, k)
      BY <3>2
    <3> HIDE DEF LongestTo
    <3> QED
      BY <2>3, <3>3
  <2> QED
    BY <2>7, <2>10, <2>11
<1> HIDE DEF LongestTo
<1>3. \E i \in 1..N : LongestTo(i, N)
  <2>1. N \in 1..N
    BY <1>1
  <2> QED
    BY <1>2, <2>1
<1>4. PICK n \in 1..N : n = CHOOSE i \in 1..N : LongestTo(i, N)
  BY <1>3
<1>5. Longest = group_cycles[n]
  BY <1>4 DEF Longest, N, len, LongestTo
<1> QED
  BY <1>5 DEF N

-----------------------------------------------------------------------------
(* The steps of the search.                                                *)

LEMMA StartKeeps ==
    ASSUME StartInv, UNCHANGED <<vars, grouping>>
    PROVE  StartInv' /\ group_wait_graph' = group_wait_graph
  BY DEF StartInv, vars, maps, grouping, WaitersInto, Members

(* A new outermost activation. *)
LEMMA NextGroupStep ==
    ASSUME GroupInv, NEW g \in Threads, NextGroup(g)
    PROVE  GroupTypes' /\ GroupPathInv' /\ MissInv'
<1>1. /\ gpc = "groups" /\ gpc' = "dfs" /\ g \notin gvisited
      /\ gvisited' = gvisited \cup {g} /\ in_stack' = in_stack \cup {g}
      /\ gframes' = Append(<<>>, [group |-> g, todo |-> group_wait_graph[g]])
      /\ UNCHANGED <<vars, grouping, group_cycles, group_cycle, thread_cycle, victims>>
      /\ group_wait_graph' = group_wait_graph
  BY DEF NextGroup, Enter, result, grouping
<1>2. gframes = <<>> /\ Len(gframes) = 0 /\ in_stack = {}
  BY <1>1 DEF GroupInv, GroupTypes, GroupPathInv
<1>3. /\ gframes' \in Seq(GroupFrames) /\ gframes' # <<>> /\ Len(gframes') = 1
      /\ gframes'[1].group = g /\ gframes'[1].todo = group_wait_graph[g]
  <2>1. PICK none : none = <<>> /\ none \in Seq(GroupFrames) /\ Len(none) = 0
    BY EmptySeq
  <2>2. StartInv /\ 0 + 1 = 1
    BY DEF GroupInv
  <2>3. gframes' = Append(none, [group |-> g, todo |-> group_wait_graph[g]])
    BY <1>1, <2>1
  <2>4. /\ gframes' \in Seq(GroupFrames) /\ gframes' # <<>> /\ Len(gframes') = Len(none) + 1
        /\ gframes'[Len(none) + 1].group = g
        /\ gframes'[Len(none) + 1].todo = group_wait_graph[g]
    BY <2>1, <2>2, <2>3, EnteredFrames
  <2> QED
    BY <2>1, <2>2, <2>4
<1>4. 1..Len(gframes') = {1} /\ 1..(Len(gframes') - 1) = {} /\ ~ 1 < Len(gframes')
  BY <1>3
<1>5. GroupTypes'
  BY <1>1, <1>3 DEF GroupInv, GroupTypes, Gpcs
<1>6. GroupPathInv'
  BY <1>1, <1>2, <1>3, <1>4 DEF GroupPathInv
<1>7. MissInv'
  <2>1. Left' = Left
    BY <1>1, <1>2 DEF Left
  <2>2. group_cycles = <<>> => GroupLeftInv
    BY <1>1 DEF GroupInv, MissInv
  <2>3. group_cycles = <<>> => GroupLeftInv'
    BY <1>1, <1>3, <1>4, <2>1, <2>2 DEF GroupLeftInv
  <2> QED
    BY <1>1, <2>3 DEF MissInv
<1> QED
  BY <1>5, <1>6, <1>7

(* One activation more. *)
LEMMA ExploreStep ==
    ASSUME GroupInv, NEW g \in Threads, Explore(g)
    PROVE  GroupTypes' /\ GroupPathInv' /\ MissInv'
<1> DEFINE L == Len(gframes)
<1>1. /\ gpc = "dfs" /\ gpc' = "dfs" /\ g \in gtop.todo /\ g \notin gvisited /\ g \notin in_stack
      /\ gvisited' = gvisited \cup {g} /\ in_stack' = in_stack \cup {g}
      /\ gframes' = Append(Advanced(g), [group |-> g, todo |-> group_wait_graph[g]])
      /\ UNCHANGED <<vars, grouping, group_cycles, group_cycle, thread_cycle, victims>>
      /\ group_wait_graph' = group_wait_graph
  BY DEF Explore, Enter, result, grouping, GroupInv, GroupTypes
<1>2. GroupTypes /\ StartInv /\ GroupPathInv
  BY DEF GroupInv
<1>3. /\ L \in Nat \ {0} /\ gtop = gframes[L] /\ L \in 1..L
  BY <1>1, <1>2, TopGroup
<1>4. /\ gframes' \in Seq(GroupFrames) /\ gframes' # <<>> /\ Len(gframes') = L + 1
      /\ \A i \in 1..L : /\ gframes'[i].group = gframes[i].group
                         /\ i # L => gframes'[i].todo = gframes[i].todo
      /\ gframes'[L].todo = gtop.todo \ {g}
      /\ gframes'[L + 1].group = g /\ gframes'[L + 1].todo = group_wait_graph[g]
  <2>1. /\ Advanced(g) \in Seq(GroupFrames) /\ Len(Advanced(g)) = L
        /\ \A i \in 1..L : /\ Advanced(g)[i].group = gframes[i].group
                           /\ i # L => Advanced(g)[i].todo = gframes[i].todo
        /\ Advanced(g)[L].todo = gtop.todo \ {g}
    BY <1>1, <1>2, AdvancedFrames
  <2>2. /\ gframes' \in Seq(GroupFrames) /\ gframes' # <<>>
        /\ Len(gframes') = Len(Advanced(g)) + 1
        /\ \A i \in 1..Len(Advanced(g)) : gframes'[i] = Advanced(g)[i]
        /\ gframes'[Len(Advanced(g)) + 1].group = g
        /\ gframes'[Len(Advanced(g)) + 1].todo = group_wait_graph[g]
    BY <1>1, <1>2, <2>1, EnteredFrames
  <2> QED
    BY <1>3, <2>1, <2>2
<1>5. GroupTypes'
  BY <1>1, <1>2, <1>4 DEF GroupTypes, Gpcs
<1>6. GroupPathInv'
  <2>1. in_stack' = {gframes'[i].group : i \in 1..Len(gframes')}
    <3>1. in_stack = {gframes[i].group : i \in 1..L}
      BY <1>2 DEF GroupPathInv
    <3> QED
      BY <1>1, <1>3, <1>4, <3>1
  <2>2. \A i, j \in 1..Len(gframes') : gframes'[i].group = gframes'[j].group => i = j
    <3>1. \A i \in 1..L : gframes[i].group # g
      BY <1>1, <1>2 DEF GroupPathInv
    <3>2. \A i, j \in 1..L : gframes[i].group = gframes[j].group => i = j
      BY <1>2 DEF GroupPathInv
    <3> QED
      BY <1>3, <1>4, <3>1, <3>2
  <2>3. ASSUME NEW i \in 1..(Len(gframes') - 1)
        PROVE  gframes'[i + 1].group \in group_wait_graph'[gframes'[i].group]
    <3>1. CASE i = L
      BY <1>1, <1>2, <1>3, <1>4, <3>1 DEF GroupPathInv
    <3>2. CASE i # L
      <4>1. i \in 1..(L - 1) /\ i \in 1..L /\ i + 1 \in 1..L
        BY <1>3, <1>4, <3>2
      <4> QED
        BY <1>1, <1>2, <1>4, <4>1 DEF GroupPathInv
    <3> QED
      BY <3>1, <3>2
  <2>4. ASSUME NEW i \in 1..Len(gframes')
        PROVE  gframes'[i].todo \subseteq group_wait_graph'[gframes'[i].group]
    <3>1. CASE i = L + 1
      BY <1>1, <1>4, <3>1
    <3>2. CASE i \in 1..L
      BY <1>1, <1>2, <1>3, <1>4, <3>2 DEF GroupPathInv
    <3> QED
      BY <1>3, <1>4, <3>1, <3>2
  <2> QED
    BY <2>1, <2>2, <2>3, <2>4 DEF GroupPathInv
<1>7. MissInv'
  <2>1. SUFFICES ASSUME group_cycles = <<>>
                 PROVE  GroupLeftInv'
    BY <1>1 DEF MissInv
  <2>2. GroupLeftInv
    BY <1>1, <2>1 DEF GroupInv, MissInv
  <2>3. Left' = Left
    BY <1>1 DEF Left
  <2>4. ASSUME NEW i \in 1..Len(gframes')
        PROVE  group_wait_graph'[gframes'[i].group] \ gframes'[i].todo \subseteq Left' \cup Followed(i)'
    <3>1. CASE i = L + 1
      BY <1>1, <1>4, <3>1
    <3>2. CASE i = L
      BY <1>1, <1>3, <1>4, <2>2, <2>3, <3>2 DEF GroupLeftInv, Followed
    <3>3. CASE i \in 1..(L - 1)
      <4>1. i \in 1..L /\ i + 1 \in 1..L /\ i # L /\ i < L /\ i < L + 1
        BY <1>3, <3>3
      <4>2. Followed(i)' = Followed(i)
        BY <1>4, <4>1 DEF Followed
      <4>3. group_wait_graph[gframes[i].group] \ gframes[i].todo \subseteq Left \cup Followed(i)
        BY <2>2, <4>1 DEF GroupLeftInv
      <4>4. gframes'[i].group = gframes[i].group /\ gframes'[i].todo = gframes[i].todo
        BY <1>4, <4>1
      <4> QED
        BY <1>1, <2>3, <4>2, <4>3, <4>4
    <3> QED
      BY <1>3, <1>4, <3>1, <3>2, <3>3
  <2> QED
    BY <1>1, <2>2, <2>3, <2>4 DEF GroupLeftInv
<1> QED
  BY <1>5, <1>6, <1>7

(* The innermost activation goes past a neighbour. *)
LEMMA AdvanceStep ==
    ASSUME GroupInv, NEW g \in Threads, gpc = "dfs", g \in gtop.todo, gframes' = Advanced(g),
           gpc' = gpc, UNCHANGED <<gvisited, in_stack, group_wait_graph, group_cycle,
                                   thread_cycle, victims>>
    PROVE  /\ group_cycles' \in Seq(Seq(Threads)) => GroupTypes'
           /\ GroupPathInv'
           /\ g \in Left /\ GroupLeftInv => GroupLeftInv'
<1> DEFINE L == Len(gframes)
<1>2. GroupTypes /\ StartInv /\ GroupPathInv
  BY DEF GroupInv
<1>3. /\ L \in Nat \ {0} /\ gtop = gframes[L] /\ L \in 1..L
  BY <1>2, TopGroup
<1>4. /\ gframes' \in Seq(GroupFrames) /\ gframes' # <<>> /\ Len(gframes') = L
      /\ \A i \in 1..L : /\ gframes'[i].group = gframes[i].group
                         /\ i # L => gframes'[i].todo = gframes[i].todo
      /\ gframes'[L].todo = gframes[L].todo \ {g}
  BY <1>2, <1>3, AdvancedFrames
<1>5. group_cycles' \in Seq(Seq(Threads)) => GroupTypes'
  BY <1>2, <1>4 DEF GroupTypes
<1>6. GroupPathInv'
  <2>1. in_stack' = {gframes'[i].group : i \in 1..Len(gframes')}
    BY <1>2, <1>4 DEF GroupPathInv
  <2>2. \A i, j \in 1..L : gframes'[i].group = gframes'[j].group => i = j
    BY <1>2, <1>4 DEF GroupPathInv
  <2>3. \A i \in 1..(L - 1) : i \in 1..L /\ i + 1 \in 1..L
    BY <1>3
  <2>4. \A i \in 1..(L - 1) : gframes'[i + 1].group \in group_wait_graph'[gframes'[i].group]
    BY <1>2, <1>4, <2>3 DEF GroupPathInv
  <2>5. \A i \in 1..L : gframes'[i].todo \subseteq group_wait_graph'[gframes'[i].group]
    BY <1>2, <1>4 DEF GroupPathInv
  <2> QED
    BY <1>4, <2>1, <2>2, <2>4, <2>5 DEF GroupPathInv
<1>7. ASSUME g \in Left, GroupLeftInv
      PROVE  GroupLeftInv'
  <2>1. Left' = Left
    BY DEF Left
  <2>2. ASSUME NEW i \in 1..L
        PROVE  group_wait_graph[gframes'[i].group] \ gframes'[i].todo \subseteq Left \cup Followed(i)'
    <3>1. Followed(i)' = Followed(i)
      <4>1. CASE i = L
        BY <1>3, <1>4, <4>1 DEF Followed
      <4>2. CASE i # L
        <5>1. i < L /\ i < Len(gframes') /\ i + 1 \in 1..L
          BY <1>3, <1>4, <4>2
        <5> QED
          BY <1>4, <5>1 DEF Followed
      <4> QED
        BY <4>1, <4>2
    <3>2. group_wait_graph[gframes[i].group] \ gframes[i].todo \subseteq Left \cup Followed(i)
      BY <1>7 DEF GroupLeftInv
    <3> QED
      BY <1>4, <1>7, <3>1, <3>2
  <2> QED
    BY <1>4, <1>7, <2>1, <2>2 DEF GroupLeftInv
<1> QED
  BY <1>5, <1>6, <1>7

LEMMA PassGroupStep ==
    ASSUME GroupInv, NEW g \in Threads, PassGroup(g)
    PROVE  GroupTypes' /\ GroupPathInv' /\ MissInv'
<1>1. /\ gpc = "dfs" /\ gpc' = gpc /\ g \in gtop.todo /\ g \in Left /\ gframes' = Advanced(g)
      /\ UNCHANGED <<gvisited, in_stack, group_wait_graph, group_cycles, group_cycle,
                     thread_cycle, victims>>
  BY DEF PassGroup, Left, grouping, result
<1>2. group_cycles' \in Seq(Seq(Threads))
  BY <1>1 DEF GroupInv, GroupTypes
<1>3. GroupTypes' /\ GroupPathInv' /\ (GroupLeftInv => GroupLeftInv')
  BY <1>1, <1>2, AdvanceStep
<1>4. MissInv'
  BY <1>1, <1>3 DEF GroupInv, MissInv
<1> QED
  BY <1>3, <1>4

LEMMA CloseStep ==
    ASSUME GroupInv, NEW g \in Threads, CloseGroupCycle(g)
    PROVE  GroupTypes' /\ GroupPathInv' /\ MissInv' /\ KeptInv'
<1>1. /\ gpc = "dfs" /\ gpc' = gpc /\ g \in gtop.todo /\ g \in in_stack
      /\ gframes' = Advanced(g)
      /\ group_cycles' = IF Contains(group_cycles, CycleFrom(g)) THEN group_cycles
                         ELSE Append(group_cycles, CycleFrom(g))
      /\ UNCHANGED <<gvisited, in_stack, group_wait_graph, group_cycle, thread_cycle, victims>>
  BY DEF CloseGroupCycle, grouping, result
<1>2. GroupTypes /\ StartInv /\ GroupPathInv /\ KeptInv
  BY DEF GroupInv
<1> DEFINE c == CycleFrom(g)
<1>3. c \in Seq(Threads) /\ IsGroupCycle(c)
  BY <1>1, <1>2, CycleFromIsCycle
<1> HIDE DEF c
<1>4. /\ group_cycles' \in Seq(Seq(Threads)) /\ group_cycles' # <<>>
      /\ \A n \in 1..Len(group_cycles') :
           group_cycles'[n] = c \/ \E m \in 1..Len(group_cycles) : group_cycles'[n] = group_cycles[m]
  <2>0. group_cycles \in Seq(Seq(Threads)) /\ Len(group_cycles) \in Nat
    BY <1>2, LenProperties DEF GroupTypes
  <2>1. CASE Contains(group_cycles, c)
    <3>1. group_cycles # <<>>
      BY <2>0, <2>1, EmptySeq DEF Contains
    <3> QED
      BY <1>1, <2>0, <2>1, <3>1 DEF c
  <2>2. CASE ~ Contains(group_cycles, c)
    <3>1. group_cycles' = Append(group_cycles, c)
      BY <1>1, <2>2 DEF c
    <3>2. /\ group_cycles' \in Seq(Seq(Threads)) /\ group_cycles' # <<>>
          /\ Len(group_cycles') = Len(group_cycles) + 1
          /\ \A n \in 1..Len(group_cycles) : group_cycles'[n] = group_cycles[n]
          /\ group_cycles'[Len(group_cycles) + 1] = c
      BY <1>3, <2>0, <3>1, AppendProperties
    <3>3. \A n \in 1..Len(group_cycles') : n \in 1..Len(group_cycles) \/ n = Len(group_cycles) + 1
      BY <2>0, <3>2
    <3> QED
      BY <3>2, <3>3
  <2> QED
    BY <2>1, <2>2
<1>5. GroupTypes' /\ GroupPathInv'
  BY <1>1, <1>4, AdvanceStep
<1>6. MissInv'
  BY <1>1, <1>4 DEF MissInv
<1>7. KeptInv'
  <2>1. \A n \in 1..Len(group_cycles') : IsGroupCycle(group_cycles'[n])
    BY <1>2, <1>3, <1>4 DEF KeptInv
  <2> QED
    BY <1>1, <2>1 DEF KeptInv, IsGroupCycle
<1> QED
  BY <1>5, <1>6, <1>7

(* The innermost activation returns. *)
LEMMA LeaveStep ==
    ASSUME GroupInv, Leave
    PROVE  GroupTypes' /\ GroupPathInv' /\ MissInv'
<1> DEFINE L == Len(gframes)
           g == gtop.group
<1>1. /\ gpc = "dfs" /\ gtop.todo = {} /\ in_stack' = in_stack \ {g}
      /\ gframes' = Front(gframes) /\ gpc' = IF L = 1 THEN "groups" ELSE "dfs"
      /\ UNCHANGED <<gvisited, group_wait_graph, group_cycles, group_cycle, thread_cycle, victims>>
  BY DEF Leave, grouping, result
<1>2. GroupTypes /\ StartInv /\ GroupPathInv
  BY DEF GroupInv
<1>3. /\ L \in Nat \ {0} /\ gtop = gframes[L] /\ L \in 1..L /\ g \in Threads
  BY <1>1, <1>2, TopGroup
<1>4. /\ gframes' \in Seq(GroupFrames) /\ Len(gframes') = L - 1
      /\ \A i \in 1..(L - 1) : gframes'[i] = gframes[i] /\ i \in 1..L /\ i # L
      /\ gframes' = <<>> <=> L = 1
  BY <1>1, <1>2, <1>3, ReturnedFrames
<1>5. GroupTypes'
  BY <1>1, <1>2, <1>4 DEF GroupTypes, Gpcs
<1>6. GroupPathInv'
  <2>1. in_stack' = {gframes'[i].group : i \in 1..Len(gframes')}
    <3>1. in_stack = {gframes[i].group : i \in 1..L}
          /\ \A i \in 1..L : gframes[i].group = gframes[L].group => i = L
      BY <1>2, <1>3 DEF GroupPathInv
    <3>2. \A i \in 1..L : i = L \/ i \in 1..(L - 1)
      BY <1>3
    <3>3. in_stack' = {gframes[i].group : i \in 1..(L - 1)}
      BY <1>1, <1>3, <1>4, <3>1, <3>2
    <3> QED
      BY <1>4, <3>3
  <2>2. \A i, j \in 1..(L - 1) : gframes'[i].group = gframes'[j].group => i = j
    BY <1>2, <1>4 DEF GroupPathInv
  <2>3. ASSUME NEW i \in 1..(L - 1 - 1)
        PROVE  gframes'[i + 1].group \in group_wait_graph'[gframes'[i].group]
    <3>1. i \in 1..(L - 1) /\ i + 1 \in 1..(L - 1)
      BY <1>3
    <3> QED
      BY <1>1, <1>2, <1>4, <3>1 DEF GroupPathInv
  <2>4. \A i \in 1..(L - 1) : gframes'[i].todo \subseteq group_wait_graph'[gframes'[i].group]
    BY <1>1, <1>2, <1>4 DEF GroupPathInv
  <2> QED
    BY <1>4, <2>1, <2>2, <2>3, <2>4 DEF GroupPathInv
<1>7. ASSUME GroupLeftInv
      PROVE  GroupLeftInv'
  <2>1. g \in in_stack /\ g \in gvisited /\ g \notin Left /\ Left' = Left \cup {g}
    <3>1. g \in in_stack
      BY <1>2, <1>3 DEF GroupPathInv
    <3> QED
      BY <1>1, <1>2, <3>1 DEF GroupTypes, Left
  <2>2. group_wait_graph[g] \subseteq Left
    <3>1. group_wait_graph[gframes[L].group] \ gframes[L].todo \subseteq Left \cup Followed(L)
      BY <1>3, <1>7 DEF GroupLeftInv
    <3> QED
      BY <1>1, <1>3, <3>1 DEF Followed
  <2>3. ASSUME NEW i \in 1..(L - 1)
        PROVE  group_wait_graph'[gframes'[i].group] \ gframes'[i].todo \subseteq Left' \cup Followed(i)'
    <3>1. group_wait_graph[gframes[i].group] \ gframes[i].todo \subseteq Left \cup Followed(i)
      BY <1>4, <1>7 DEF GroupLeftInv
    <3>2. Followed(i) \subseteq {g} \cup Followed(i)'
      <4>1. CASE i = L - 1
        BY <1>3, <4>1 DEF Followed
      <4>2. CASE i # L - 1
        <5>1. i < L /\ i < L - 1 /\ i + 1 \in 1..(L - 1)
          BY <1>3, <4>2
        <5> QED
          BY <1>4, <5>1 DEF Followed
      <4> QED
        BY <4>1, <4>2
    <3> QED
      BY <1>1, <1>4, <2>1, <3>1, <3>2
  <2>4. ASSUME NEW S \in SUBSET (Left \cup {g}), S # {}
        PROVE  \E m \in S : group_wait_graph[m] \cap S = {}
    <3>1. CASE S \ {g} = {}
      BY <2>1, <2>2, <2>4, <3>1
    <3>2. CASE S \ {g} # {}
      <4>1. S \ {g} \in SUBSET Left
        BY <2>4
      <4>2. PICK m \in S \ {g} : group_wait_graph[m] \cap (S \ {g}) = {}
        BY <1>7, <3>2, <4>1 DEF GroupLeftInv
      <4>3. g \notin group_wait_graph[m]
        BY <1>7, <2>1, <4>1, <4>2 DEF GroupLeftInv
      <4> QED
        BY <4>2, <4>3
    <3> QED
      BY <3>1, <3>2
  <2>5. \A m \in Left' : group_wait_graph'[m] \subseteq Left'
    BY <1>1, <1>7, <2>1, <2>2 DEF GroupLeftInv
  <2> QED
    BY <1>1, <1>4, <2>1, <2>3, <2>4, <2>5 DEF GroupLeftInv
<1>8. MissInv'
  BY <1>1, <1>7 DEF GroupInv, MissInv
<1> QED
  BY <1>5, <1>6, <1>8

-----------------------------------------------------------------------------
(* The start.                                                              *)

LEMMA StartIsGood ==
    ASSUME GroupInit
    PROVE  StartInv
<1>1. PICK order \in Orders : groups = analyze_conflict_groups(order)
  BY DEF GroupInit
<1>2. /\ groups \in [Threads -> Owners]
      /\ \A t \in wait_keys : groups[t] \in Threads
  BY <1>1, GroupsAre DEF GroupInit, TypeOK
<1>3. waits_for \in [Threads -> SUBSET Threads] /\ KeysOK
  BY DEF GroupInit, TypeOK
<1>4. group_wait_graph = [g \in Threads |-> {h \in Threads : <<g, h>> \in GroupEdges(groups)}]
  BY DEF GroupInit
<1>5. ASSUME NEW g \in Threads, NEW h \in group_wait_graph[g]
      PROVE  g # h /\ WaitersInto(g, h) # {}
  <2>1. <<g, h>> \in GroupEdges(groups)
    BY <1>4, <1>5
  <2>2. PICK d \in Threads \X Threads :
            /\ d[2] \in waits_for[d[1]] /\ groups[d[1]] # groups[d[2]]
            /\ <<g, h>> = <<groups[d[1]], groups[d[2]]>>
    BY <2>1 DEF GroupEdges
  <2>3. g = groups[d[1]] /\ h = groups[d[2]] /\ d[1] \in Threads
    BY <2>2
  <2>4. d[1] \in WaitersInto(g, h)
    BY <2>2, <2>3 DEF WaitersInto, Members
  <2> QED
    BY <2>2, <2>3, <2>4
<1>6. ASSUME NEW t \in Threads, NEW o \in waits_for[t], waits_for[o] # {}, groups[t] # groups[o]
      PROVE  groups[t] \in Threads /\ groups[o] \in group_wait_graph[groups[t]]
  <2>1. o \in Threads /\ t \in wait_keys /\ o \in wait_keys
    BY <1>3, <1>6 DEF KeysOK
  <2>2. groups[t] \in Threads /\ groups[o] \in Threads
    BY <1>2, <2>1
  <2>3. <<groups[t], groups[o]>> \in GroupEdges(groups)
    BY <1>1, <1>3, <1>6, <2>1, WaitsBetweenGroups
  <2> QED
    BY <1>4, <2>2, <2>3
<1>7. group_wait_graph \in [Threads -> SUBSET Threads]
  BY <1>4
<1> QED
  BY <1>3, <1>5, <1>6, <1>7 DEF StartInv

LEMMA GroupInitInv ==
    ASSUME GroupInit
    PROVE  GroupInv
<1>1. StartInv
  BY StartIsGood
<1>2. /\ gpc = "groups" /\ gvisited = {} /\ in_stack = {} /\ gframes = <<>>
      /\ group_cycles = <<>> /\ group_cycle = <<>> /\ thread_cycle = <<>>
      /\ victims = [g \in Threads |-> NoThread]
  BY DEF GroupInit
<1>3. \A S : <<>> \in Seq(S)
  OBVIOUS
<1>4. Len(<<>>) = 0 /\ 1..0 = {} /\ 1..(0 - 1) = {}
  OBVIOUS
<1>5. GroupTypes
  BY <1>2, <1>3 DEF GroupTypes, Gpcs, Owners
<1>6. GroupPathInv
  BY <1>2, <1>4 DEF GroupPathInv
<1>7. Left = {} /\ GroupLeftInv
  BY <1>2, <1>4 DEF GroupLeftInv, Left
<1>8. MissInv /\ KeptInv
  BY <1>2, <1>4, <1>7 DEF MissInv, KeptInv
<1>9. ChosenInv
  BY <1>2, <1>4 DEF ChosenInv, ThreadsFollowGroups
<1> QED
  BY <1>1, <1>5, <1>6, <1>8, <1>9 DEF GroupInv

-----------------------------------------------------------------------------
(* What the steps do to the cycles kept and the threads chosen.            *)

LEMMA SearchChoosesNothing ==
    ASSUME GroupInv, gpc \in {"groups", "dfs"}, gpc' \in {"groups", "dfs", "none"},
           UNCHANGED <<group_cycle, thread_cycle>>
    PROVE  ChosenInv'
<1>1. group_cycle' = <<>> /\ thread_cycle' = <<>> /\ 1..Len(thread_cycle') = {}
  BY DEF GroupInv, ChosenInv
<1> QED
  BY <1>1 DEF ChosenInv, ThreadsFollowGroups

LEMMA CyclesStay ==
    ASSUME GroupInv, UNCHANGED <<group_wait_graph, group_cycles>>
    PROVE  KeptInv'
  BY DEF GroupInv, KeptInv, IsGroupCycle

LEMMA SearchStep ==
    ASSUME GroupInv,
           NEW g \in Threads, NextGroup(g) \/ Explore(g) \/ CloseGroupCycle(g) \/ PassGroup(g)
    PROVE  GroupInv'
<1>1. /\ gpc \in {"groups", "dfs"} /\ gpc' = "dfs"
      /\ UNCHANGED <<vars, grouping, group_cycle, thread_cycle>>
  BY DEF NextGroup, Explore, CloseGroupCycle, PassGroup, result
<1>2. StartInv' /\ group_wait_graph' = group_wait_graph
  BY <1>1, StartKeeps DEF GroupInv
<1>3. ChosenInv'
  BY <1>1, SearchChoosesNothing
<1>4. GroupTypes' /\ GroupPathInv' /\ MissInv'
  BY NextGroupStep, ExploreStep, CloseStep, PassGroupStep
<1>5. KeptInv'
  <2>1. CASE CloseGroupCycle(g)
    BY <2>1, CloseStep
  <2>2. CASE ~ CloseGroupCycle(g)
    <3>1. UNCHANGED group_cycles
      BY <2>2 DEF NextGroup, Explore, PassGroup
    <3> QED
      BY <1>2, <3>1, CyclesStay
  <2> QED
    BY <2>1, <2>2
<1> QED
  BY <1>2, <1>3, <1>4, <1>5 DEF GroupInv

LEMMA LeaveKeeps ==
    ASSUME GroupInv, Leave
    PROVE  GroupInv'
<1>1. /\ gpc = "dfs" /\ gpc' \in {"groups", "dfs"}
      /\ UNCHANGED <<vars, grouping, group_cycles, group_cycle, thread_cycle>>
  BY DEF Leave, result
<1>2. StartInv' /\ group_wait_graph' = group_wait_graph
  BY <1>1, StartKeeps DEF GroupInv
<1>3. ChosenInv' /\ KeptInv'
  BY <1>1, <1>2, SearchChoosesNothing, CyclesStay
<1> QED
  BY <1>2, <1>3, LeaveStep DEF GroupInv

(* When every key was visited and nothing found, the groups visited are    *)
(* all left, so no set of groups waits for itself.                         *)
LEMMA NothingMissed ==
    ASSUME GroupInv, gpc = "groups", Keys \subseteq gvisited, group_cycles = <<>>
    PROVE  ~ GroupHasCycle
<1>1. GroupLeftInv /\ in_stack = {} /\ Left = gvisited
  <2>1. gframes = <<>> /\ 1..Len(gframes) = {}
    BY DEF GroupInv, GroupTypes
  <2> QED
    BY <2>1 DEF GroupInv, MissInv, GroupPathInv, Left
<1> SUFFICES ASSUME NEW S \in SUBSET Threads, S # {},
                    \A g \in S : group_wait_graph[g] \cap S # {}
             PROVE  FALSE
  BY DEF GroupHasCycle
<1>2. S \subseteq Left
  BY <1>1 DEF Keys
<1> QED
  BY <1>1, <1>2 DEF GroupLeftInv

LEMMA ReturnStep ==
    ASSUME GroupInv, ReturnCycle
    PROVE  GroupInv'
<1>1. /\ gpc = "groups" /\ Keys \subseteq gvisited
      /\ UNCHANGED <<vars, grouping, gvisited, in_stack, gframes, group_cycles, thread_cycle,
                     victims>>
  BY DEF ReturnCycle
<1>2. StartInv' /\ group_wait_graph' = group_wait_graph
  BY <1>1, StartKeeps DEF GroupInv
<1>3. KeptInv' /\ GroupPathInv'
  BY <1>1, <1>2, CyclesStay DEF GroupInv, GroupPathInv
<1>4. GroupTypes /\ KeptInv /\ ChosenInv /\ StartInv
  BY DEF GroupInv
<1>5. CASE group_cycles = <<>>
  <2>1. gpc' = "none" /\ group_cycle' = group_cycle
    BY <1>5 DEF ReturnCycle
  <2>2. GroupTypes'
    BY <1>1, <1>4, <2>1 DEF GroupTypes, Gpcs
  <2>3. ~ GroupHasCycle'
    BY <1>1, <1>2, <1>5, NothingMissed DEF GroupHasCycle
  <2>4. MissInv'
    BY <2>1, <2>3 DEF MissInv
  <2>5. ChosenInv'
    BY <1>1, <2>1, SearchChoosesNothing
  <2> QED
    BY <1>2, <1>3, <2>2, <2>4, <2>5 DEF GroupInv
<1>6. CASE group_cycles # <<>>
  <2>1. gpc' = "expand" /\ group_cycle' = Longest
    BY <1>6 DEF ReturnCycle
  <2>2. PICK n \in 1..Len(group_cycles) : Longest = group_cycles[n]
    BY <1>4, <1>6, LongestIsKept
  <2>3. group_cycle' \in Seq(Threads) /\ IsGroupCycle(group_cycle')
    BY <1>4, <2>1, <2>2, ElementOfSeq DEF KeptInv, GroupTypes
  <2>4. GroupTypes'
    BY <1>1, <1>4, <2>1, <2>3 DEF GroupTypes, Gpcs
  <2>5. MissInv'
    BY <2>1 DEF MissInv
  <2>6. thread_cycle' = <<>> /\ Len(thread_cycle') = 0 /\ 1..Len(thread_cycle') = {}
    BY <1>1, <1>4 DEF ChosenInv
  <2>7. Len(group_cycle') \in Nat /\ Len(group_cycle') >= 2
    BY <2>3, LenProperties DEF IsGroupCycle
  <2>8. IsGroupCycle(group_cycle)'
    BY <1>2, <2>3 DEF IsGroupCycle
  <2>9. Len(thread_cycle') < Len(group_cycle')
    BY <2>6, <2>7
  <2>10. ChosenInv'
    BY <2>1, <2>6, <2>8, <2>9 DEF ChosenInv, ThreadsFollowGroups
  <2> QED
    BY <1>2, <1>3, <2>4, <2>5, <2>10 DEF GroupInv
<1> QED
  BY <1>5, <1>6

(* A place of the cycle, and the next. *)
LEMMA CyclePlaces ==
    ASSUME GroupTypes, StartInv, IsGroupCycle(group_cycle), NEW i \in 1..Len(group_cycle)
    PROVE  /\ (i % Len(group_cycle)) + 1 \in 1..Len(group_cycle)
           /\ (i % Len(group_cycle)) + 1 # i
           /\ group_cycle[i] \in Threads
           /\ group_cycle[(i % Len(group_cycle)) + 1] \in Threads
           /\ group_cycle[i] # group_cycle[(i % Len(group_cycle)) + 1]
           /\ WaitersInto(group_cycle[i], group_cycle[(i % Len(group_cycle)) + 1]) # {}
<1> DEFINE n == Len(group_cycle)
           j == (i % n) + 1
<1>1. n \in Nat /\ n >= 2 /\ \A k \in 1..n : group_cycle[k] \in Threads
  BY LenProperties, ElementOfSeq DEF GroupTypes, IsGroupCycle
<1> HIDE DEF n
<1>2. j = IF i = n THEN 1 ELSE i + 1
  BY <1>1, NextPlace DEF n
<1>3. group_cycle[j] \in group_wait_graph[group_cycle[i]]
  BY DEF IsGroupCycle, n
<1> HIDE DEF j
<1>4. i \in 1..n
  BY DEF n
<1>5. j \in 1..n /\ j # i
  BY <1>1, <1>2, <1>4
<1>6. /\ group_cycle[i] # group_cycle[j]
      /\ WaitersInto(group_cycle[i], group_cycle[j]) # {}
  BY <1>1, <1>3, <1>4 DEF StartInv
<1> QED
  BY <1>1, <1>4, <1>5, <1>6 DEF n, j

LEMMA ExpandStep ==
    ASSUME GroupInv, Expand
    PROVE  GroupInv'
<1> DEFINE n == Len(group_cycle)
           k == Len(thread_cycle)
           next(i) == group_cycle[(i % n) + 1]
<1>1. /\ GroupTypes /\ StartInv /\ ChosenInv /\ IsGroupCycle(group_cycle)
      /\ gpc = "expand" /\ k < n /\ gframes = <<>>
  <2>1. gpc = "expand"
    BY DEF Expand
  <2> QED
    BY <2>1 DEF GroupInv, ChosenInv, GroupTypes
<1>2. n \in Nat /\ k \in Nat /\ k + 1 \in 1..n /\ n >= 2
  BY <1>1, LenProperties DEF GroupTypes, IsGroupCycle
<1>3. /\ UNCHANGED <<vars, grouping, gvisited, in_stack, gframes, group_cycles, group_cycle,
                     victims>>
      /\ gpc' = IF k + 1 = n THEN "victims" ELSE "expand"
  BY DEF Expand
<1>4. WaitersInto(group_cycle[k + 1], next(k + 1)) # {}
  BY <1>1, <1>2, CyclePlaces
<1>5. PICK t \in WaitersInto(group_cycle[k + 1], next(k + 1)) : thread_cycle' = Append(thread_cycle, t)
  BY <1>4 DEF Expand
<1>6. t \in Threads
  BY <1>5 DEF WaitersInto, Members
<1>7. /\ thread_cycle' \in Seq(Threads) /\ Len(thread_cycle') = k + 1
      /\ \A i \in 1..k : thread_cycle'[i] = thread_cycle[i]
      /\ thread_cycle'[k + 1] = t
  BY <1>1, <1>5, <1>6, AppendProperties DEF GroupTypes
<1>8. StartInv' /\ group_wait_graph' = group_wait_graph
  BY <1>1, <1>3, StartKeeps
<1>9. KeptInv' /\ GroupPathInv'
  BY <1>3, <1>8, CyclesStay DEF GroupInv, GroupPathInv
<1>10. GroupTypes' /\ MissInv'
  BY <1>1, <1>3, <1>7 DEF GroupTypes, MissInv, Gpcs
<1>11. IsGroupCycle(group_cycle)'
  BY <1>1, <1>3, <1>8 DEF IsGroupCycle
<1>12. ASSUME NEW g, NEW h
       PROVE  WaitersInto(g, h)' = WaitersInto(g, h)
  BY <1>3 DEF WaitersInto, Members, vars, maps, grouping
<1>13. ASSUME NEW i \in 1..(k + 1)
       PROVE  thread_cycle'[i] \in WaitersInto(group_cycle[i], next(i))
  <2>1. CASE i = k + 1
    BY <1>5, <1>7, <2>1
  <2>2. CASE i \in 1..k
    BY <1>1, <1>7, <2>2 DEF ChosenInv, ThreadsFollowGroups
  <2> QED
    BY <1>2, <2>1, <2>2
<1>14. ThreadsFollowGroups'
  <2>1. group_cycle' = group_cycle /\ groups' = groups /\ waits_for' = waits_for
    BY <1>3 DEF vars, maps, grouping
  <2> QED
    BY <1>7, <1>13, <2>1 DEF ThreadsFollowGroups, WaitersInto, Members
<1>15. Len(thread_cycle') = k + 1 /\ Len(group_cycle') = n /\ (k + 1 # n => k + 1 < n)
  BY <1>2, <1>3, <1>7
<1>16. ChosenInv'
  <2>1. CASE k + 1 = n
    BY <1>3, <1>11, <1>14, <1>15, <2>1 DEF ChosenInv
  <2>2. CASE k + 1 # n
    BY <1>3, <1>11, <1>14, <1>15, <2>2 DEF ChosenInv
  <2> QED
    BY <2>1, <2>2
<1> QED
  BY <1>8, <1>9, <1>10, <1>16 DEF GroupInv

(* The groups of the expansion are those of the cycle, in its order.       *)
LEMMA ExpansionPlaces ==
    ASSUME GroupTypes, ChosenInv, IsGroupCycle(group_cycle),
           Len(thread_cycle) = Len(group_cycle), NEW i \in 1..Len(group_cycle)
    PROVE  /\ thread_cycle[i] \in Threads /\ groups[thread_cycle[i]] = group_cycle[i]
           /\ SelectInSeq(thread_cycle, LAMBDA t : groups[t] = group_cycle[i]) = i
<1> DEFINE n == Len(group_cycle)
           I == {j \in 1..Len(thread_cycle) : groups[thread_cycle[j]] = group_cycle[i]}
<1>1. n \in Nat /\ DOMAIN group_cycle = 1..n /\ i \in 1..n /\ i \in Nat
  BY LenProperties DEF GroupTypes
<1>2. \A j \in 1..n : thread_cycle[j] \in Threads /\ groups[thread_cycle[j]] = group_cycle[j]
  BY DEF ChosenInv, ThreadsFollowGroups, WaitersInto, Members
<1>3. \A j \in 1..n : group_cycle[j] = group_cycle[i] => j = i
  BY <1>1 DEF IsGroupCycle, IsInjective
<1>4. I = {i}
  BY <1>1, <1>2, <1>3
<1>5. Min({i}) = i
  <2>1. \A y \in {i} : i <= y
    BY <1>1
  <2> QED
    BY <2>1 DEF Min
<1>6. SelectInSeq(thread_cycle, LAMBDA t : groups[t] = group_cycle[i]) = IF I # {} THEN Min(I) ELSE 0
  BY DEF SelectInSeq
<1> HIDE DEF I
<1> QED
  BY <1>1, <1>2, <1>4, <1>5, <1>6

LEMMA SelectStep ==
    ASSUME GroupInv, SelectVictims
    PROVE  GroupInv'
<1>1. /\ GroupTypes /\ StartInv /\ ChosenInv /\ IsGroupCycle(group_cycle)
      /\ gpc = "victims" /\ Len(thread_cycle) = Len(group_cycle) /\ gframes = <<>>
  <2>1. gpc = "victims"
    BY DEF SelectVictims
  <2> QED
    BY <2>1 DEF GroupInv, ChosenInv, GroupTypes
<1>2. /\ UNCHANGED <<vars, grouping, gvisited, in_stack, gframes, group_cycles, group_cycle,
                     thread_cycle>>
      /\ gpc' = "found"
  BY DEF SelectVictims
<1> DEFINE first(g) == thread_cycle[SelectInSeq(thread_cycle, LAMBDA t : groups[t] = g)]
<1>3. victims' = [g \in Threads |-> IF Contains(group_cycle, g) THEN first(g) ELSE NoThread]
  BY DEF SelectVictims
<1>4. ASSUME NEW i \in 1..Len(group_cycle)
      PROVE  first(group_cycle[i]) = thread_cycle[i] /\ thread_cycle[i] \in Threads
  BY <1>1, ExpansionPlaces
<1> HIDE DEF first
<1>5. \A i \in 1..Len(group_cycle) : group_cycle[i] \in Threads
  BY <1>1, ElementOfSeq DEF GroupTypes
<1>6. \A g : Contains(group_cycle, g) <=> \E i \in 1..Len(group_cycle) : group_cycle[i] = g
  BY DEF Contains
<1>7. \A g \in Threads : Contains(group_cycle, g) => first(g) \in Threads
  BY <1>4, <1>6
<1>8. victims' \in [Threads -> Owners]
  BY <1>3, <1>7 DEF Owners
<1>9. \A i \in 1..Len(group_cycle) : victims'[group_cycle[i]] = thread_cycle[i]
  BY <1>3, <1>4, <1>5, <1>6
<1>10. StartInv' /\ group_wait_graph' = group_wait_graph
  BY <1>1, <1>2, StartKeeps
<1>11. KeptInv' /\ GroupPathInv'
  BY <1>2, <1>10, CyclesStay DEF GroupInv, GroupPathInv
<1>12. GroupTypes' /\ MissInv'
  BY <1>1, <1>2, <1>8 DEF GroupTypes, MissInv, Gpcs
<1>13. IsGroupCycle(group_cycle)'
  BY <1>1, <1>2, <1>10 DEF IsGroupCycle
<1>14. ThreadsFollowGroups'
  BY <1>1, <1>2 DEF ChosenInv, ThreadsFollowGroups, WaitersInto, Members, vars, maps, grouping
<1>15. ChosenInv'
  BY <1>1, <1>2, <1>9, <1>13, <1>14 DEF ChosenInv
<1> QED
  BY <1>10, <1>11, <1>12, <1>15 DEF GroupInv

LEMMA GroupStutter ==
    ASSUME GroupInv, UNCHANGED groupvars
    PROVE  GroupInv'
<1>1. StartInv'
  BY StartKeeps DEF GroupInv, groupvars
<1>2. GroupTypes' /\ GroupPathInv' /\ KeptInv'
  BY CyclesStay DEF GroupInv, groupvars, result, grouping, GroupTypes, GroupPathInv
<1>3. MissInv'
  BY DEF GroupInv, groupvars, result, grouping, MissInv, GroupLeftInv, GroupHasCycle, Left, Followed
<1>4. ChosenInv'
  BY DEF GroupInv, groupvars, result, grouping, vars, maps, ChosenInv, IsGroupCycle,
         ThreadsFollowGroups, WaitersInto, Members
<1> QED
  BY <1>1, <1>2, <1>3, <1>4 DEF GroupInv

LEMMA GroupInductive == GroupInv /\ [GroupNext]_groupvars => GroupInv'
<1> SUFFICES ASSUME GroupInv, [GroupNext]_groupvars
             PROVE  GroupInv'
  OBVIOUS
<1>1. ASSUME NEW g \in Threads,
             NextGroup(g) \/ Explore(g) \/ CloseGroupCycle(g) \/ PassGroup(g)
      PROVE  GroupInv'
  BY <1>1, SearchStep
<1>2. CASE Leave
  BY <1>2, LeaveKeeps
<1>3. CASE ReturnCycle
  BY <1>3, ReturnStep
<1>4. CASE Expand
  BY <1>4, ExpandStep
<1>5. CASE SelectVictims
  BY <1>5, SelectStep
<1>6. CASE UNCHANGED groupvars
  BY <1>6, GroupStutter
<1> QED
  BY <1>1, <1>2, <1>3, <1>4, <1>5, <1>6 DEF GroupNext

LEMMA GroupInvariant == GroupSpec => []GroupInv
<1>1. GroupInit => GroupInv
  BY GroupInitInv
<1> QED
  BY <1>1, GroupInductive, PTL DEF GroupSpec

-----------------------------------------------------------------------------
(* The results.                                                            *)

(* detect_group_deadlock keeps its types, and the set in_stack of          *)
(* find_group_cycles is always the set of the groups on its path.          *)
THEOREM GroupTypeCorrect == GroupSpec => []GroupTypeOK
<1>1. GroupInv => GroupTypeOK
  <2> SUFFICES ASSUME GroupInv PROVE GroupTypeOK
    OBVIOUS
  <2>1. GroupTypes /\ GroupPathInv /\ ChosenInv
    BY DEF GroupInv
  <2>2. /\ DOMAIN path = 1..Len(gframes)
        /\ \A i \in 1..Len(gframes) : path[i] = gframes[i].group
    BY <2>1, PathIs
  <2>3. in_stack = Range(path) /\ IsInjective(path)
    <3>1. Range(path) = {path[i] : i \in 1..Len(gframes)}
      BY <2>2 DEF Range
    <3>2. in_stack = {gframes[i].group : i \in 1..Len(gframes)}
      BY <2>1 DEF GroupPathInv
    <3>3. IsInjective(path)
      BY <2>1, <2>2 DEF GroupPathInv, IsInjective
    <3> QED
      BY <2>2, <3>1, <3>2, <3>3
  <2>4. Len(thread_cycle) <= Len(group_cycle)
    <3>1. Len(thread_cycle) \in Nat /\ Len(group_cycle) \in Nat
      BY <2>1, LenProperties DEF GroupTypes
    <3>2. \/ thread_cycle = <<>> /\ group_cycle = <<>>
          \/ Len(thread_cycle) < Len(group_cycle)
          \/ Len(thread_cycle) = Len(group_cycle)
      BY <2>1 DEF ChosenInv, GroupTypes, Gpcs
    <3> QED
      BY <3>1, <3>2
  <2> QED
    BY <2>1, <2>3, <2>4 DEF GroupTypes, GroupTypeOK, Gpcs
<1> QED
  BY <1>1, GroupInvariant, PTL

(* Whatever find_group_cycles cuts from its path when a neighbour is on    *)
(* it is a cycle of at least two groups in which no group occurs twice.    *)
THEOREM KeptCyclesAreCycles == GroupSpec => []KeptAreCycles
<1>1. GroupInv => KeptAreCycles
  BY DEF GroupInv, KeptInv, KeptAreCycles, IsGroupCycle
<1> QED
  BY <1>1, GroupInvariant, PTL

(* When find_group_cycles returns nothing there is no deadlock it should   *)
(* have found: each cycle of threads waits inside some group.              *)
THEOREM NoneIsRight == GroupSpec => []NoneMeansNoCycle
<1>1. GroupInv => NoneMeansNoCycle
  <2> SUFFICES ASSUME GroupInv, gpc = "none", NEW S \in SUBSET Threads,
                      Cyclic(S, ThreadEdges),
                      \A t, o \in S : o \in waits_for[t] => groups[t] # groups[o]
               PROVE  FALSE
    BY DEF NoneMeansNoCycle
  <2>1. ~ GroupHasCycle /\ StartInv
    BY DEF GroupInv, MissInv
  <2>2. PICK R \in (SUBSET S) \ {{}} : \A t \in R : \E o \in R : <<t, o>> \in ThreadEdges
    BY DEF Cyclic
  <2>3. \A t \in R : \E o \in R : o \in waits_for[t]
    <3> SUFFICES ASSUME NEW t \in R PROVE \E o \in R : o \in waits_for[t]
      OBVIOUS
    <3>1. PICK o \in R : <<t, o>> \in ThreadEdges
      BY <2>2
    <3>2. <<t, o>>[1] = t /\ <<t, o>>[2] = o
      OBVIOUS
    <3> QED
      BY <3>1, <3>2 DEF ThreadEdges
  <2>4. ASSUME NEW t \in R
        PROVE  groups[t] \in Threads /\ \E o \in R : groups[o] \in group_wait_graph[groups[t]]
    <3>1. PICK o \in R : o \in waits_for[t]
      BY <2>3
    <3>2. waits_for[o] # {} /\ groups[t] # groups[o] /\ t \in Threads
      BY <2>3, <3>1
    <3> QED
      BY <2>1, <3>1, <3>2 DEF StartInv
  <2> DEFINE G == {groups[t] : t \in R}
  <2>5. G \in SUBSET Threads /\ G # {}
    BY <2>2, <2>4
  <2>6. \A g \in G : group_wait_graph[g] \cap G # {}
    BY <2>4
  <2> HIDE DEF G
  <2> QED
    BY <2>1, <2>5, <2>6 DEF GroupHasCycle
<1> QED
  BY <1>1, GroupInvariant, PTL

(* expand_group_cycle_to_threads never needs its fallback: each thread it  *)
(* chooses waits for a thread of the next group.                           *)
THEOREM ExpansionWaits == GroupSpec => []ThreadsFollowGroups
<1>1. GroupInv => ThreadsFollowGroups
  BY DEF GroupInv, ChosenInv
<1> QED
  BY <1>1, GroupInvariant, PTL

(* What is known of the victim of each place of the cycle when they are    *)
(* selected. *)
LEMMA VictimOf ==
    ASSUME GroupInv, gpc = "found", NEW i \in 1..Len(group_cycle)
    PROVE  LET g == group_cycle[i]
               h == group_cycle[(i % Len(group_cycle)) + 1]
           IN  /\ g \in Threads /\ h \in Range(group_cycle) \ {g}
               /\ victims[g] \in Members(g)
               /\ \E o \in waits_for[victims[g]] :
                    groups[o] = h /\ thread_locks[o] \subseteq locks_held(h)
<1> DEFINE j == (i % Len(group_cycle)) + 1
           g == group_cycle[i]
           h == group_cycle[j]
           v == thread_cycle[i]
<1>1. /\ GroupTypes /\ StartInv /\ ChosenInv /\ IsGroupCycle(group_cycle)
      /\ Len(thread_cycle) = Len(group_cycle) /\ victims[g] = v
  BY DEF GroupInv, ChosenInv
<1>2. /\ j \in 1..Len(group_cycle) /\ g \in Threads /\ h \in Threads /\ g # h
  BY <1>1, CyclePlaces
<1>3. v \in WaitersInto(g, h)
  BY <1>1 DEF ChosenInv, ThreadsFollowGroups
<1>4. h \in Range(group_cycle)
  <2>1. DOMAIN group_cycle = 1..Len(group_cycle)
    BY <1>1, LenProperties DEF GroupTypes
  <2> QED
    BY <1>2, <2>1 DEF Range
<1> HIDE DEF g, h, v, j
<1>5. v \in Members(g) /\ v \in Threads
  BY <1>3 DEF WaitersInto, Members
<1>6. PICK o \in waits_for[v] : groups[o] = h
  BY <1>3 DEF WaitersInto
<1>7. o \in Members(h)
  BY <1>1, <1>5, <1>6 DEF StartInv, Members
<1>8. thread_locks[o] \subseteq locks_held(h)
  BY <1>7 DEF locks_held
<1> QED
  BY <1>1, <1>2, <1>4, <1>5, <1>6, <1>8 DEF g, h, v, j

LEMMA PlaceInCycle ==
    ASSUME GroupTypes, NEW g \in Range(group_cycle)
    PROVE  \E i \in 1..Len(group_cycle) : group_cycle[i] = g
<1>1. DOMAIN group_cycle = 1..Len(group_cycle)
  BY LenProperties DEF GroupTypes
<1> QED
  BY <1>1 DEF Range

(* detect_group_deadlock selects one victim of each group of the cycle,    *)
(* and each waits for a thread of another group of it.                     *)
THEOREM VictimsDoWait == GroupSpec => []VictimsWait
<1>1. GroupInv => VictimsWait
  <2> SUFFICES ASSUME GroupInv, gpc = "found", NEW g \in Range(group_cycle)
               PROVE  /\ groups[victims[g]] = g
                      /\ \E o \in waits_for[victims[g]] : groups[o] \in Range(group_cycle) \ {g}
    BY DEF VictimsWait
  <2>1. PICK i \in 1..Len(group_cycle) : group_cycle[i] = g
    BY PlaceInCycle DEF GroupInv
  <2> QED
    BY <2>1, VictimOf DEF Members
<1> QED
  BY <1>1, GroupInvariant, PTL

(* The locks resolve_group_deadlock collects, those the groups of the cycle*)
(* hold, include one each victim waits at, if a lock is recorded behind    *)
(* each of its edges.                                                      *)
THEOREM ReleaseReachesVictims == GroupSpec => []UnlocksFreeVictims
<1>1. GroupInv => UnlocksFreeVictims
  <2> SUFFICES ASSUME GroupInv, gpc = "found", NEW g \in Range(group_cycle),
                      \A o \in waits_for[victims[g]] :
                          wait_start_times[victims[g]] \cap thread_locks[o] # {}
               PROVE  wait_start_times[victims[g]] \cap all_locks # {}
    BY DEF UnlocksFreeVictims
  <2>1. PICK i \in 1..Len(group_cycle) : group_cycle[i] = g
    BY PlaceInCycle DEF GroupInv
  <2>2. PICK h \in Range(group_cycle) :
            \E o \in waits_for[victims[g]] : thread_locks[o] \subseteq locks_held(h)
    BY <2>1, VictimOf
  <2>3. locks_held(h) \subseteq all_locks
    BY DEF all_locks
  <2> QED
    BY <2>2, <2>3
<1> QED
  BY <1>1, GroupInvariant, PTL

(* find_group_cycles implements the search contract on the graph of        *)
(* groups, which it leaves alone: it answers once, and a cycle is returned *)
(* if and only if there is one.  That it answers at all is not said here.  *)
THEOREM GroupImplementsContract == GroupSpec => Contract!ContractSpec
<1>1. GroupInit => Contract!ContractInit
  <2> SUFFICES ASSUME GroupInit PROVE Contract!ContractInit
    OBVIOUS
  <2>1. gpc = "groups" /\ group_wait_graph \in [Threads -> SUBSET Threads]
    BY StartIsGood DEF StartInv, GroupInit
  <2> QED
    BY <2>1 DEF Contract!ContractInit, Contract!Graphs, GroupAnswer
<1>2. GroupInv /\ GroupInv' /\ [GroupNext]_groupvars => [Contract!ContractNext]_(Contract!contract)
  <2> SUFFICES ASSUME GroupInv, GroupInv', [GroupNext]_groupvars
               PROVE  [Contract!ContractNext]_(Contract!contract)
    OBVIOUS
  <2>1. CASE gpc' = gpc /\ UNCHANGED group_wait_graph
    BY <2>1 DEF Contract!contract, GroupAnswer
  <2>2. CASE gpc \in {"groups", "dfs"} /\ gpc' \in {"groups", "dfs"} /\ UNCHANGED group_wait_graph
    BY <2>2 DEF Contract!contract, GroupAnswer
  <2>3. CASE ReturnCycle
    <3>1. gpc = "groups" /\ gpc' \in {"none", "expand"} /\ UNCHANGED group_wait_graph
      BY <2>3 DEF ReturnCycle, grouping
    <3>2. gpc' = "none" => ~ GroupHasCycle
      BY <3>1 DEF GroupInv, MissInv, GroupHasCycle
    <3>3. gpc' = "expand" => GroupHasCycle
      <4> SUFFICES ASSUME gpc' = "expand" PROVE GroupHasCycle
        OBVIOUS
      <4>1. (GroupTypes /\ IsGroupCycle(group_cycle))'
        BY DEF GroupInv, ChosenInv
      <4>2. group_cycle' \in Seq(Threads) /\ IsGroupCycle(group_cycle')
        BY <3>1, <4>1 DEF GroupTypes, IsGroupCycle
      <4> QED
        BY <4>2, CycleOfGroups
    <3>4. GroupHasCycle <=> Contract!HasCycle(group_wait_graph)
      BY DEF GroupHasCycle, Contract!HasCycle
    <3>5. Contract!Answer
      BY <3>1, <3>2, <3>3, <3>4 DEF Contract!Answer, GroupAnswer
    <3> QED
      BY <3>5 DEF Contract!ContractNext
  <2>4. CASE gpc \in {"expand", "victims"} /\ gpc' \in {"expand", "victims", "found"}
             /\ UNCHANGED group_wait_graph
    BY <2>4 DEF Contract!contract, GroupAnswer
  <2>5. ASSUME NEW g \in Threads,
               NextGroup(g) \/ Explore(g) \/ CloseGroupCycle(g) \/ PassGroup(g)
        PROVE  gpc \in {"groups", "dfs"} /\ gpc' \in {"groups", "dfs"} /\ UNCHANGED group_wait_graph
    BY <2>5 DEF NextGroup, Explore, CloseGroupCycle, PassGroup, grouping
  <2>6. CASE Leave
    BY <2>2, <2>6 DEF Leave, grouping
  <2>7. CASE Expand \/ SelectVictims
    BY <2>4, <2>7 DEF Expand, SelectVictims, grouping
  <2>8. CASE UNCHANGED groupvars
    BY <2>1, <2>8 DEF groupvars, grouping
  <2> QED
    BY <2>2, <2>3, <2>5, <2>6, <2>7, <2>8 DEF GroupNext
<1> QED
  BY <1>1, <1>2, GroupInvariant, PTL DEF GroupSpec, Contract!ContractSpec

(* The graph is that of the grouping from beginning to end. *)
GraphInv == group_wait_graph = [g \in Threads |-> {h \in Threads : <<g, h>> \in GroupEdges(groups)}]

LEMMA GraphStays == GroupSpec => []GraphInv
<1>1. GroupInit => GraphInv
  BY DEF GroupInit, GraphInv
<1>2. GraphInv /\ [GroupNext]_groupvars => GraphInv'
  <2> SUFFICES ASSUME GraphInv, [GroupNext]_groupvars
               PROVE  GraphInv'
    OBVIOUS
  <2>1. UNCHANGED <<vars, grouping>>
    BY DEF GroupNext, NextGroup, Explore, CloseGroupCycle, PassGroup, Leave, ReturnCycle, Expand,
           SelectVictims, groupvars
  <2>2. groups' = groups /\ group_wait_graph' = group_wait_graph /\ waits_for' = waits_for
    BY <2>1 DEF vars, maps, grouping
  <2>3. GroupEdges(groups)' = GroupEdges(groups)
    BY <2>2 DEF GroupEdges
  <2> QED
    BY <2>2, <2>3 DEF GraphInv
<1> QED
  BY <1>1, <1>2, PTL DEF GroupSpec

LEMMA SameCycles ==
    ASSUME GraphInv
    PROVE  Cyclic(Threads, GroupEdges(groups)) <=> GroupHasCycle
<1>1. \A S \in SUBSET Threads : \A n \in S :
         (\E m \in S : <<n, m>> \in GroupEdges(groups)) <=> group_wait_graph[n] \cap S # {}
  BY DEF GraphInv
<1> QED
  BY <1>1 DEF Cyclic, GroupHasCycle

(* The victims are the threads of the expansion, one of each group, each   *)
(* waiting for a thread of the next.                                       *)
LEMMA VictimsAreAChoice ==
    ASSUME GroupInv, gpc = "found", NEW order \in Orders, groups = analyze_conflict_groups(order)
    PROVE  {victims[g] : g \in Range(group_cycle)} \in GroupVictims(order)
<1> DEFINE n == Len(group_cycle)
           V == {victims[g] : g \in Range(group_cycle)}
           Follows(c, i) == \E o \in waits_for[c[i]] : groups[o] = groups[c[(i % Len(c)) + 1]]
<1>1. /\ GroupTypes /\ StartInv /\ ChosenInv /\ IsGroupCycle(group_cycle)
      /\ Len(thread_cycle) = n
      /\ \A i \in 1..n : victims[group_cycle[i]] = thread_cycle[i]
  BY DEF GroupInv, ChosenInv
<1>2. /\ n \in Nat /\ n >= 2 /\ DOMAIN group_cycle = 1..n /\ DOMAIN thread_cycle = 1..n
      /\ thread_cycle \in Seq(Threads)
  BY <1>1, LenProperties DEF GroupTypes, IsGroupCycle
<1>3. V = {thread_cycle[i] : i \in 1..n}
  BY <1>1, <1>2 DEF Range
<1>4. \A i \in 1..n : thread_cycle[i] \in Threads /\ groups[thread_cycle[i]] = group_cycle[i]
  BY <1>1, ExpansionPlaces
<1>5. \A i, j \in 1..n : groups[thread_cycle[i]] = groups[thread_cycle[j]] => i = j
  BY <1>1, <1>2, <1>4 DEF IsGroupCycle, IsInjective
<1>6. ASSUME NEW i \in 1..n
      PROVE  Follows(thread_cycle, i)
  <2>1. (i % n) + 1 \in 1..n
    BY <1>1, CyclePlaces
  <2>2. PICK o \in waits_for[thread_cycle[i]] : groups[o] = group_cycle[(i % n) + 1]
    BY <1>1 DEF ChosenInv, ThreadsFollowGroups, WaitersInto
  <2>3. groups[thread_cycle[(i % n) + 1]] = group_cycle[(i % n) + 1]
    BY <1>4, <2>1
  <2> QED
    BY <1>1, <2>2, <2>3
<1> HIDE DEF V, n, Follows
<1>7. thread_cycle \in Bijection(1..n, V)
  <2>1. thread_cycle \in [1..n -> V]
    <3>1. \A i \in 1..n : thread_cycle[i] \in V
      BY <1>3
    <3> QED
      BY <1>2, <3>1
  <2>2. \A i, j \in 1..n : thread_cycle[i] = thread_cycle[j] => i = j
    BY <1>5
  <2>3. \A v \in V : \E i \in 1..n : thread_cycle[i] = v
    BY <1>3
  <2> QED
    BY <2>1, <2>2, <2>3 DEF Bijection, Injection, Surjection, IsInjective
<1>8. IsFiniteSet(V) /\ Cardinality(V) = n
  <2>1. IsFiniteSet(1..n) /\ Cardinality(1..n) = n
    <3>1. 1 \in Int /\ n \in Int
      BY <1>2
    <3> QED
      BY <1>2, <3>1, FS_Interval
  <2>2. ExistsBijection(1..n, V)
    BY <1>7 DEF ExistsBijection
  <2> QED
    BY <2>1, <2>2, FS_Bijection
<1>9. thread_cycle \in SetToSeqs(V)
  <2>1. thread_cycle \in [1..n -> V] /\ \A i, j \in 1..n : i # j => thread_cycle[i] # thread_cycle[j]
    BY <1>5, <1>7 DEF Bijection, Injection
  <2> QED
    BY <1>8, <2>1 DEF SetToSeqs
<1>10. \A i \in 1..Len(thread_cycle) : Follows(thread_cycle, i)
  BY <1>1, <1>6 DEF n
<1>11. V \in SUBSET Threads /\ \A t, u \in V : groups[t] = groups[u] => t = u
  BY <1>3, <1>4, <1>5
<1>12. Cardinality(V) >= 2
  BY <1>2, <1>8
<1> QED
  BY <1>9, <1>10, <1>11, <1>12 DEF GroupVictims, Follows, V

(* detect_group_deadlock has no other outcome than the one step Detection  *)
(* takes for it: it reports a deadlock if and only if the grouping has a   *)
(* cycle of groups, and its victims are one of the choices allowed.        *)
THEOREM OneStepIsRight == GroupSpec => []OneStepOutcome
<1>1. GroupInv /\ GraphInv => OneStepOutcome
  <2> SUFFICES ASSUME GroupInv, GraphInv, NEW order \in Orders,
                      groups = analyze_conflict_groups(order)
               PROVE  /\ gpc = "none" => ~ GroupCycle(order)
                      /\ gpc = "found" =>
                           /\ GroupCycle(order)
                           /\ {victims[g] : g \in Range(group_cycle)} \in GroupVictims(order)
    BY DEF OneStepOutcome
  <2>1. GroupCycle(order) <=> GroupHasCycle
    BY SameCycles DEF GroupCycle
  <2>2. gpc = "none" => ~ GroupHasCycle
    BY DEF GroupInv, MissInv
  <2>3. gpc = "found" => GroupHasCycle
    BY CycleOfGroups DEF GroupInv, GroupTypes, ChosenInv
  <2> QED
    BY <2>1, <2>2, <2>3, VictimsAreAChoice
<1> QED
  BY <1>1, GroupInvariant, GraphStays, PTL

(* The grouping does not change during a search. *)
LEMMA GroupingStays ==
    ASSUME [GroupNext]_groupvars
    PROVE  groups' = groups /\ thread_locks' = thread_locks /\ waits_for' = waits_for
           /\ wait_keys' = wait_keys
<1>1. UNCHANGED <<vars, grouping>>
  BY DEF GroupNext, NextGroup, Explore, CloseGroupCycle, PassGroup, Leave, ReturnCycle, Expand,
         SelectVictims, groupvars
<1> QED
  BY <1>1 DEF vars, maps, grouping

(* Whatever order the hash map came in, the groups are stars of threads    *)
(* around their openers, no two of which share a lock, and hold every      *)
(* thread that holds or waits (analyze_conflict_groups, phase 1).          *)
THEOREM GroupingIsGreedy == GroupSpec => []GroupsAreStars
<1>1. GroupInit => GroupsAreStars
  <2> SUFFICES ASSUME GroupInit PROVE GroupsAreStars
    OBVIOUS
  <2>1. PICK order \in Orders : groups = analyze_conflict_groups(order)
    BY DEF GroupInit
  <2> QED
    BY <2>1, GroupingIsStars DEF GroupsAreStars
<1>2. GroupsAreStars /\ [GroupNext]_groupvars => GroupsAreStars'
  BY GroupingStays DEF GroupsAreStars, Holders, SharesLock
<1> QED
  BY <1>1, <1>2, PTL DEF GroupSpec

(* While no lock has two holders, a deadlock of groups is a deadlock of    *)
(* the threads it is expanded to: each waits for the next                  *)
(* (expand_group_cycle_to_threads).                                        *)
THEOREM UnsharedIsDeadlock == GroupSpec => []UnsharedIsThreadCycle
<1>1. GroupInv /\ GroupsAreStars => UnsharedIsThreadCycle
  <2> SUFFICES ASSUME GroupInv, GroupsAreStars, gpc = "found",
                      \A t, u \in Threads : t # u => ~ SharesLock(t, u),
                      NEW i \in 1..Len(thread_cycle)
               PROVE  thread_cycle[(i % Len(thread_cycle)) + 1] \in waits_for[thread_cycle[i]]
    BY DEF UnsharedIsThreadCycle
  <2> DEFINE n == Len(group_cycle)
             next == thread_cycle[(i % n) + 1]
  <2>1. /\ GroupTypes /\ StartInv /\ ChosenInv /\ IsGroupCycle(group_cycle)
        /\ Len(thread_cycle) = n /\ i \in 1..n
    BY DEF GroupInv, ChosenInv
  <2>2. \A j \in 1..n : thread_cycle[j] \in Threads /\ groups[thread_cycle[j]] = group_cycle[j]
    BY <2>1, ExpansionPlaces
  <2>3. (i % n) + 1 \in 1..n
    BY <2>1, CyclePlaces
  <2>4. PICK o \in waits_for[thread_cycle[i]] : groups[o] = group_cycle[(i % n) + 1]
    BY <2>1 DEF ChosenInv, ThreadsFollowGroups, WaitersInto
  <2>5. next \in Threads /\ groups[next] = groups[o]
    BY <2>2, <2>3, <2>4
  <2>6. group_cycle[(i % n) + 1] \in Threads
    BY <2>1, <2>3, ElementOfSeq DEF GroupTypes
  <2>7. o \in Threads
    BY <2>1, <2>2 DEF StartInv
  <2> HIDE DEF next, n
  <2>8. \A t \in Threads : groups[t] \in Threads => groups[t] = t
    BY NoThreadAssumption DEF GroupsAreStars
  <2>9. groups[o] \in Threads
    BY <2>4, <2>6
  <2>10. next = o
    BY <2>5, <2>7, <2>8, <2>9
  <2> QED
    BY <2>1, <2>4, <2>10 DEF next
<1> QED
  BY <1>1, GroupInvariant, GroupingIsGreedy, PTL

=============================================================================
