-------------------------- MODULE SysbusListProofs --------------------------
(***************************************************************************)
(* The pointer invariant of SysbusList, the correctness of its label test  *)
(* and the refinement of SeqLists, for any number of lists and nodes.      *)
(***************************************************************************)
EXTENDS SysbusList, TLAPS, FiniteSetTheorems

LocalInv == TypeOK /\ WellLinked /\ Labelled

\* Initially every node is a ring of its own.
LEMMA InitListInv == Init => ListInv
<1> SUFFICES ASSUME Init PROVE ListInv
  OBVIOUS
<1>1. LocalInv
  BY ListAssumption DEF Init, LocalInv, TypeOK, WellLinked, Labelled, Nodes
<1>2. LabelReached
  BY ListAssumption DEF Init, LabelReached, Members, Nodes
<1> QED
  BY <1>1, <1>2 DEF ListInv, LocalInv

\* list_insert_after keeps the local part of the invariant.
LEMMA InsertAfterLocal ==
  ASSUME LocalInv, NEW l \in Heads, NEW n \in Items, list_insert_after(l, n)
  PROVE  LocalInv'
<1> USE ListAssumption DEF LocalInv, list_insert_after, list_isempty, Nodes
<1>1. TypeOK'
  BY DEF TypeOK
<1>2. WellLinked'
  BY DEF TypeOK, WellLinked, Labelled
<1>3. Labelled'
  BY DEF TypeOK, WellLinked, Labelled
<1> QED
  BY <1>1, <1>2, <1>3

\* list_insert_before keeps the local part of the invariant.
LEMMA InsertBeforeLocal ==
  ASSUME LocalInv, NEW l \in Heads, NEW n \in Items, list_insert_before(l, n)
  PROVE  LocalInv'
<1> USE ListAssumption DEF LocalInv, list_insert_before, list_isempty, Nodes
<1>1. TypeOK'
  BY DEF TypeOK
<1>2. WellLinked'
  BY DEF TypeOK, WellLinked, Labelled
<1>3. Labelled'
  BY DEF TypeOK, WellLinked, Labelled
<1> QED
  BY <1>1, <1>2, <1>3

\* list_remove keeps the local part of the invariant.
LEMMA RemoveLocal ==
  ASSUME LocalInv, NEW n \in Items, list_remove(n)
  PROVE  LocalInv'
<1> USE ListAssumption DEF LocalInv, list_remove, Nodes
<1>1. TypeOK'
  BY DEF TypeOK
<1>2. WellLinked'
  BY DEF TypeOK, WellLinked, Labelled
<1>3. Labelled'
  BY DEF TypeOK, WellLinked, Labelled
<1> QED
  BY <1>1, <1>2, <1>3

\* How LabelReached is used: a set that holds a head and is closed under
\* next holds every node with the label of that head.
LEMMA ReachedIn ==
  ASSUME LabelReached, NEW l \in Heads, NEW k \in Nodes, head[k] = l,
         NEW T \in SUBSET Nodes, l \in T, \A m \in T : next[m] \in T
  PROVE  k \in T
  BY DEF LabelReached, Members, ClosedUnderNext

\* Unlinking n keeps every other labelled node reachable: a set closed under
\* the new next pointers, with n added behind its old predecessor, is closed
\* under the old ones.
LEMMA RemoveReached ==
  ASSUME ListInv, NEW n \in Items, list_remove(n)
  PROVE  LabelReached'
<1> SUFFICES ASSUME NEW l \in Heads, NEW k \in Nodes, head'[k] = l,
                    NEW S \in SUBSET Nodes, l \in S,
                    \A m \in S : next'[m] \in S
             PROVE  k \in S
  BY DEF LabelReached, Members, ClosedUnderNext, Nodes
<1> DEFINE T == (S \ {n}) \cup {m \in {n} : prev[n] \in S}
<1>1. T \in SUBSET Nodes /\ l \in T
  BY ListAssumption DEF Nodes
<1>2. \A m \in T : next[m] \in T
  BY DEF ListInv, TypeOK, WellLinked, list_remove, Nodes
<1>3. k # n /\ head[k] = l
  BY ListAssumption DEF ListInv, TypeOK, list_remove, Nodes
<1>4. k \in T
  <2> HIDE DEF T
  <2> QED
    BY <1>1, <1>2, <1>3, ReachedIn DEF ListInv
<1> QED
  BY <1>3, <1>4

\* A set closed under the new pointers holds the inserted node n exactly
\* behind its place; without n it is closed under the old pointers.
LEMMA InsertAfterReached ==
  ASSUME ListInv, NEW l0 \in Heads, NEW n \in Items, list_insert_after(l0, n)
  PROVE  LabelReached'
<1> SUFFICES ASSUME NEW l \in Heads, NEW k \in Nodes, head'[k] = l,
                    NEW S \in SUBSET Nodes, l \in S,
                    \A m \in S : next'[m] \in S
             PROVE  k \in S
  BY DEF LabelReached, Members, ClosedUnderNext, Nodes
<1> DEFINE T == S \ {n}
<1>1. T \in SUBSET Nodes /\ l \in T
  BY ListAssumption DEF Nodes
<1>2. \A m \in T : next[m] \in T
  BY ListAssumption
     DEF ListInv, TypeOK, WellLinked, list_insert_after, list_isempty, Nodes
<1>3. CASE k = n
  BY <1>3, ListAssumption
     DEF ListInv, TypeOK, Labelled, list_insert_after, Nodes
<1>4. CASE k # n
  <2>1. head[k] = l
    BY <1>4 DEF ListInv, TypeOK, list_insert_after, Nodes
  <2>2. k \in T
    <3> HIDE DEF T
    <3> QED
      BY <1>1, <1>2, <2>1, ReachedIn DEF ListInv
  <2> QED
    BY <2>2
<1> QED
  BY <1>3, <1>4

\* As above; the new node is reached through the old last node of the list.
LEMMA InsertBeforeReached ==
  ASSUME ListInv, NEW l0 \in Heads, NEW n \in Items, list_insert_before(l0, n)
  PROVE  LabelReached'
<1> SUFFICES ASSUME NEW l \in Heads, NEW k \in Nodes, head'[k] = l,
                    NEW S \in SUBSET Nodes, l \in S,
                    \A m \in S : next'[m] \in S
             PROVE  k \in S
  BY DEF LabelReached, Members, ClosedUnderNext, Nodes
<1> DEFINE T == S \ {n}
<1>1. T \in SUBSET Nodes /\ l \in T
  BY ListAssumption DEF Nodes
<1>2. \A m \in T : next[m] \in T
  BY ListAssumption
     DEF ListInv, TypeOK, WellLinked, list_insert_before, list_isempty, Nodes
<1>3. \A j \in Nodes : head[j] = l => j \in T
  <2> HIDE DEF T
  <2> QED
    BY <1>1, <1>2, ReachedIn DEF ListInv
<1>4. CASE k = n
  <2>1. l = l0 /\ prev[l0] \in Nodes /\ head[prev[l0]] = l0
    BY <1>4, ListAssumption
       DEF ListInv, TypeOK, WellLinked, Labelled, list_insert_before, Nodes
  <2>2. prev[l0] \in S
    BY <1>3, <2>1
  <2>3. next'[prev[l0]] = n
    BY <2>1, ListAssumption DEF ListInv, TypeOK, WellLinked, list_insert_before, list_isempty, Nodes
  <2> QED
    BY <1>4, <2>2, <2>3
<1>5. CASE k # n
  BY <1>3, <1>5 DEF ListInv, TypeOK, list_insert_before, Nodes
<1> QED
  BY <1>4, <1>5

\* Every list operation keeps the pointers of all lists consistent.
THEOREM ListInvariance == Spec => []ListInv
<1>1. ListInv /\ [Next]_vars => ListInv'
  <2> SUFFICES ASSUME ListInv, [Next]_vars PROVE ListInv'
    OBVIOUS
  <2>0. LocalInv
    BY DEF ListInv, LocalInv
  <2>1. ASSUME NEW n \in Items, list_remove(n) PROVE ListInv'
    BY <2>0, <2>1, RemoveLocal, RemoveReached DEF ListInv, LocalInv
  <2>2. ASSUME NEW n \in Items, NEW l \in Heads, list_insert_after(l, n)
        PROVE  ListInv'
    BY <2>0, <2>2, InsertAfterLocal, InsertAfterReached DEF ListInv, LocalInv
  <2>3. ASSUME NEW n \in Items, NEW l \in Heads, list_insert_before(l, n)
        PROVE  ListInv'
    BY <2>0, <2>3, InsertBeforeLocal, InsertBeforeReached DEF ListInv, LocalInv
  <2>4. CASE UNCHANGED vars
    BY <2>4 DEF vars, ListInv, TypeOK, WellLinked, Labelled, LabelReached,
                Members, ClosedUnderNext
  <2> QED
    BY <2>1, <2>2, <2>3, <2>4 DEF Next
<1> QED
  BY InitListInv, <1>1, PTL DEF Spec

\* The constant-time test of list_contains_node is membership in the list:
\* what multiplex_io_thread asks before it touches a reported handle.
THEOREM ContainsCorrect == Spec => []ContainsIsMembership
<1>1. ListInv => ContainsIsMembership
  <2> SUFFICES ASSUME ListInv, NEW l \in Heads, NEW n \in Items
               PROVE  head[n] = head[l] <=> n \in Members(l)
    BY DEF ContainsIsMembership, list_contains_node
  <2>1. head[l] = l
    BY DEF ListInv, Labelled
  <2>2. head[n] = l => n \in Members(l)
    BY DEF ListInv, LabelReached, Nodes
  <2>3. n \in Members(l) => head[n] = l
    <3> DEFINE S == {m \in Nodes : head[m] = l}
    <3>1. S \in SUBSET Nodes /\ l \in S /\ ClosedUnderNext(S)
      BY <2>1 DEF ListInv, TypeOK, Labelled, ClosedUnderNext, Nodes
    <3>2. n \in Members(l) => n \in S
      <4> HIDE DEF S
      <4> QED
        BY <3>1 DEF Members
    <3> QED
      BY <3>2
  <2> QED
    BY <2>1, <2>2, <2>3
<1> QED
  BY <1>1, ListInvariance, PTL
-----------------------------------------------------------------------------
(***************************************************************************)
(* The lists as sequences.                                                 *)
(***************************************************************************)

\* The members of a sequence.
LEMMA ElementOfSeq ==
  ASSUME NEW S, NEW s \in Seq(S), NEW n \in 1..Len(s)
  PROVE  s[n] \in S
  OBVIOUS

\* Sequences are equal if they have the same length and the same members.
LEMMA SeqEqual ==
  ASSUME NEW S, NEW s \in Seq(S), NEW t \in Seq(S), Len(s) = Len(t),
         \A i \in 1..Len(s) : s[i] = t[i]
  PROVE  s = t
  OBVIOUS

\* What stands where in s \o t.
LEMMA ConcatProperties ==
  ASSUME NEW S, NEW s \in Seq(S), NEW t \in Seq(S)
  PROVE  /\ s \o t \in Seq(S) /\ Len(s \o t) = Len(s) + Len(t)
         /\ \A i \in 1..(Len(s) + Len(t)) : (s \o t)[i] = IF i <= Len(s) THEN s[i] ELSE t[i - Len(s)]
  OBVIOUS

\* What stands where in Append(s, e).
LEMMA AppendProperties ==
  ASSUME NEW S, NEW s \in Seq(S), NEW e \in S
  PROVE  /\ Append(s, e) \in Seq(S) /\ Len(Append(s, e)) = Len(s) + 1
         /\ \A i \in 1..Len(s) : Append(s, e)[i] = s[i]
         /\ Append(s, e)[Len(s) + 1] = e
  OBVIOUS

\* A set of natural numbers that is not empty has a least member.
LEMMA LeastNatural ==
  ASSUME NEW S \in SUBSET Nat, S # {}
  PROVE  \E n \in S : \A m \in S : n <= m
<1> DEFINE R == OpToRel(<, Nat)
<1>1. IsWellFoundedOn(R, Nat)
  BY NatLessThanWellFounded
<1> HIDE DEF R
<1>2. PICK n \in S : \A m \in S : ~(<<m, n>> \in R)
  BY <1>1, WFMin
<1>3. ASSUME NEW m \in S PROVE n <= m
  <2>1. m \in Nat /\ n \in Nat
    OBVIOUS
  <2>2. m < n => <<m, n>> \in R
    BY <2>1 DEF R, OpToRel
  <2> QED
    BY <1>2, <2>1, <2>2
<1> QED
  BY <1>3

\* Two walks from the same head agree as far as both go.
LEMMA WalksAgree ==
  ASSUME NEW nx, NEW l \in Heads, NEW q \in Seq(Items), NEW r \in Seq(Items),
         IsWalk(nx, l, q), IsWalk(nx, l, r)
  PROVE  \A k \in 1..Len(q) : k <= Len(r) => q[k] = r[k]
<1> DEFINE S == {k \in 1..Len(q) : k <= Len(r) /\ q[k] # r[k]}
<1> SUFFICES ASSUME S # {} PROVE FALSE
  OBVIOUS
<1>1. S \in SUBSET Nat
  OBVIOUS
<1>2. PICK k \in S : \A m \in S : k <= m
  <2> HIDE DEF S
  <2> QED BY <1>1, LeastNatural
<1>3. k \in 1..Len(q) /\ k \in 1..Len(r) /\ q[k] # r[k] /\ k - 1 \in 0..Len(q) /\ k - 1 \in 0..Len(r)
  OBVIOUS
<1>4. Stop(l, q, k - 1) = Stop(l, r, k - 1)
  <2>1. CASE k = 1
    BY <2>1 DEF Stop
  <2>2. CASE k # 1
    <3>1. k - 1 \in 1..Len(q) /\ k - 1 \in 1..Len(r) /\ ~(k <= k - 1)
      BY <1>3, <2>2
    <3>2. k - 1 \notin S
      <4> HIDE DEF S
      <4> QED BY <1>2, <3>1
    <3>3. q[k - 1] = r[k - 1]
      BY <3>1, <3>2
    <3> QED
      BY <3>1, <3>3 DEF Stop
  <2> QED
    BY <2>1, <2>2
<1>5. Stop(l, q, (k - 1) + 1) = Stop(l, r, (k - 1) + 1)
  BY <1>3, <1>4 DEF IsWalk
<1>6. (k - 1) + 1 = k
  BY <1>3
<1> QED
  BY <1>3, <1>5, <1>6 DEF Stop

\* A walk comes back to its head the first time it meets it.
LEMMA WalkNotLonger ==
  ASSUME NEW nx, NEW l \in Heads, NEW q \in Seq(Items), NEW r \in Seq(Items),
         IsWalk(nx, l, q), IsWalk(nx, l, r)
  PROVE  Len(r) <= Len(q)
<1> SUFFICES ASSUME Len(q) < Len(r) PROVE FALSE
  OBVIOUS
<1>1. Len(q) \in 0..Len(q) /\ Len(q) \in 0..Len(r) /\ Len(q) + 1 \in 1..Len(r) /\ Len(q) + 1 \notin 1..Len(q)
  OBVIOUS
<1>2. Stop(l, q, Len(q)) = Stop(l, r, Len(q))
  BY WalksAgree, <1>1 DEF Stop
<1>3. Stop(l, q, Len(q) + 1) = Stop(l, r, Len(q) + 1)
  BY <1>1, <1>2 DEF IsWalk
<1>4. l = r[Len(q) + 1]
  BY <1>1, <1>3 DEF Stop
<1> QED
  BY <1>1, <1>4, ElementOfSeq, ListAssumption

\* There is one walk from a head.
LEMMA WalkUnique ==
  ASSUME NEW nx, NEW l \in Heads, NEW q \in Seq(Items), NEW r \in Seq(Items),
         IsWalk(nx, l, q), IsWalk(nx, l, r)
  PROVE  q = r
<1>1. Len(q) = Len(r)
  <2>1. Len(q) <= Len(r) /\ Len(r) <= Len(q)
    BY WalkNotLonger
  <2> QED
    BY <2>1
<1> QED
  BY <1>1, WalksAgree, SeqEqual

\* Two different nodes have different successors.
OneToOne(nx) == \A m, n \in Nodes : nx[m] = nx[n] => m = n

\* No item is met twice.
LEMMA WalkInjective ==
  ASSUME NEW nx, OneToOne(nx), NEW l \in Heads, NEW q \in Seq(Items), IsWalk(nx, l, q)
  PROVE  \A i, j \in 1..Len(q) : q[i] = q[j] => i = j
<1> DEFINE S == {i \in 1..Len(q) : \E j \in 1..Len(q) : i < j /\ q[i] = q[j]}
<1>1. S \in SUBSET Nat
  OBVIOUS
<1>2. ASSUME S # {} PROVE FALSE
  <2>1. PICK i \in S : \A m \in S : i <= m
    <3> HIDE DEF S
    <3> QED BY <1>1, <1>2, LeastNatural
  <2>2. PICK j \in 1..Len(q) : i < j /\ q[i] = q[j]
    OBVIOUS
  <2>3. /\ i \in 1..Len(q) /\ i - 1 \in 0..Len(q) /\ j - 1 \in 0..Len(q) /\ j - 1 \in 1..Len(q)
        /\ (i - 1) + 1 = i /\ (j - 1) + 1 = j
    BY <2>2
  <2>4. Stop(l, q, i - 1) \in Nodes /\ Stop(l, q, j - 1) \in Nodes
    BY <2>3, ElementOfSeq DEF Stop, Nodes
  <2>5. nx[Stop(l, q, i - 1)] = Stop(l, q, i) /\ nx[Stop(l, q, j - 1)] = Stop(l, q, j)
    BY <2>3 DEF IsWalk
  <2>6. Stop(l, q, i - 1) = Stop(l, q, j - 1)
    BY <2>2, <2>3, <2>4, <2>5 DEF OneToOne, Stop
  <2>7. Stop(l, q, j - 1) = q[j - 1] /\ q[j - 1] \in Items
    BY <2>3, ElementOfSeq DEF Stop
  <2>8. i # 1
    BY <2>3, <2>6, <2>7, ListAssumption DEF Stop
  <2>9. i - 1 \in 1..Len(q) /\ i - 1 < j - 1 /\ q[i - 1] = q[j - 1] /\ ~(i <= i - 1)
    BY <2>2, <2>3, <2>6, <2>7, <2>8 DEF Stop
  <2>10. i - 1 \in S
    BY <2>3, <2>9
  <2> QED
    BY <2>1, <2>9, <2>10
<1> QED
  BY <1>2

\* Linked in both directions, nodes with the same successor are the same.
LEMMA LinkedOneToOne ==
  ASSUME TypeOK, WellLinked
  PROVE  OneToOne(next)
  BY DEF TypeOK, WellLinked, OneToOne

\* The stops of a walk before its end are different nodes.
LEMMA StopsDiffer ==
  ASSUME NEW nx, OneToOne(nx), NEW l \in Heads, NEW q \in Seq(Items), IsWalk(nx, l, q)
  PROVE  /\ \A k \in Int : Stop(l, q, k) \in Nodes
         /\ \A i, j \in 0..Len(q) : Stop(l, q, i) = Stop(l, q, j) => i = j
<1>1. \A k \in 1..Len(q) : q[k] \in Items
  BY ElementOfSeq
<1>2. \A i, j \in 1..Len(q) : q[i] = q[j] => i = j
  BY WalkInjective
<1>3. Len(q) \in Nat
  OBVIOUS
<1> QED
  BY <1>1, <1>2, <1>3, ListAssumption DEF Stop, Nodes

\* A walk depends on the successors of its stops only.
LEMMA SameWalk ==
  ASSUME NEW nx, NEW ny, NEW l, NEW q, IsWalk(nx, l, q),
         \A k \in 0..Len(q) : ny[Stop(l, q, k)] = nx[Stop(l, q, k)]
  PROVE  IsWalk(ny, l, q)
  BY DEF IsWalk

Absent(n, q) == \A i \in 1..Len(q) : q[i] # n

\* A walk that does not meet an item does not meet the node before it.
LEMMA NotBefore ==
  ASSUME NEW nx, NEW l \in Heads, NEW q \in Seq(Items), IsWalk(nx, l, q),
         NEW n, n # l, Absent(n, q), NEW m, nx[m] = n
  PROVE  \A k \in 0..Len(q) : Stop(l, q, k) # m
<1> SUFFICES ASSUME NEW k \in 0..Len(q), Stop(l, q, k) = m PROVE FALSE
  OBVIOUS
<1>1. Stop(l, q, k + 1) = n
  BY DEF IsWalk
<1> QED
  BY <1>1 DEF Stop, Absent

\* A node that stands alone is met by no walk from a head.
LEMMA AloneIsAbsent ==
  ASSUME NEW nx, OneToOne(nx), NEW l \in Heads, NEW q \in Seq(Items), IsWalk(nx, l, q),
         NEW n \in Items, nx[n] = n
  PROVE  Absent(n, q)
<1> SUFFICES ASSUME NEW i \in 1..Len(q), q[i] = n PROVE FALSE
  BY DEF Absent
<1>1. i \in 0..Len(q) /\ i - 1 \in 0..Len(q) /\ (i - 1) + 1 = i /\ i # i - 1 /\ i \in Int /\ i - 1 \in Int
  OBVIOUS
<1>2. Stop(l, q, i) = n
  BY DEF Stop
<1>3. nx[Stop(l, q, i - 1)] = n
  BY <1>1, <1>2 DEF IsWalk
<1>4. Stop(l, q, i - 1) = n
  BY <1>1, <1>3, StopsDiffer DEF OneToOne, Nodes
<1> QED
  BY <1>1, <1>2, <1>4, StopsDiffer

\* An item is in one list at most: going back from it, two walks that meet it
\* come to the same head.
LEMMA WalksDisjoint ==
  ASSUME NEW nx, OneToOne(nx), NEW l \in Heads, NEW q \in Seq(Items), IsWalk(nx, l, q),
         NEW h \in Heads, NEW r \in Seq(Items), IsWalk(nx, h, r),
         NEW i0 \in 1..Len(q), NEW j0 \in 1..Len(r), q[i0] = r[j0]
  PROVE  l = h
<1> DEFINE S == {i \in 1..Len(q) : \E j \in 1..Len(r) : q[i] = r[j]}
<1>1. S \in SUBSET Nat /\ S # {}
  OBVIOUS
<1>2. PICK i \in S : \A m \in S : i <= m
  <2> HIDE DEF S
  <2> QED BY <1>1, LeastNatural
<1>3. PICK j \in 1..Len(r) : q[i] = r[j]
  OBVIOUS
<1>4. /\ i \in 1..Len(q) /\ i - 1 \in 0..Len(q) /\ j - 1 \in 0..Len(r)
      /\ (i - 1) + 1 = i /\ (j - 1) + 1 = j /\ i - 1 \in Int /\ j - 1 \in Int /\ ~(i <= i - 1)
  BY <1>3
<1>5. Stop(l, q, i) = q[i] /\ Stop(h, r, j) = r[j]
  BY <1>3, <1>4 DEF Stop
<1>6. nx[Stop(l, q, i - 1)] = nx[Stop(h, r, j - 1)]
  BY <1>3, <1>4, <1>5 DEF IsWalk
<1>7. Stop(l, q, i - 1) = Stop(h, r, j - 1)
  BY <1>4, <1>6, StopsDiffer DEF OneToOne
<1>8. i - 1 \notin S
  <2> HIDE DEF S
  <2> QED BY <1>2, <1>4
<1>9. i = 1 \/ (i - 1 \in 1..Len(q) /\ Stop(l, q, i - 1) = q[i - 1] /\ q[i - 1] \in Items)
  BY <1>4, ElementOfSeq DEF Stop
<1>10. j = 1 \/ (j - 1 \in 1..Len(r) /\ Stop(h, r, j - 1) = r[j - 1] /\ r[j - 1] \in Items)
  BY <1>4, ElementOfSeq DEF Stop
<1>11. (i = 1 => Stop(l, q, i - 1) = l) /\ (j = 1 => Stop(h, r, j - 1) = h)
  BY <1>4 DEF Stop
<1> QED
  BY <1>7, <1>8, <1>9, <1>10, <1>11, ListAssumption

\* list_remove leaves a walk that does not meet the node as it is.
LEMMA RemoveElsewhere ==
  ASSUME TypeOK, WellLinked, NEW n \in Items, list_remove(n),
         NEW l \in Heads, NEW q \in Seq(Items), IsWalk(next, l, q), Absent(n, q)
  PROVE  IsWalk(next', l, q)
<1>1. n # l /\ n \in Nodes /\ prev[n] \in Nodes /\ next[prev[n]] = n
  BY ListAssumption DEF TypeOK, WellLinked, Nodes
<1>2. \A k \in 0..Len(q) : Stop(l, q, k) # prev[n]
  BY <1>1, NotBefore
<1>3. \A k \in 0..Len(q) : Stop(l, q, k) # n
  BY <1>1 DEF Stop, Absent
<1>4. \A k \in 0..Len(q) : Stop(l, q, k) \in Nodes
  BY LinkedOneToOne, StopsDiffer
<1>5. \A m \in Nodes : m # n /\ m # prev[n] => next'[m] = next[m]
  BY DEF TypeOK, list_remove
<1> QED
  BY <1>2, <1>3, <1>4, <1>5, SameWalk

\* list_remove takes the node out of the walk that meets it, and keeps the
\* order of the others.
LEMMA RemoveHere ==
  ASSUME TypeOK, WellLinked, NEW n \in Items, list_remove(n),
         NEW l \in Heads, NEW q \in Seq(Items), IsWalk(next, l, q),
         NEW i \in 1..Len(q), q[i] = n
  PROVE  LET w == SubSeq(q, 1, i - 1) \o SubSeq(q, i + 1, Len(q))
         IN  w \in Seq(Items) /\ IsWalk(next', l, w)
<1> DEFINE w == SubSeq(q, 1, i - 1) \o SubSeq(q, i + 1, Len(q))
<1>0. Len(q) \in Nat /\ i \in Nat /\ i >= 1 /\ i <= Len(q)
  OBVIOUS
<1>1. /\ w \in Seq(Items) /\ Len(w) = Len(q) - 1
      /\ \A k \in 1..Len(w) : w[k] = IF k < i THEN q[k] ELSE q[k + 1]
  <2> DEFINE a == SubSeq(q, 1, i - 1)
             b == SubSeq(q, i + 1, Len(q))
  <2>1. a \in Seq(Items) /\ Len(a) = i - 1 /\ \A k \in 1..(i - 1) : a[k] = q[k]
    OBVIOUS
  <2>2. b \in Seq(Items) /\ Len(b) = Len(q) - i /\ \A k \in 1..(Len(q) - i) : b[k] = q[i + k]
    OBVIOUS
  <2> HIDE DEF a, b
  <2>3. /\ a \o b \in Seq(Items) /\ Len(a \o b) = Len(a) + Len(b)
        /\ \A k \in 1..(Len(a) + Len(b)) : (a \o b)[k] = IF k <= Len(a) THEN a[k] ELSE b[k - Len(a)]
    BY <2>1, <2>2, ConcatProperties, Zenon
  <2>4. Len(a \o b) = Len(q) - 1
    BY <1>0, <2>1, <2>2, <2>3
  <2>5. ASSUME NEW k \in 1..Len(a \o b) PROVE (a \o b)[k] = IF k < i THEN q[k] ELSE q[k + 1]
    <3>1. k \in 1..(Len(a) + Len(b)) /\ (k <= Len(a) <=> k < i)
      BY <1>0, <2>1, <2>3
    <3>2. CASE k < i
      BY <1>0, <2>1, <2>3, <3>1, <3>2
    <3>3. CASE ~(k < i)
      <4>1. k - Len(a) \in 1..(Len(q) - i) /\ i + (k - Len(a)) = k + 1
        BY <1>0, <2>1, <2>4, <3>3
      <4> QED
        BY <2>2, <2>3, <3>1, <3>3, <4>1
    <3> QED
      BY <3>2, <3>3
  <2> QED
    BY <2>3, <2>4, <2>5 DEF a, b
<1> HIDE DEF w
<1>2. \A k \in 0..Len(q) : Stop(l, w, k) = IF k < i THEN Stop(l, q, k) ELSE Stop(l, q, k + 1)
  <2> SUFFICES ASSUME NEW k \in 0..Len(q)
               PROVE  Stop(l, w, k) = IF k < i THEN Stop(l, q, k) ELSE Stop(l, q, k + 1)
    OBVIOUS
  <2>1. CASE k \in 1..Len(w)
    BY <1>0, <1>1, <2>1 DEF Stop
  <2>2. CASE k = 0
    BY <1>0, <2>2 DEF Stop
  <2>3. CASE k = Len(q)
    BY <1>0, <1>1, <2>3 DEF Stop
  <2> QED
    BY <1>0, <1>1, <2>1, <2>2, <2>3
<1>3. Stop(l, q, i) = n
  BY DEF Stop
<1>4. prev[n] = Stop(l, q, i - 1)
  <2>1. i - 1 \in 0..Len(q) /\ i - 1 \in Int /\ (i - 1) + 1 = i
    BY <1>0
  <2>2. next[Stop(l, q, i - 1)] = n
    BY <1>3, <2>1 DEF IsWalk
  <2>3. Stop(l, q, i - 1) \in Nodes
    BY <2>1, LinkedOneToOne, StopsDiffer
  <2> QED
    BY <2>2, <2>3 DEF WellLinked
<1>5. \A k \in 0..Len(q) : next[Stop(l, q, k)] = Stop(l, q, k + 1)
  BY DEF IsWalk
<1>6. \A k, j \in 0..Len(q) : Stop(l, q, k) = Stop(l, q, j) => k = j
  BY LinkedOneToOne, StopsDiffer
<1>7. \A k \in Int : Stop(l, q, k) \in Nodes
  BY LinkedOneToOne, StopsDiffer
<1>8. /\ \A m \in Nodes : m # n /\ m # prev[n] => next'[m] = next[m]
      /\ prev[n] # n => next'[prev[n]] = next[n]
  BY DEF TypeOK, list_remove, Nodes
<1>9. ASSUME NEW k \in 0..Len(w) PROVE next'[Stop(l, w, k)] = Stop(l, w, k + 1)
  <2>0. k \in 0..Len(q) /\ k + 1 \in 0..Len(q) /\ k \in Int /\ k + 1 \in Int /\ i \in 0..Len(q) /\ i - 1 \in 0..Len(q)
        /\ (i - 1) + 1 = i
    BY <1>0, <1>1
  <2>1. CASE k < i - 1
    <3>1. k # i /\ k # i - 1 /\ k < i /\ k + 1 < i
      BY <1>0, <2>0, <2>1
    <3>2. Stop(l, q, k) # n /\ Stop(l, q, k) # prev[n]
      BY <1>3, <1>4, <1>6, <2>0, <3>1
    <3> QED
      BY <1>2, <1>5, <1>7, <1>8, <2>0, <3>1, <3>2
  <2>2. CASE k = i - 1
    <3>1. prev[n] # n
      BY <1>0, <1>3, <1>4, <1>6, <2>0
    <3>2. Stop(l, w, k) = prev[n]
      BY <1>0, <1>2, <1>4, <2>0, <2>2
    <3>3. Stop(l, w, k + 1) = Stop(l, q, i + 1)
      BY <1>0, <1>2, <2>0, <2>2
    <3>4. next[n] = Stop(l, q, i + 1)
      BY <1>3, <1>5, <2>0
    <3> QED
      BY <1>8, <3>1, <3>2, <3>3, <3>4
  <2>3. CASE k >= i
    <3>1. k + 1 # i /\ k + 1 # i - 1 /\ ~(k < i) /\ ~(k + 1 < i)
      BY <1>0, <2>0, <2>3
    <3>2. Stop(l, q, k + 1) # n /\ Stop(l, q, k + 1) # prev[n]
      BY <1>3, <1>4, <1>6, <2>0, <3>1
    <3> QED
      BY <1>2, <1>5, <1>7, <1>8, <2>0, <3>1, <3>2
  <2> QED
    BY <1>0, <2>0, <2>1, <2>2, <2>3
<1>10. IsWalk(next', l, w)
  BY <1>9 DEF IsWalk
<1> QED
  BY <1>1, <1>10 DEF w

\* The inserts change the successors of the new node and of the node before
\* its place, which is in the list of l0 only.
LEMMA InsertElsewhere ==
  ASSUME TypeOK, WellLinked, NEW l0 \in Heads, NEW n \in Items,
         list_insert_after(l0, n) \/ list_insert_before(l0, n),
         NEW l \in Heads, l # l0, NEW q \in Seq(Items), IsWalk(next, l, q)
  PROVE  IsWalk(next', l, q)
<1>1. OneToOne(next) /\ next[n] = n /\ n \in Nodes /\ l0 \in Nodes /\ n # l
  BY LinkedOneToOne, ListAssumption DEF list_insert_after, list_insert_before, list_isempty, Nodes
<1>2. Absent(n, q)
  BY <1>1, AloneIsAbsent
<1>3. \A k \in 0..Len(q) : Stop(l, q, k) # n
  BY <1>1, <1>2 DEF Stop, Absent
<1>4. Absent(l0, q)
  BY ElementOfSeq, ListAssumption DEF Absent
<1>5. \A k \in 0..Len(q) : Stop(l, q, k) # l0
  BY <1>4 DEF Stop, Absent
<1>6. \A k \in 0..Len(q) : Stop(l, q, k) # prev[l0]
  <2>1. next[prev[l0]] = l0
    BY <1>1 DEF WellLinked
  <2> QED
    BY <1>4, <2>1, NotBefore
<1>7. \A k \in 0..Len(q) : Stop(l, q, k) \in Nodes
  BY <1>1, StopsDiffer
<1>8. \A m \in Nodes : m # n /\ m # l0 /\ m # prev[l0] => next'[m] = next[m]
  BY DEF TypeOK, list_insert_after, list_insert_before
<1> QED
  BY <1>3, <1>5, <1>6, <1>7, <1>8, SameWalk

\* list_insert_after puts the node in front of the others.
LEMMA InsertAfterHere ==
  ASSUME TypeOK, WellLinked, NEW l \in Heads, NEW n \in Items, list_insert_after(l, n),
         NEW q \in Seq(Items), IsWalk(next, l, q)
  PROVE  <<n>> \o q \in Seq(Items) /\ IsWalk(next', l, <<n>> \o q)
<1> DEFINE w == <<n>> \o q
<1>0. Len(q) \in Nat
  OBVIOUS
<1>1. /\ w \in Seq(Items) /\ Len(w) = Len(q) + 1
      /\ \A k \in 1..Len(w) : w[k] = IF k = 1 THEN n ELSE q[k - 1]
  <2>1. <<n>> \in Seq(Items) /\ Len(<<n>>) = 1 /\ <<n>>[1] = n
    OBVIOUS
  <2>2. /\ w \in Seq(Items) /\ Len(w) = Len(<<n>>) + Len(q)
        /\ \A k \in 1..(Len(<<n>>) + Len(q)) : w[k] = IF k <= Len(<<n>>) THEN <<n>>[k] ELSE q[k - Len(<<n>>)]
    BY <2>1, ConcatProperties, Zenon
  <2> HIDE DEF w
  <2> QED
    BY <1>0, <2>1, <2>2
<1> HIDE DEF w
<1>2. \A k \in 2..(Len(w) + 1) : Stop(l, w, k) = Stop(l, q, k - 1)
  BY <1>0, <1>1 DEF Stop
<1>3. Stop(l, w, 0) = l /\ Stop(l, w, 1) = n /\ Stop(l, q, 0) = l
  BY <1>0, <1>1 DEF Stop
<1>4. OneToOne(next) /\ next[n] = n /\ n \in Nodes /\ l \in Nodes /\ n # l
  BY LinkedOneToOne, ListAssumption DEF list_insert_after, list_isempty, Nodes
<1>5. Absent(n, q)
  BY <1>4, AloneIsAbsent
<1>6. \A k \in 1..Len(q) : Stop(l, q, k) \in Nodes /\ Stop(l, q, k) # l /\ Stop(l, q, k) # n
  BY <1>5, ElementOfSeq, ListAssumption DEF Stop, Absent, Nodes
<1>7. \A k \in 0..Len(q) : next[Stop(l, q, k)] = Stop(l, q, k + 1)
  BY DEF IsWalk
<1>8. /\ \A m \in Nodes : m # n /\ m # l => next'[m] = next[m]
      /\ next'[l] = n /\ next'[n] = next[l]
  BY <1>4 DEF TypeOK, list_insert_after
<1>9. ASSUME NEW k \in 0..Len(w) PROVE next'[Stop(l, w, k)] = Stop(l, w, k + 1)
  <2>1. CASE k = 0
    BY <1>3, <1>8, <2>1
  <2>2. CASE k = 1
    <3>1. next[l] = Stop(l, q, 1)
      BY <1>0, <1>3, <1>7
    <3>2. Stop(l, w, 2) = Stop(l, q, 1)
      BY <1>0, <1>1, <1>2
    <3> QED
      BY <1>3, <1>8, <2>2, <3>1, <3>2
  <2>3. CASE k > 1
    <3>1. k - 1 \in 1..Len(q) /\ k \in 2..(Len(w) + 1) /\ k + 1 \in 2..(Len(w) + 1) /\ (k + 1) - 1 = (k - 1) + 1
          /\ k - 1 \in 0..Len(q)
      BY <1>0, <1>1, <2>3
    <3>2. next'[Stop(l, q, k - 1)] = Stop(l, q, (k - 1) + 1)
      BY <1>6, <1>7, <1>8, <3>1
    <3>3. Stop(l, w, k) = Stop(l, q, k - 1) /\ Stop(l, w, k + 1) = Stop(l, q, (k + 1) - 1)
      BY <1>2, <3>1
    <3> QED
      BY <3>1, <3>2, <3>3
  <2> QED
    BY <1>0, <1>1, <2>1, <2>2, <2>3
<1>10. IsWalk(next', l, w)
  BY <1>9 DEF IsWalk
<1> QED
  BY <1>1, <1>10 DEF w

\* list_insert_before puts the node behind the others.
LEMMA InsertBeforeHere ==
  ASSUME TypeOK, WellLinked, NEW l \in Heads, NEW n \in Items, list_insert_before(l, n),
         NEW q \in Seq(Items), IsWalk(next, l, q)
  PROVE  Append(q, n) \in Seq(Items) /\ IsWalk(next', l, Append(q, n))
<1> DEFINE w == Append(q, n)
<1>0. Len(q) \in Nat
  OBVIOUS
<1>1. /\ w \in Seq(Items) /\ Len(w) = Len(q) + 1
      /\ \A k \in 1..Len(q) : w[k] = q[k]
      /\ w[Len(q) + 1] = n
  BY AppendProperties
<1> HIDE DEF w
<1>2. \A k \in 0..Len(q) : Stop(l, w, k) = Stop(l, q, k)
  BY <1>0, <1>1 DEF Stop
<1>3. Stop(l, w, Len(q) + 1) = n /\ Stop(l, w, (Len(q) + 1) + 1) = l /\ Stop(l, q, Len(q) + 1) = l
  BY <1>0, <1>1 DEF Stop
<1>4. OneToOne(next) /\ next[n] = n /\ n \in Nodes /\ l \in Nodes /\ n # l
  BY LinkedOneToOne, ListAssumption DEF list_insert_before, list_isempty, Nodes
<1>5. Absent(n, q)
  BY <1>4, AloneIsAbsent
<1>6. \A k \in 0..Len(q) : Stop(l, q, k) \in Nodes /\ Stop(l, q, k) # n
  BY <1>4, <1>5, ElementOfSeq DEF Stop, Absent, Nodes
<1>7. \A k \in 0..Len(q) : next[Stop(l, q, k)] = Stop(l, q, k + 1)
  BY DEF IsWalk
<1>8. prev[l] = Stop(l, q, Len(q))
  BY <1>0, <1>3, <1>6, <1>7 DEF WellLinked
<1>9. \A k, j \in 0..Len(q) : Stop(l, q, k) = Stop(l, q, j) => k = j
  BY <1>4, StopsDiffer
<1>10. /\ \A m \in Nodes : m # n /\ m # prev[l] => next'[m] = next[m]
       /\ prev[l] # n => next'[prev[l]] = n
       /\ next'[n] = l
  BY <1>4 DEF TypeOK, list_insert_before
<1>11. ASSUME NEW k \in 0..Len(w) PROVE next'[Stop(l, w, k)] = Stop(l, w, k + 1)
  <2>1. CASE k < Len(q)
    <3>1. k \in 0..Len(q) /\ k + 1 \in 0..Len(q) /\ k # Len(q) /\ Len(q) \in 0..Len(q)
      BY <1>0, <2>1
    <3>2. next'[Stop(l, q, k)] = Stop(l, q, k + 1)
      BY <1>6, <1>7, <1>8, <1>9, <1>10, <3>1
    <3> QED
      BY <1>2, <3>1, <3>2
  <2>2. CASE k = Len(q)
    <3>1. k \in 0..Len(q)
      BY <1>0, <2>2
    <3> QED
      BY <1>2, <1>3, <1>6, <1>8, <1>10, <2>2, <3>1
  <2>3. CASE k = Len(q) + 1
    BY <1>3, <1>10, <2>3
  <2> QED
    BY <1>0, <1>1, <2>1, <2>2, <2>3
<1>12. IsWalk(next', l, w)
  BY <1>11 DEF IsWalk
<1> QED
  BY <1>1, <1>12 DEF w

\* From every head a walk leads back to it.
WalkInv == \A l \in Heads : \E q \in Seq(Items) : IsWalk(next, l, q)


\* The bound in ItemSeqs excludes no walk.
LEMMA WalkIs ==
  ASSUME NEW nx, OneToOne(nx), NEW l \in Heads, NEW q \in Seq(Items), IsWalk(nx, l, q)
  PROVE  (CHOOSE r \in ItemSeqs : IsWalk(nx, l, r)) = q
<1>1. ItemSeqs \subseteq Seq(Items)
  <2> SUFFICES ASSUME NEW k \in 0..Cardinality(Items), NEW r \in [1..k -> Items]
               PROVE  r \in Seq(Items)
    BY DEF ItemSeqs
  <2>1. k \in Nat
    BY FS_CardinalityType, ListAssumption
  <2> QED
    BY <2>1
<1>2. q \in ItemSeqs
  <2>1. q \in [1..Len(q) -> Items] /\ Len(q) \in Nat
    OBVIOUS
  <2>2. q \in Injection(1..Len(q), Items)
    BY <2>1, WalkInjective DEF Injection, IsInjective
  <2>3. Cardinality(1..Len(q)) <= Cardinality(Items) /\ Cardinality(Items) \in Nat
    BY <2>2, FS_Injection, FS_CardinalityType, ListAssumption
  <2>4. Cardinality(1..Len(q)) = Len(q)
    <3>1. 1 \in Int /\ Len(q) \in Int
      BY <2>1
    <3>2. Cardinality(1..Len(q)) = IF 1 > Len(q) THEN 0 ELSE Len(q) - 1 + 1
      BY <3>1, FS_Interval, Zenon
    <3> QED
      BY <2>1, <3>2
  <2> QED
    BY <2>1, <2>3, <2>4 DEF ItemSeqs
<1>3. \E r \in ItemSeqs : IsWalk(nx, l, r)
  BY <1>2
<1>4. \A r \in ItemSeqs : IsWalk(nx, l, r) => r = q
  BY <1>1, WalkUnique
<1> QED
  BY <1>3, <1>4

\* The mapped lists of a state whose pointers are consistent.
LEMMA ListIs ==
  ASSUME NEW nx, OneToOne(nx), NEW L, L = [l \in Heads |-> CHOOSE q \in ItemSeqs : IsWalk(nx, l, q)],
         \A l \in Heads : \E q \in Seq(Items) : IsWalk(nx, l, q)
  PROVE  /\ \A l \in Heads : L[l] \in Seq(Items) /\ IsWalk(nx, l, L[l])
         /\ \A l \in Heads, q \in Seq(Items) : IsWalk(nx, l, q) => L[l] = q
<1>1. ASSUME NEW l \in Heads, NEW q \in Seq(Items), IsWalk(nx, l, q) PROVE L[l] = q
  BY <1>1, WalkIs
<1> QED
  BY <1>1

\* Every list operation does to the sequences what its abstract counterpart
\* does, or leaves them all alone.
LEMMA RefineStep ==
  ASSUME ListInv, ListInv', WalkInv, Next
  PROVE  WalkInv' /\ (Abstract!Next \/ UNCHANGED Lists)
<1>0. TypeOK /\ WellLinked /\ OneToOne(next) /\ OneToOne(next')
  BY LinkedOneToOne DEF ListInv, TypeOK, WellLinked, OneToOne
<1>1. /\ \A l \in Heads : Lists[l] \in Seq(Items) /\ IsWalk(next, l, Lists[l])
      /\ Lists = [l \in Heads |-> Lists[l]]
  BY <1>0, ListIs DEF WalkInv, Lists, Walk
<1>2. ASSUME NEW W, \A l \in Heads : W[l] \in Seq(Items) /\ IsWalk(next', l, W[l])
      PROVE  WalkInv' /\ Lists' = [l \in Heads |-> W[l]]
  <2>1. WalkInv'
    BY <1>2 DEF WalkInv
  <2>2. \A l \in Heads : Walk(l)' = W[l]
    BY <1>0, <1>2, WalkIs DEF Walk
  <2> QED
    BY <2>1, <2>2 DEF Lists
<1>3. ASSUME NEW n \in Items, list_remove(n) PROVE WalkInv' /\ (Abstract!Next \/ UNCHANGED Lists)
  <2>1. CASE \A l \in Heads : Absent(n, Lists[l])
    <3>1. \A l \in Heads : IsWalk(next', l, Lists[l])
      BY <1>0, <1>1, <1>3, <2>1, RemoveElsewhere
    <3>2. WalkInv' /\ Lists' = [l \in Heads |-> Lists[l]]
      BY <1>1, <1>2, <3>1
    <3> QED
      BY <1>1, <3>2
  <2>2. CASE \E h \in Heads : ~Absent(n, Lists[h])
    <3>1. PICK h \in Heads : \E i \in 1..Len(Lists[h]) : Lists[h][i] = n
      BY <2>2 DEF Absent
    <3>2. PICK i \in 1..Len(Lists[h]) : Lists[h][i] = n
      BY <3>1
    <3> DEFINE w == SubSeq(Lists[h], 1, i - 1) \o SubSeq(Lists[h], i + 1, Len(Lists[h]))
               W == [l \in Heads |-> IF l = h THEN w ELSE Lists[l]]
    <3>3. w \in Seq(Items) /\ IsWalk(next', h, w)
      BY <1>0, <1>1, <1>3, <3>2, RemoveHere
    <3>4. ASSUME NEW l \in Heads, l # h PROVE IsWalk(next', l, Lists[l])
      <4>1. Absent(n, Lists[l])
        <5> SUFFICES ASSUME NEW j \in 1..Len(Lists[l]), Lists[l][j] = n PROVE FALSE
          BY DEF Absent
        <5> QED
          BY <1>0, <1>1, <3>2, <3>4, WalksDisjoint
      <4> QED
        BY <1>0, <1>1, <1>3, <4>1, RemoveElsewhere
    <3> HIDE DEF w
    <3>5. \A l \in Heads : W[l] \in Seq(Items) /\ IsWalk(next', l, W[l])
      BY <1>1, <3>3, <3>4
    <3>6. WalkInv' /\ Lists' = [l \in Heads |-> W[l]]
      <4> HIDE DEF W
      <4> QED BY <1>2, <3>5
    <3>7. Lists' = [Lists EXCEPT ![h] = w]
      BY <1>1, <3>6
    <3>8. Abstract!Delete(n)
      BY <3>2, <3>7 DEF Abstract!Delete, Abstract!Without, w
    <3> QED
      BY <3>6, <3>8 DEF Abstract!Next
  <2> QED
    BY <2>1, <2>2
<1>4. ASSUME NEW n \in Items, NEW h \in Heads, NEW w \in Seq(Items), IsWalk(next', h, w),
             list_insert_after(h, n) \/ list_insert_before(h, n)
      PROVE  WalkInv' /\ Lists' = [Lists EXCEPT ![h] = w] /\ ~Abstract!Listed(n)
  <2> DEFINE W == [l \in Heads |-> IF l = h THEN w ELSE Lists[l]]
  <2>1. \A l \in Heads : l # h => IsWalk(next', l, Lists[l])
    BY <1>0, <1>1, <1>4, InsertElsewhere
  <2>2. \A l \in Heads : W[l] \in Seq(Items) /\ IsWalk(next', l, W[l])
    BY <1>1, <1>4, <2>1
  <2>3. WalkInv' /\ Lists' = [l \in Heads |-> W[l]]
    <3> HIDE DEF W
    <3> QED BY <1>2, <2>2
  <2>4. Lists' = [Lists EXCEPT ![h] = w]
    BY <1>1, <2>3
  <2>5. next[n] = n
    BY <1>4 DEF list_insert_after, list_insert_before, list_isempty
  <2>6. \A l \in Heads : Absent(n, Lists[l])
    BY <1>0, <1>1, <2>5, AloneIsAbsent
  <2> QED
    BY <2>3, <2>4, <2>6 DEF Abstract!Listed, Absent
<1>5. ASSUME NEW n \in Items, NEW h \in Heads, list_insert_after(h, n)
      PROVE  WalkInv' /\ Abstract!Next
  <2>1. <<n>> \o Lists[h] \in Seq(Items) /\ IsWalk(next', h, <<n>> \o Lists[h])
    BY <1>0, <1>1, <1>5, InsertAfterHere
  <2>2. WalkInv' /\ Abstract!PushFront(h, n)
    BY <1>4, <1>5, <2>1 DEF Abstract!PushFront
  <2> QED
    BY <2>2 DEF Abstract!Next
<1>6. ASSUME NEW n \in Items, NEW h \in Heads, list_insert_before(h, n)
      PROVE  WalkInv' /\ Abstract!Next
  <2>1. Append(Lists[h], n) \in Seq(Items) /\ IsWalk(next', h, Append(Lists[h], n))
    BY <1>0, <1>1, <1>6, InsertBeforeHere
  <2>2. WalkInv' /\ Abstract!PushBack(h, n)
    BY <1>4, <1>6, <2>1 DEF Abstract!PushBack
  <2> QED
    BY <2>2 DEF Abstract!Next
<1> QED
  BY <1>3, <1>5, <1>6 DEF Next

\* Initially every walk is empty.
LEMMA RefineInit == Init => WalkInv /\ Abstract!Init
<1> SUFFICES ASSUME Init PROVE WalkInv /\ Abstract!Init
  OBVIOUS
<1>1. OneToOne(next)
  BY DEF Init, OneToOne
<1>2. \A l \in Heads : <<>> \in Seq(Items) /\ IsWalk(next, l, <<>>)
  <2>1. <<>> \in Seq(Items) /\ Len(<<>>) = 0
    OBVIOUS
  <2>2. ASSUME NEW l, NEW k \in Int PROVE Stop(l, <<>>, k) = l
    BY <2>1 DEF Stop
  <2>3. \A l \in Heads : next[l] = l
    BY DEF Init, Nodes
  <2> QED
    BY <2>1, <2>2, <2>3 DEF IsWalk
<1>3. \A l \in Heads : Walk(l) = <<>>
  <2>1. PICK e : e = <<>>
    OBVIOUS
  <2>2. \A l \in Heads : e \in Seq(Items) /\ IsWalk(next, l, e)
    BY <1>2, <2>1
  <2>3. \A l \in Heads : Walk(l) = e
    BY <1>1, <2>2, WalkIs DEF Walk
  <2> QED
    BY <2>1, <2>3
<1> QED
  BY <1>2, <1>3 DEF WalkInv, Lists, Abstract!Init

\* The pointer operations of list.h implement the operations on sequences,
\* for any number of lists and nodes: inserts at either end and removals act
\* on one list as they should and leave all others and all orders alone.
THEOREM ListRefinement == Spec => RefinesSeqLists
<1>1. ListInv /\ ListInv' /\ WalkInv /\ [Next]_vars => WalkInv' /\ [Abstract!Next]_Lists
  <2> SUFFICES ASSUME ListInv, ListInv', WalkInv, [Next]_vars
               PROVE  WalkInv' /\ [Abstract!Next]_Lists
    OBVIOUS
  <2>1. CASE Next
    BY <2>1, RefineStep
  <2>2. CASE UNCHANGED vars
    BY <2>2 DEF vars, WalkInv, Lists, Walk
  <2> QED
    BY <2>1, <2>2
<1> QED
  BY <1>1, RefineInit, ListInvariance, PTL DEF Spec, RefinesSeqLists, Abstract!Spec
=============================================================================
