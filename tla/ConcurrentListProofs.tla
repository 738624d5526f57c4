------------------------ MODULE ConcurrentListProofs ------------------------
(***************************************************************************)
(* Proofs about ConcurrentList, for any number of threads and of memory    *)
(* cells: the mutexes exclude what they should, the list stays well formed *)
(* and no thread that holds its mutex ever leaves it.  With the items as a *)
(* sequence in the order of their links, none is lost, and inserters that  *)
(* have passed the test of the size exceed it by a bounded number.         *)
(***************************************************************************)
EXTENDS ConcurrentList, WellFoundedInduction, FiniteSetTheorems, TLAPS

\* The provers have more time for a leaf than they take by default.
USE SMTT(20), ZenonT(20)

\* A thread is where only the holder of its mutexes can be.  (The holder of
\* search_lock need not be there: a searcher may have kept it.)
LockOwners ==
  /\ \A t \in Searchers :
       pc[t] \in {"start", "walk"} /\ (pc[t] = "walk" => searchLock = t)
  /\ \A t \in Inserters :
       /\ pc[t] \in {"start", "count", "lock", "walk", "unlock"}
       /\ pc[t] \in {"walk", "unlock"} => insertLock = t
  /\ \A t \in Deleters :
       /\ pc[t] \in {"lock2", "walk", "free", "unlock", "unlock2"} => insertLock = t
       /\ pc[t] \in {"walk", "free", "unlock"} => searchLock = t

\* The cell an inserter is about to link is its own.
NewIsPrivate ==
  \A t \in Inserters :
    pc[t] = "walk" => new[t] \in alloc \ linked /\ next[new[t]] = NULL

\* The inductive invariant.
IInv ==
  /\ TypeOK
  /\ LockOwners
  /\ ListWellFormed
  /\ NewIsPrivate
  /\ WalkersInList

\* The invariant holds when the threads start.
LEMMA InitInv == Init => IInv
<1> SUFFICES ASSUME Init PROVE IInv
  OBVIOUS
<1>1. TypeOK
  <2>1. 0 \in 0 .. MaxSize
    BY MaxSizeAssumption
  <2>2. alive \in BOOLEAN /\ shrunk \in BOOLEAN
    BY DEF Init
  <2> QED BY <2>1, <2>2 DEF Init, TypeOK, Ptr, PC
<1>2. LockOwners /\ ListWellFormed /\ NewIsPrivate /\ WalkersInList
  BY ThreadAssumption, NullAssumption
     DEF Init, LockOwners, ListWellFormed, NewIsPrivate, WalkersInList, Thread
<1> QED BY <1>1, <1>2 DEF IInv

-----------------------------------------------------------------------------
\* A step of a thread keeps the types.
LEMMA TypeStep ==
  ASSUME IInv, NEW t \in Thread, Step(t)
  PROVE  TypeOK'
<1>0. shrunk' \in BOOLEAN
  BY DEF Step
<1> USE <1>0, NullAssumption, MaxSizeAssumption
    DEF IInv, TypeOK, Thread, Ptr, PC, Goto, Point, list, locks, locals
<1>1. CASE Size(t)
  <2>1. CASE CountStep(t)
    <3> PICK p \in Ptr : Point(t, p)
      BY <2>1 DEF CountStep, Link
    <3> QED BY <2>1 DEF CountStep
  <2>2. CASE CountStart(t)
    BY <2>2 DEF CountStart
  <2>3. CASE CountEnd(t)
    BY <2>3 DEF CountEnd
  <2>4. CASE Segfault(t)
    BY <2>4 DEF Segfault
  <2> QED BY <1>1, <2>1, <2>2, <2>3, <2>4 DEF Size
<1>2. CASE Insert(t)
  BY <1>2 DEF Insert, InsertLock, InsertBusy, InsertWalk, InsertLink, InsertUnlock,
              WalkersInList, NewIsPrivate, ListWellFormed
<1>3. CASE Delete(t)
  BY <1>3 DEF Delete, DeleteLock, DeleteBusy, DeleteLockSearch, DeleteBusySearch, DeleteWalk,
              DeleteUnlink, DeleteFree, DeleteMiss, DeleteUnlockSearch, DeleteUnlock
<1>4. CASE Search(t)
  BY <1>4 DEF Search, SearchLock, SearchWalk, SearchUnlock
<1> QED BY <1>1, <1>2, <1>3, <1>4 DEF Step

\* Mutual exclusion: a mutex is taken only when it is free and given back only by
\* its holder.
LEMMA LockStep ==
  ASSUME IInv, NEW t \in Thread, Step(t)
  PROVE  LockOwners'
<1> USE ThreadAssumption, NullAssumption
    DEF IInv, TypeOK, LockOwners, Thread, Goto, locks
<1>1. CASE Size(t)
  BY <1>1 DEF Size, CountStart, CountStep, CountEnd, Segfault
<1>2. CASE Insert(t)
  BY <1>2 DEF Insert, InsertLock, InsertBusy, InsertWalk, InsertLink, InsertUnlock
<1>3. CASE Delete(t)
  BY <1>3 DEF Delete, DeleteLock, DeleteBusy, DeleteLockSearch, DeleteBusySearch, DeleteWalk,
              DeleteUnlink, DeleteFree, DeleteMiss, DeleteUnlockSearch, DeleteUnlock
<1>4. CASE Search(t)
  BY <1>4 DEF Search, SearchLock, SearchWalk, SearchUnlock
<1> QED BY <1>1, <1>2, <1>3, <1>4 DEF Step

\* The list changes where its items are linked and unlinked, and nowhere else.
LEMMA ShapeStep ==
  ASSUME IInv, NEW t \in Thread, Step(t)
  PROVE  ListWellFormed'
<1> USE NullAssumption DEF IInv, TypeOK, ListWellFormed, Ptr, list
<1>1. CASE InsertLock(t)
  BY <1>1 DEF InsertLock
<1>2. CASE InsertLink(t)
  BY <1>2 DEF InsertLink, WalkersInList, NewIsPrivate
<1>3. CASE DeleteUnlink(t)
  BY <1>3 DEF DeleteUnlink, WalkersInList
<1>4. CASE DeleteFree(t)
  BY <1>4 DEF DeleteFree, WalkersInList
<1>5. CASE ~InsertLock(t) /\ ~InsertLink(t) /\ ~DeleteUnlink(t) /\ ~DeleteFree(t)
  BY <1>5 DEF Step, Size, CountStart, CountStep, CountEnd, Segfault,
              Insert, InsertBusy, InsertWalk, InsertUnlock,
              Delete, DeleteLock, DeleteBusy, DeleteLockSearch, DeleteBusySearch, DeleteWalk,
              DeleteMiss, DeleteUnlockSearch, DeleteUnlock,
              Search, SearchLock, SearchWalk, SearchUnlock
<1> QED BY <1>1, <1>2, <1>3, <1>4, <1>5

\* An inserter's new cell stays its own until it links it: nobody else inserts
\* or deletes meanwhile.
LEMMA NewStep ==
  ASSUME IInv, NEW t \in Thread, Step(t)
  PROVE  NewIsPrivate'
<1> USE ThreadAssumption, NullAssumption DEF IInv, TypeOK, NewIsPrivate, Thread, Ptr, Goto, list, locals
<1>1. CASE InsertLock(t)
  BY <1>1 DEF InsertLock, LockOwners, ListWellFormed
<1>2. CASE InsertLink(t)
  BY <1>2 DEF InsertLink, LockOwners
<1>3. CASE DeleteUnlink(t) \/ DeleteFree(t)
  BY <1>3 DEF DeleteUnlink, DeleteFree, LockOwners
<1>4. CASE ~InsertLock(t) /\ ~InsertLink(t) /\ ~DeleteUnlink(t) /\ ~DeleteFree(t)
  BY <1>4 DEF Step, Size, CountStart, CountStep, CountEnd, Segfault,
              Insert, InsertBusy, InsertWalk, InsertUnlock,
              Delete, DeleteLock, DeleteBusy, DeleteLockSearch, DeleteBusySearch, DeleteWalk,
              DeleteMiss, DeleteUnlockSearch, DeleteUnlock,
              Search, SearchLock, SearchWalk, SearchUnlock
<1> QED BY <1>1, <1>2, <1>3, <1>4

\* A walk goes from item to item, and the items ahead of a walk are not unlinked.
LEMMA WalkStep ==
  ASSUME IInv, NEW t \in Thread, Step(t)
  PROVE  WalkersInList'
<1> USE ThreadAssumption, NullAssumption
    DEF IInv, TypeOK, WalkersInList, ListWellFormed, Thread, Ptr, Goto, Point, list, locals
<1>1. CASE Size(t)
  BY <1>1 DEF Size, CountStart, CountStep, CountEnd, Segfault
<1>2. CASE InsertLock(t)
  BY <1>2 DEF InsertLock, LockOwners
<1>3. CASE InsertLink(t)
  BY <1>3 DEF InsertLink, LockOwners
<1>4. CASE InsertBusy(t) \/ InsertWalk(t) \/ InsertUnlock(t)
  BY <1>4 DEF InsertBusy, InsertWalk, InsertUnlock
<1>5. CASE DeleteUnlink(t)
  BY <1>5 DEF DeleteUnlink, LockOwners
<1>6. CASE DeleteFree(t)
  BY <1>6 DEF DeleteFree, LockOwners
<1>7. CASE DeleteLockSearch(t) \/ DeleteWalk(t)
  BY <1>7 DEF DeleteLockSearch, DeleteWalk
<1>8. CASE \/ DeleteLock(t) \/ DeleteBusy(t) \/ DeleteBusySearch(t) \/ DeleteMiss(t)
           \/ DeleteUnlockSearch(t) \/ DeleteUnlock(t)
  BY <1>8 DEF DeleteLock, DeleteBusy, DeleteBusySearch, DeleteMiss, DeleteUnlockSearch,
              DeleteUnlock
<1>9. CASE Search(t)
  BY <1>9 DEF Search, SearchLock, SearchWalk, SearchUnlock
<1> QED BY <1>1, <1>2, <1>3, <1>4, <1>5, <1>6, <1>7, <1>8, <1>9 DEF Step, Insert, Delete

-----------------------------------------------------------------------------
\* The invariant depends on nothing but the variables.
LEMMA Stuttering == IInv /\ UNCHANGED vars => IInv'
BY DEF IInv, TypeOK, LockOwners, ListWellFormed, NewIsPrivate, WalkersInList,
       vars, list, locks, locals

\* Every step keeps the invariant.
LEMMA NextInv == IInv /\ [Next]_vars => IInv'
<1> SUFFICES ASSUME IInv, Next PROVE IInv'
  BY Stuttering
<1> PICK t \in Thread : Step(t)
  BY DEF Next
<1> QED BY TypeStep, LockStep, ShapeStep, NewStep, WalkStep DEF IInv

\* The inductive invariant holds in every reachable state.
THEOREM Invariance == Spec => []IInv
BY InitInv, NextInv, PTL DEF Spec

\* Every variable of con3.c that is modelled keeps its type.
THEOREM TypeCorrect == Spec => []TypeOK
<1> IInv => TypeOK
  BY DEF IInv
<1> QED BY Invariance, PTL

\* A deletion excludes searches, insertions and other deletions, and an insertion
\* other insertions.
THEOREM MutualExclusion == Spec => []Exclusion
<1> IInv => Exclusion
  BY ThreadAssumption, NullAssumption DEF IInv, LockOwners, Exclusion, Deleting, Thread
<1> QED BY Invariance, PTL

\* The list is well formed after every statement, and its items are allocated.
THEOREM WellFormed == Spec => []ListWellFormed
<1> IInv => ListWellFormed
  BY DEF IInv
<1> QED BY Invariance, PTL

\* A thread walking with its mutex is always on an item of the list.
THEOREM WalksStayInList == Spec => []WalkersInList
<1> IInv => WalkersInList
  BY DEF IInv
<1> QED BY Invariance, PTL

\* No step of a thread makes an empty list one with items.
LEMMA HeadStaysNull ==
  ASSUME head = NULL, NEW t \in Thread, Step(t)
  PROVE  head' = NULL
<1>1. CASE DeleteUnlink(t)
  BY <1>1 DEF DeleteUnlink
<1>2. CASE ~DeleteUnlink(t)
  BY <1>2 DEF list, Step, Size, CountStart, CountStep, CountEnd, Segfault,
              Insert, InsertLock, InsertBusy, InsertWalk, InsertLink, InsertUnlock,
              Delete, DeleteLock, DeleteBusy, DeleteLockSearch, DeleteBusySearch, DeleteWalk,
              DeleteFree, DeleteMiss, DeleteUnlockSearch, DeleteUnlock,
              Search, SearchLock, SearchWalk, SearchUnlock
<1> QED BY <1>1, <1>2

\* insert_lock is given back on every path of insert and of delete, and search_lock
\* on every path of delete and search but the one on which the list is empty.
THEOREM LocksComeBack == Spec => []LocksReturned
<1>1. Init => LocksReturned
  BY NullAssumption DEF Init, LocksReturned, Thread
<1>2. IInv /\ LocksReturned /\ [Next]_vars => LocksReturned'
  <2> SUFFICES ASSUME IInv, LocksReturned, NEW t \in Thread, Step(t)
               PROVE  LocksReturned'
    BY DEF Next, vars, list, locks, locals, LocksReturned
  <2>0. head = NULL => head' = NULL
    BY HeadStaysNull
  <2> USE ThreadAssumption, NullAssumption
      DEF IInv, TypeOK, LockOwners, LocksReturned, Thread, Step, Goto, list, locks
  <2>1. CASE Size(t)
    <3>1. UNCHANGED <<head, searchLock, insertLock>>
      BY <2>1 DEF Size, CountStart, CountStep, CountEnd, Segfault
    <3>2. \A u \in Thread : u # t => pc'[u] = pc[u]
      BY <2>1 DEF Size, CountStart, CountStep, CountEnd, Segfault
    <3>3. t \notin Searchers
      BY <2>1 DEF Size, CountStart, CountStep, CountEnd, Segfault
    <3>4. pc[t] \in {"start", "count"} /\ pc'[t] \in {"start", "count", "lock"}
      BY <2>1 DEF Size, CountStart, CountStep, CountEnd, Segfault
    <3> QED BY <3>1, <3>2, <3>3, <3>4
  <2>2. CASE Insert(t)
    <3>1. CASE InsertLock(t)
      BY <3>1 DEF InsertLock
    <3>2. CASE InsertBusy(t)
      BY <3>2 DEF InsertBusy
    <3>3. CASE InsertWalk(t)
      BY <3>3 DEF InsertWalk
    <3>4. CASE InsertLink(t)
      BY <3>4 DEF InsertLink
    <3>5. CASE InsertUnlock(t)
      BY <3>5 DEF InsertUnlock
    <3> QED BY <2>2, <3>1, <3>2, <3>3, <3>4, <3>5 DEF Insert
  <2>3. CASE Delete(t)
    <3>1. CASE DeleteLock(t)
      BY <2>0, <3>1 DEF DeleteLock
    <3>2. CASE DeleteBusy(t)
      BY <2>0, <3>2 DEF DeleteBusy
    <3>3. CASE DeleteUnlock(t)
      BY <2>0, <3>3 DEF DeleteUnlock
    <3>4. CASE DeleteLockSearch(t) \/ DeleteBusySearch(t) \/ DeleteUnlockSearch(t)
      <4>1. CASE DeleteLockSearch(t)
        BY <4>1 DEF DeleteLockSearch
      <4>2. CASE DeleteBusySearch(t)
        BY <4>2 DEF DeleteBusySearch
      <4>3. CASE DeleteUnlockSearch(t)
        BY <4>3 DEF DeleteUnlockSearch
      <4> QED BY <3>4, <4>1, <4>2, <4>3
    <3>5. CASE DeleteWalk(t) \/ DeleteMiss(t)
      BY <2>0, <3>5 DEF DeleteWalk, DeleteMiss
    <3>6. CASE DeleteUnlink(t) \/ DeleteFree(t)
      <4>1. UNCHANGED locks /\ pc' = [pc EXCEPT ![t] = pc'[t]] /\ pc'[t] \in {"free", "unlock"}
        BY <3>6 DEF DeleteUnlink, DeleteFree
      <4>2. t \in Deleters /\ searchLock = t /\ insertLock = t
        BY <3>6 DEF DeleteUnlink, DeleteFree
      <4> QED BY <4>1, <4>2
    <3> QED BY <2>3, <3>1, <3>2, <3>3, <3>4, <3>5, <3>6 DEF Delete
  <2>4. CASE Search(t)
    <3>1. CASE SearchLock(t)
      BY <3>1 DEF SearchLock
    <3>2. CASE SearchWalk(t)
      BY <3>2 DEF SearchWalk
    <3>3. CASE SearchUnlock(t)
      BY <3>3 DEF SearchUnlock
    <3> QED BY <2>4, <3>1, <3>2, <3>3 DEF Search
  <2> QED BY <2>1, <2>2, <2>3, <2>4
<1> QED BY <1>1, <1>2, Invariance, PTL DEF Spec

-----------------------------------------------------------------------------
\* The list as a sequence: s lists the n items in the order of their links.
Spine(s, n) ==
  /\ n \in Nat /\ s \in [1 .. n -> Node]
  /\ \A i, j \in 1 .. n : s[i] = s[j] => i = j
  /\ linked = {s[i] : i \in 1 .. n}
  /\ head = IF n = 0 THEN NULL ELSE s[1]
  /\ \A i \in 1 .. n : next[s[i]] = IF i = n THEN NULL ELSE s[i + 1]

\* InsertLink puts its item behind the last.
LEMMA SpineInsert ==
  ASSUME IInv, NEW t \in Thread, InsertLink(t), NEW n, NEW s, Spine(s, n)
  PROVE  \E r : Spine(r, n + 1)' /\ \A i \in 1 .. n : r[i] = s[i]
<1> USE NullAssumption DEF Ptr
<1>1. /\ t \in Inserters /\ cur[t] \in linked /\ next[cur[t]] = NULL
      /\ new[t] \in Node /\ new[t] \notin linked /\ next[new[t]] = NULL
      /\ next' = [next EXCEPT ![cur[t]] = new[t]] /\ linked' = linked \cup {new[t]}
      /\ head' = head /\ next \in [Node -> Ptr]
  BY DEF InsertLink, IInv, TypeOK, WalkersInList, NewIsPrivate
<1>2. n \in Nat /\ s \in [1 .. n -> Node] /\ n # 0 /\ cur[t] = s[n]
  BY <1>1 DEF Spine
<1>3. PICK r \in [1 .. n + 1 -> Node] : r[n + 1] = new[t] /\ \A i \in 1 .. n : r[i] = s[i]
  <2> DEFINE q == [i \in 1 .. n + 1 |-> IF i = n + 1 THEN new[t] ELSE s[i]]
  <2>1. q \in [1 .. n + 1 -> Node] /\ q[n + 1] = new[t] /\ \A i \in 1 .. n : q[i] = s[i]
    BY <1>1, <1>2
  <2> QED BY <2>1
<1>4. \A i \in 1 .. n : s[i] \in linked
  BY DEF Spine
<1>5. \A i, j \in 1 .. n + 1 : r[i] = r[j] => i = j
  BY <1>1, <1>2, <1>3, <1>4 DEF Spine
<1>6. linked' = {r[i] : i \in 1 .. n + 1}
  <2>1. \A i \in 1 .. n + 1 : r[i] \in linked'
    BY <1>1, <1>2, <1>3, <1>4
  <2>2. \A x \in linked : \E i \in 1 .. n + 1 : x = r[i]
    BY <1>2, <1>3 DEF Spine
  <2> QED BY <1>1, <1>2, <1>3, <2>1, <2>2
<1>7. head' = r[1]
  BY <1>1, <1>2, <1>3 DEF Spine
<1>8. \A i \in 1 .. n + 1 : next'[r[i]] = IF i = n + 1 THEN NULL ELSE r[i + 1]
  <2> SUFFICES ASSUME NEW i \in 1 .. n + 1
               PROVE  next'[r[i]] = IF i = n + 1 THEN NULL ELSE r[i + 1]
    OBVIOUS
  <2>1. CASE i = n + 1
    BY <1>1, <1>3, <2>1
  <2>2. CASE i = n
    BY <1>1, <1>2, <1>3, <2>2
  <2>3. CASE i < n
    <3>1. r[i] = s[i] /\ r[i + 1] = s[i + 1] /\ s[i] # s[n] /\ next[s[i]] = s[i + 1]
      BY <1>2, <1>3, <2>3 DEF Spine
    <3> QED BY <1>1, <1>2, <2>3, <3>1
  <2> QED BY <1>2, <2>1, <2>2, <2>3
<1> QED BY <1>2, <1>3, <1>5, <1>6, <1>7, <1>8 DEF Spine

\* DeleteUnlink cuts its item out.
LEMMA SpineDelete ==
  ASSUME IInv, NEW t \in Thread, DeleteUnlink(t), NEW n, NEW s, Spine(s, n)
  PROVE  \E r : Spine(r, n - 1)'
<1> USE NullAssumption DEF Ptr
<1>1. /\ cur[t] \in linked /\ linked' = linked \ {cur[t]} /\ next \in [Node -> Ptr]
      /\ cur[t] # head => prev[t] \in linked /\ next[prev[t]] = cur[t]
      /\ IF cur[t] = head THEN head' = next[cur[t]] /\ next' = next
         ELSE next' = [next EXCEPT ![prev[t]] = next[cur[t]]] /\ head' = head
  BY DEF DeleteUnlink, IInv, TypeOK, WalkersInList
<1>2. PICK k \in 1 .. n : cur[t] = s[k]
  BY <1>1 DEF Spine
<1>3. n \in Nat /\ n # 0 /\ s \in [1 .. n -> Node]
  BY DEF Spine
<1>4. PICK r \in [1 .. n - 1 -> Node] :
        \A i \in 1 .. n - 1 : r[i] = IF i < k THEN s[i] ELSE s[i + 1]
  <2> DEFINE q == [i \in 1 .. n - 1 |-> IF i < k THEN s[i] ELSE s[i + 1]]
  <2>1. q \in [1 .. n - 1 -> Node]
    BY <1>3
  <2> QED BY <2>1
<1>5. \A i, j \in 1 .. n - 1 : r[i] = r[j] => i = j
  BY <1>3, <1>4 DEF Spine
<1>6. linked' = {r[i] : i \in 1 .. n - 1}
  <2>1. ASSUME NEW x \in linked' PROVE \E i \in 1 .. n - 1 : x = r[i]
    <3>1. PICK j \in 1 .. n : x = s[j] /\ j # k
      BY <1>1, <1>2, <2>1 DEF Spine
    <3>2. CASE j < k
      BY <1>3, <1>4, <3>1, <3>2
    <3>3. CASE j > k
      BY <1>3, <1>4, <3>1, <3>3, j - 1 \in 1 .. n - 1, (j - 1) + 1 = j
    <3> QED BY <3>1, <3>2, <3>3
  <2>2. ASSUME NEW i \in 1 .. n - 1 PROVE r[i] \in linked'
    BY <1>1, <1>2, <1>3, <1>4 DEF Spine
  <2> QED BY <2>1, <2>2
<1>7. CASE k = 1
  <2>1. cur[t] = head /\ next' = next
    BY <1>1, <1>2, <1>7 DEF Spine
  <2>2. head' = IF n - 1 = 0 THEN NULL ELSE r[1]
    BY <1>1, <1>2, <1>3, <1>4, <1>7, <2>1 DEF Spine
  <2>3. \A i \in 1 .. n - 1 : next'[r[i]] = IF i = n - 1 THEN NULL ELSE r[i + 1]
    BY <1>3, <1>4, <1>7, <2>1 DEF Spine
  <2> QED BY <1>3, <1>4, <1>5, <1>6, <2>2, <2>3 DEF Spine
<1>8. CASE k # 1
  <2>1. cur[t] # head /\ prev[t] \in linked /\ next[prev[t]] = cur[t]
    BY <1>1, <1>2, <1>3, <1>8 DEF Spine
  <2>2. PICK m \in 1 .. n : prev[t] = s[m]
    BY <2>1 DEF Spine
  <2>3. m = k - 1
    BY <1>2, <1>3, <2>1, <2>2 DEF Spine
  <2>4. head' = r[1] /\ n - 1 # 0
    BY <1>1, <1>3, <1>4, <1>8, <2>1 DEF Spine
  <2>5. next' = [next EXCEPT ![s[m]] = next[s[k]]]
    BY <1>1, <1>2, <2>1, <2>2
  <2>6. ASSUME NEW i \in 1 .. n - 1
        PROVE  next'[r[i]] = IF i = n - 1 THEN NULL ELSE r[i + 1]
    <3>1. CASE i = m
      BY <1>1, <1>3, <1>4, <2>3, <2>5, <3>1 DEF Spine
    <3>2. CASE i < m
      BY <1>1, <1>3, <1>4, <2>3, <2>5, <3>2 DEF Spine
    <3>3. CASE i > m
      <4>1. r[i] = s[i + 1] /\ (i # n - 1 => r[i + 1] = s[i + 2]) /\ i + 1 \in 1 .. n
        BY <1>3, <1>4, <2>3, <3>3
      <4>2. s[i + 1] # s[m] /\ next[s[i + 1]] = IF i + 1 = n THEN NULL ELSE s[i + 2]
        BY <1>3, <2>3, <3>3, <4>1 DEF Spine
      <4> QED BY <1>1, <1>3, <2>5, <4>1, <4>2
    <3> QED BY <1>3, <3>1, <3>2, <3>3
  <2> QED BY <1>3, <1>4, <1>5, <1>6, <2>4, <2>6 DEF Spine
<1> QED BY <1>7, <1>8

\* No other step changes the sequence.
LEMMA SpineElse ==
  ASSUME IInv, NEW t \in Thread, Step(t), ~InsertLink(t), ~DeleteUnlink(t),
         NEW n, NEW s, Spine(s, n)
  PROVE  Spine(s, n)' /\ linked' = linked
<1>1. /\ head' = head /\ linked' = linked
      /\ \A m \in linked : next'[m] = next[m]
  <2> USE NullAssumption DEF IInv, TypeOK, ListWellFormed, Ptr
  <2>1. CASE InsertLock(t)
    BY <2>1 DEF InsertLock
  <2>2. CASE DeleteFree(t)
    BY <2>2 DEF DeleteFree, WalkersInList
  <2>3. CASE ~InsertLock(t) /\ ~DeleteFree(t)
    BY <2>3 DEF list, Step, Size, CountStart, CountStep, CountEnd, Segfault,
                Insert, InsertBusy, InsertWalk, InsertUnlock,
                Delete, DeleteLock, DeleteBusy, DeleteLockSearch, DeleteBusySearch,
                DeleteWalk, DeleteMiss, DeleteUnlockSearch, DeleteUnlock,
                Search, SearchLock, SearchWalk, SearchUnlock
  <2> QED BY <2>1, <2>2, <2>3
<1>2. \A i \in 1 .. n : s[i] \in linked
  BY DEF Spine
<1> QED BY <1>1, <1>2 DEF Spine

\* The inserters whose count has ended below the limit, and who have not linked
\* their item yet.
Passed ==
  {t \in Inserters : \/ pc[t] \in {"lock", "walk"}
                     \/ pc[t] = "count" /\ cur[t] = NULL /\ cnt[t] < MaxSize}

\* As long as nothing has been deleted, a count is the position it has reached in
\* the list, and every inserter that has passed the test adds at most one item.
Counted(s, n) ==
  /\ \A t \in Inserters : pc[t] = "count" /\ cur[t] # NULL =>
       \E j \in 1 .. n : cur[t] = s[j] /\ cnt[t] = IF j - 1 < MaxSize THEN j - 1 ELSE MaxSize
  /\ n + Cardinality(Passed) <= MaxSize + Cardinality(Inserters) - 1

\* What is added to IInv for the length of the list.
SpineInv == \E n, s : Spine(s, n) /\ (~shrunk => Counted(s, n))

\* A step of t changes no other thread's count.
LEMMA OthersCount ==
  ASSUME IInv, NEW t \in Thread, Step(t), NEW u \in Thread, u # t
  PROVE  pc'[u] = pc[u] /\ cur'[u] = cur[u] /\ cnt'[u] = cnt[u]
<1> USE DEF IInv, TypeOK, Goto, Point, locals
<1>1. CASE CountStep(t)
  BY <1>1 DEF CountStep
<1>2. CASE ~CountStep(t)
  BY <1>2 DEF Step, Size, CountStart, CountEnd, Segfault,
              Insert, InsertLock, InsertBusy, InsertWalk, InsertLink, InsertUnlock,
              Delete, DeleteLock, DeleteBusy, DeleteLockSearch, DeleteBusySearch, DeleteWalk,
              DeleteUnlink, DeleteFree, DeleteMiss, DeleteUnlockSearch, DeleteUnlock,
              Search, SearchLock, SearchWalk, SearchUnlock
<1> QED BY <1>1, <1>2

\* So it changes the set of those that have passed by itself at most.
LEMMA PassedOthers ==
  ASSUME IInv, NEW t \in Thread, Step(t)
  PROVE  /\ Passed' \ {t} = Passed \ {t}
         /\ IsFiniteSet(Passed) /\ IsFiniteSet(Passed')
         /\ Cardinality(Passed) \in Nat /\ Cardinality(Inserters) \in Nat
         /\ Cardinality(Passed') \in Nat /\ Cardinality(Passed') <= Cardinality(Inserters)
         /\ t \notin Passed' \/ t \in Passed => Cardinality(Passed') <= Cardinality(Passed)
         /\ t \notin Passed' /\ t \in Passed => Cardinality(Passed') = Cardinality(Passed) - 1
<1>1. \A u \in Inserters : u # t => (u \in Passed' <=> u \in Passed)
  BY OthersCount DEF Passed, Thread
<1>2. Passed \subseteq Inserters /\ Passed' \subseteq Inserters
  BY DEF Passed
<1>3. Passed' \ {t} = Passed \ {t}
  BY <1>1, <1>2
<1>4. /\ IsFiniteSet(Passed) /\ IsFiniteSet(Passed')
      /\ Cardinality(Passed') <= Cardinality(Inserters)
  BY <1>2, FiniteAssumption, FS_Subset
<1>5. /\ Cardinality(Passed) \in Nat /\ Cardinality(Inserters) \in Nat
      /\ Cardinality(Passed') \in Nat
  BY <1>4, FiniteAssumption, FS_CardinalityType
<1>6. ASSUME t \notin Passed' \/ t \in Passed
      PROVE  Cardinality(Passed') <= Cardinality(Passed)
  <2>1. Passed' \subseteq Passed
    BY <1>3, <1>6
  <2> QED BY <1>4, <2>1, FS_Subset
<1>7. ASSUME t \notin Passed', t \in Passed
      PROVE  Cardinality(Passed') = Cardinality(Passed) - 1
  <2>1. Passed' = Passed \ {t}
    BY <1>3, <1>7
  <2> QED BY <1>4, <1>7, <2>1, FS_RemoveElement
<1> QED BY <1>3, <1>4, <1>5, <1>6, <1>7

\* The list has a single item when the threads start.
LEMMA SpineInit == Init => SpineInv
<1> SUFFICES ASSUME Init PROVE SpineInv
  OBVIOUS
<1>1. PICK m \in Node : head = m /\ linked = {m} /\ next = [k \in Node |-> NULL]
  BY DEF Init
<1>2. Spine([i \in 1 .. 1 |-> m], 1)
  BY <1>1 DEF Spine
<1>3. Passed = {}
  BY DEF Init, Passed, Thread
<1>4. Cardinality(Passed) = 0 /\ Cardinality(Inserters) \in Nat
  BY <1>3, FS_EmptySet, FS_CardinalityType, FiniteAssumption
<1>5. Counted([i \in 1 .. 1 |-> m], 1)
  BY <1>4, MaxSizeAssumption DEF Counted, Init, Thread
<1> QED BY <1>2, <1>5 DEF SpineInv

\* A count that goes on reads the link of an item, and knows its position.
LEMMA CountStepCounted ==
  ASSUME IInv, NEW t \in Thread, Step(t), CountStep(t), ~shrunk',
         NEW n, NEW s, Spine(s, n), Counted(s, n), linked' = linked
  PROVE  Counted(s, n)'
<1> USE NullAssumption, ThreadAssumption, MaxSizeAssumption DEF Thread
<1>0. /\ pc[t] = "count" /\ pc' = pc /\ cur[t] # NULL
      /\ \E p \in Link(cur[t]) : cur' = [cur EXCEPT ![t] = p]
      /\ cnt' = [cnt EXCEPT ![t] = IF @ < MaxSize THEN @ + 1 ELSE @]
      /\ cur \in [Thread -> Ptr] /\ cnt \in [Thread -> 0 .. MaxSize]
  BY DEF CountStep, Point, IInv, TypeOK
<1>1. n \in Nat
  BY DEF Spine
<1>2. n + Cardinality(Passed) <= MaxSize + Cardinality(Inserters) - 1
  BY DEF Counted
<1>3. CASE t \in Inserters
  <2>1. PICK j \in 1 .. n : cur[t] = s[j] /\ cnt[t] = IF j - 1 < MaxSize THEN j - 1 ELSE MaxSize
    BY <1>0, <1>3 DEF Counted
  <2>2. Link(cur[t]) = {next[s[j]]}
    BY <2>1 DEF Link, IInv, ListWellFormed, Spine
  <2>3. cur' = [cur EXCEPT ![t] = next[s[j]]]
    BY <1>0, <2>2
  <2>4. cur'[t] = IF j = n THEN NULL ELSE s[j + 1]
    BY <1>0, <2>3 DEF Spine
  <2>5. cnt'[t] = IF j < MaxSize THEN j ELSE MaxSize
    BY <1>0, <1>1, <2>1
  <2>6. ASSUME NEW u \in Inserters, pc'[u] = "count", cur'[u] # NULL
        PROVE  \E i \in 1 .. n : /\ cur'[u] = s[i]
                                 /\ cnt'[u] = IF i - 1 < MaxSize THEN i - 1 ELSE MaxSize
    <3>1. CASE u = t
      BY <1>1, <2>4, <2>5, <2>6, <3>1, j + 1 \in 1 .. n, (j + 1) - 1 = j
    <3>2. CASE u # t
      BY <1>0, <2>6, <3>2 DEF Counted
    <3> QED BY <3>1, <3>2
  <2>7. t \in Passed' => n <= MaxSize - 1
    BY <1>0, <1>1, <2>4, <2>5 DEF Passed, Spine
  <2>8. n + Cardinality(Passed') <= MaxSize + Cardinality(Inserters) - 1
    BY <1>1, <1>2, <2>7, PassedOthers
  <2> QED BY <2>6, <2>8 DEF Counted
<1>4. CASE t \notin Inserters
  <2>1. t \notin Passed'
    BY <1>4 DEF Passed
  <2>2. n + Cardinality(Passed') <= MaxSize + Cardinality(Inserters) - 1
    BY <1>1, <1>2, <2>1, PassedOthers
  <2>3. \A u \in Inserters : pc'[u] = pc[u] /\ cur'[u] = cur[u] /\ cnt'[u] = cnt[u]
    BY <1>4, OthersCount
  <2> QED BY <2>2, <2>3 DEF Counted
<1> QED BY <1>3, <1>4

\* Where a count starts.
LEMMA CountStartCounted ==
  ASSUME IInv, NEW t \in Thread, Step(t), CountStart(t),
         NEW n, NEW s, Spine(s, n), Counted(s, n)
  PROVE  Counted(s, n)'
<1> USE NullAssumption, ThreadAssumption, MaxSizeAssumption DEF Thread
<1>1. pc'[t] = "count" /\ cur'[t] = head /\ cnt'[t] = 0 /\ n \in Nat
  BY DEF CountStart, Point, Goto, IInv, TypeOK, Spine
<1>2. cur'[t] # NULL => n >= 1 /\ cur'[t] = s[1]
  BY <1>1 DEF Spine
<1>3. t \in Passed' => n <= MaxSize - 1
  <2>1. s \in [1 .. n -> Node] /\ (n # 0 => head = s[1])
    BY DEF Spine
  <2> QED BY <1>1, <2>1 DEF Passed
<1>4. n + Cardinality(Passed') <= MaxSize + Cardinality(Inserters) - 1
  BY <1>1, <1>3, PassedOthers DEF Counted
<1>5. ASSUME NEW u \in Inserters, pc'[u] = "count", cur'[u] # NULL
      PROVE  \E i \in 1 .. n : /\ cur'[u] = s[i]
                               /\ cnt'[u] = IF i - 1 < MaxSize THEN i - 1 ELSE MaxSize
  <2>1. CASE u = t
    BY <1>1, <1>2, <1>5, <2>1, 1 \in 1 .. n, 1 - 1 = 0
  <2>2. CASE u # t
    BY <1>5, <2>2, OthersCount DEF Counted
  <2> QED BY <2>1, <2>2
<1> QED BY <1>4, <1>5 DEF Counted

\* No other step counts, or lets anybody pass.
LEMMA ElseCounted ==
  ASSUME IInv, NEW t \in Thread, Step(t), ~CountStep(t), ~CountStart(t), ~DeleteUnlink(t),
         NEW n, NEW s, Spine(s, n), Counted(s, n)
  PROVE  /\ \A u \in Inserters : pc'[u] = "count" /\ cur'[u] # NULL =>
                \E j \in 1 .. n : /\ cur'[u] = s[j]
                                  /\ cnt'[u] = IF j - 1 < MaxSize THEN j - 1 ELSE MaxSize
         /\ n + Cardinality(Passed') + (IF InsertLink(t) THEN 1 ELSE 0)
              <= MaxSize + Cardinality(Inserters) - 1
<1> USE ThreadAssumption DEF Thread
<1>1. \/ pc'[t] # "count"
      \/ pc'[t] = pc[t] /\ cur'[t] = cur[t] /\ cnt'[t] = cnt[t]
  BY DEF Step, Size, CountEnd, Segfault, locals, Goto, IInv, TypeOK,
         Insert, InsertLock, InsertBusy, InsertWalk, InsertLink, InsertUnlock,
         Delete, DeleteLock, DeleteBusy, DeleteLockSearch, DeleteBusySearch, DeleteWalk,
         DeleteFree, DeleteMiss, DeleteUnlockSearch, DeleteUnlock,
         Search, SearchLock, SearchWalk, SearchUnlock
<1>2. t \in Inserters /\ pc'[t] \in {"lock", "walk"} => t \in Passed
  BY DEF Passed, SizeAllows, Step, Size, CountEnd, Segfault, locals, Goto, IInv, TypeOK,
         Insert, InsertLock, InsertBusy, InsertWalk, InsertLink, InsertUnlock,
         Delete, DeleteLock, DeleteBusy, DeleteLockSearch, DeleteBusySearch, DeleteWalk,
         DeleteFree, DeleteMiss, DeleteUnlockSearch, DeleteUnlock,
         Search, SearchLock, SearchWalk, SearchUnlock
<1>3. t \in Passed' => t \in Passed
  BY <1>1, <1>2 DEF Passed
<1>4. InsertLink(t) => t \in Passed /\ t \notin Passed'
  BY DEF InsertLink, Passed, Goto, IInv, TypeOK
<1>5. n \in Nat /\ n + Cardinality(Passed) <= MaxSize + Cardinality(Inserters) - 1
  BY DEF Spine, Counted
<1>6. n + Cardinality(Passed') + (IF InsertLink(t) THEN 1 ELSE 0)
        <= MaxSize + Cardinality(Inserters) - 1
  <2> HIDE DEF Thread
  <2>1. CASE InsertLink(t)
    BY <1>4, <1>5, <2>1, PassedOthers, MaxSizeAssumption
  <2>2. CASE ~InsertLink(t)
    BY <1>3, <1>5, <2>2, PassedOthers, MaxSizeAssumption
  <2> QED BY <2>1, <2>2
<1>7. ASSUME NEW u \in Inserters, pc'[u] = "count", cur'[u] # NULL
      PROVE  pc[u] = "count" /\ cur'[u] = cur[u] /\ cnt'[u] = cnt[u]
  BY <1>1, <1>7, OthersCount
<1> QED BY <1>6, <1>7 DEF Counted

\* Every step keeps the items in a sequence, and the count of them.
LEMMA SpineNext == IInv /\ SpineInv /\ [Next]_vars => SpineInv'
<1> SUFFICES ASSUME IInv, SpineInv, NEW t \in Thread, Step(t) PROVE SpineInv'
  <2>1. ASSUME SpineInv, UNCHANGED vars PROVE SpineInv'
    <3>1. PICK n, s : Spine(s, n) /\ (~shrunk => Counted(s, n))
      BY <2>1 DEF SpineInv
    <3>2. Spine(s, n)' /\ shrunk' = shrunk
      BY <2>1, <3>1 DEF vars, list, Spine
    <3>3. Passed' = Passed
      BY <2>1 DEF vars, locals, Passed
    <3>4. Counted(s, n) => Counted(s, n)'
      BY <2>1, <3>3 DEF vars, locals, Counted
    <3> QED BY <3>1, <3>2, <3>4 DEF SpineInv
  <2> QED BY <2>1 DEF Next
<1>1. PICK n, s : Spine(s, n) /\ (~shrunk => Counted(s, n))
  BY DEF SpineInv
<1>2. shrunk' = (shrunk \/ ~(linked \subseteq linked'))
  BY DEF Step
<1>3. CASE DeleteUnlink(t)
  <2>1. PICK r : Spine(r, n - 1)'
    BY <1>1, <1>3, SpineDelete
  <2>2. shrunk'
    BY <1>2, <1>3 DEF DeleteUnlink, IInv, WalkersInList
  <2> QED BY <2>1, <2>2 DEF SpineInv
<1>4. CASE InsertLink(t)
  <2>1. PICK r : Spine(r, n + 1)' /\ \A i \in 1 .. n : r[i] = s[i]
    BY <1>1, <1>4, SpineInsert
  <2>2. ASSUME ~shrunk' PROVE Counted(r, n + 1)'
    <3>1. Counted(s, n) /\ n \in Nat
      BY <1>1, <1>2, <2>2 DEF Spine
    <3>2. ~CountStep(t) /\ ~CountStart(t) /\ ~DeleteUnlink(t)
      BY <1>4, ThreadAssumption DEF InsertLink, CountStep, CountStart, DeleteUnlink
    <3>3. /\ \A u \in Inserters : pc'[u] = "count" /\ cur'[u] # NULL =>
                \E j \in 1 .. n : /\ cur'[u] = s[j]
                                  /\ cnt'[u] = IF j - 1 < MaxSize THEN j - 1 ELSE MaxSize
          /\ n + Cardinality(Passed') + 1 <= MaxSize + Cardinality(Inserters) - 1
      BY <1>1, <1>4, <3>1, <3>2, ElseCounted
    <3>4. (n + 1) + Cardinality(Passed') <= MaxSize + Cardinality(Inserters) - 1
      BY <3>1, <3>3, PassedOthers, MaxSizeAssumption
    <3>5. ASSUME NEW u \in Inserters, pc'[u] = "count", cur'[u] # NULL
          PROVE  \E j \in 1 .. n + 1 : /\ cur'[u] = r[j]
                                       /\ cnt'[u] = IF j - 1 < MaxSize THEN j - 1 ELSE MaxSize
      <4>1. PICK j \in 1 .. n : /\ cur'[u] = s[j]
                                /\ cnt'[u] = IF j - 1 < MaxSize THEN j - 1 ELSE MaxSize
        BY <3>3, <3>5
      <4> QED BY <2>1, <3>1, <4>1
    <3> QED BY <3>4, <3>5 DEF Counted
  <2> QED BY <2>1, <2>2 DEF SpineInv
<1>5. CASE ~DeleteUnlink(t) /\ ~InsertLink(t)
  <2>1. Spine(s, n)' /\ linked' = linked
    BY <1>1, <1>5, SpineElse
  <2>2. ASSUME ~shrunk' PROVE Counted(s, n)'
    <3>1. Counted(s, n)
      BY <1>1, <1>2, <2>2
    <3>2. CASE CountStep(t)
      BY <1>1, <2>1, <2>2, <3>1, <3>2, CountStepCounted
    <3>3. CASE CountStart(t)
      BY <1>1, <3>1, <3>3, CountStartCounted
    <3>4. CASE ~CountStep(t) /\ ~CountStart(t)
      <4>1. /\ \A u \in Inserters : pc'[u] = "count" /\ cur'[u] # NULL =>
                  \E j \in 1 .. n : /\ cur'[u] = s[j]
                                    /\ cnt'[u] = IF j - 1 < MaxSize THEN j - 1 ELSE MaxSize
            /\ n + Cardinality(Passed') + 0 <= MaxSize + Cardinality(Inserters) - 1
        BY <1>1, <1>5, <3>1, <3>4, ElseCounted
      <4>2. n + Cardinality(Passed') <= MaxSize + Cardinality(Inserters) - 1
        BY <1>1, <4>1, PassedOthers, MaxSizeAssumption DEF Spine
      <4> QED BY <4>1, <4>2 DEF Counted
    <3> QED BY <3>2, <3>3, <3>4
  <2> QED BY <2>1, <2>2 DEF SpineInv
<1> QED BY <1>3, <1>4, <1>5

\* The items are a sequence in every reachable state.
THEOREM SpineInvariance == Spec => []SpineInv
BY SpineInit, SpineNext, Invariance, PTL DEF Spec

\* A sequence of n different items has n items.
LEMMA SpineLength ==
  ASSUME NEW n, NEW s, Spine(s, n)
  PROVE  IsFiniteSet(linked) /\ Cardinality(linked) = n
<1>1. s \in Bijection(1 .. n, linked) /\ n \in Nat
  <2>1. n \in Nat /\ s \in [1 .. n -> linked]
    BY DEF Spine
  <2>2. \A i, j \in 1 .. n : s[i] = s[j] => i = j
    BY DEF Spine
  <2>3. \A x \in linked : \E i \in 1 .. n : s[i] = x
    BY DEF Spine
  <2> QED BY <2>1, <2>2, <2>3 DEF Bijection, Injection, IsInjective, Surjection
<1>2. ExistsBijection(1 .. n, linked)
  BY <1>1 DEF ExistsBijection
<1> QED BY <1>1, <1>2, FS_CountingElements, FS_NatBijection

\* Inserters alone exceed the limit by at most one item for each of them but one:
\* the stale test of the size costs no more.
THEOREM OvershootIsBounded == Spec => []OvershootBounded
<1>1. IInv /\ SpineInv => OvershootBounded
  <2> SUFFICES ASSUME IInv, SpineInv, ~shrunk
               PROVE  Cardinality(linked) <= MaxSize + Cardinality(Inserters) - 1
    BY DEF OvershootBounded
  <2>1. PICK n, s : Spine(s, n) /\ Counted(s, n)
    BY DEF SpineInv
  <2>2. Cardinality(linked) = n /\ n \in Nat
    BY <2>1, SpineLength DEF Spine
  <2>3. Cardinality(Passed) \in Nat /\ Cardinality(Inserters) \in Nat
    <3>1. Passed \subseteq Inserters
      BY DEF Passed
    <3> QED BY <3>1, FiniteAssumption, FS_Subset, FS_CardinalityType
  <2> QED BY <2>1, <2>2, <2>3, MaxSizeAssumption DEF Counted
<1> QED BY <1>1, Invariance, SpineInvariance, PTL

-----------------------------------------------------------------------------
\* One link further from a set of cells.
Onward(S) == S \cup ({next[m] : m \in S} \ {NULL})

\* A set that contains 0 and the successor of each of its numbers has them all.
LEMMA Induction ==
  ASSUME NEW S, 0 \in S, \A n \in Nat : n \in S => n + 1 \in S
  PROVE  \A n \in Nat : n \in S
<1> SUFFICES ASSUME Nat \ S # {} PROVE FALSE
  OBVIOUS
<1>1. PICK x \in Nat \ S : \A y \in Nat \ S : ~(<<y, x>> \in OpToRel(<, Nat))
  BY NatLessThanWellFounded, WFMin
<1>2. x # 0
  OBVIOUS
<1>3. x - 1 \in Nat /\ x - 1 < x /\ (x - 1) + 1 = x
  BY <1>2
<1>4. <<x - 1, x>> \in OpToRel(<, Nat)
  BY <1>3 DEF OpToRel
<1>5. x - 1 \in S
  BY <1>1, <1>3, <1>4, Zenon
<1> QED BY <1>3, <1>5

\* The first k + 1 items, in the order of their links.
FirstOf(s, n, k) == {s[i] : i \in {j \in 1 .. n : j <= k + 1}}

\* One link further from the first items are the first items and one more.
LEMMA OneFurther ==
  ASSUME NEW n, NEW s, Spine(s, n), NEW k \in Nat
  PROVE  Onward(FirstOf(s, n, k)) = FirstOf(s, n, k + 1)
<1> USE NullAssumption
<1>0. n \in Nat /\ s \in [1 .. n -> Node]
  BY DEF Spine
<1>2. \A i \in 1 .. n : next[s[i]] = IF i = n THEN NULL ELSE s[i + 1]
  BY DEF Spine
<1>3. ASSUME NEW x \in Onward(FirstOf(s, n, k)) PROVE x \in FirstOf(s, n, k + 1)
  <2>1. CASE x \in FirstOf(s, n, k)
    BY <1>0, <2>1 DEF FirstOf
  <2>2. CASE x \notin FirstOf(s, n, k)
    <3>1. PICK i \in 1 .. n : i <= k + 1 /\ x = next[s[i]] /\ x # NULL
      BY <1>3, <2>2 DEF Onward, FirstOf
    <3>2. i + 1 \in 1 .. n /\ i + 1 <= k + 1 + 1 /\ x = s[i + 1]
      BY <1>0, <1>2, <3>1
    <3> QED BY <3>2 DEF FirstOf
  <2> QED BY <2>1, <2>2
<1>4. ASSUME NEW x \in FirstOf(s, n, k + 1) PROVE x \in Onward(FirstOf(s, n, k))
  <2>1. PICK i \in 1 .. n : i <= k + 1 + 1 /\ x = s[i]
    BY <1>4 DEF FirstOf
  <2>2. CASE i <= k + 1
    BY <2>1, <2>2 DEF Onward, FirstOf
  <2>3. CASE i = k + 2
    <3>1. i - 1 \in 1 .. n /\ i - 1 <= k + 1 /\ i - 1 # n /\ (i - 1) + 1 = i
      BY <1>0, <2>1, <2>3
    <3>2. s[i - 1] \in FirstOf(s, n, k) /\ next[s[i - 1]] = x /\ x # NULL
      BY <1>0, <1>2, <2>1, <3>1 DEF FirstOf
    <3> QED BY <3>2 DEF Onward
  <2> QED BY <1>0, <2>1, <2>2, <2>3
<1> QED BY <1>3, <1>4

\* Following k links from the head gives the first k + 1 items: they satisfy the
\* recursive definition of Reach, and nothing else does.
LEMMA ReachSpine ==
  ASSUME TypeOK, NEW n, NEW s, Spine(s, n)
  PROVE  \A k \in Nat : Reach[k] = FirstOf(s, n, k)
<1> USE NullAssumption DEF Ptr
<1> DEFINE Def(h) == [k \in Nat |-> IF k = 0 THEN {head} \ {NULL}
                                   ELSE h[k - 1] \cup ({next[m] : m \in h[k - 1]} \ {NULL})]
           f == [k \in Nat |-> FirstOf(s, n, k)]
<1>0. n \in Nat /\ s \in [1 .. n -> Node]
  BY DEF Spine
<1>1. FirstOf(s, n, 0) = {head} \ {NULL}
  <2>1. CASE n = 0
    BY <2>1 DEF Spine, FirstOf
  <2>2. CASE n # 0
    <3>1. {j \in 1 .. n : j <= 0 + 1} = {1}
      BY <1>0, <2>2
    <3>2. FirstOf(s, n, 0) = {s[1]}
      BY <3>1 DEF FirstOf
    <3> QED BY <1>0, <2>2, <3>2 DEF Spine
  <2> QED BY <2>1, <2>2
<1>2. f = Def(f)
  <2>1. ASSUME NEW k \in Nat, k # 0 PROVE FirstOf(s, n, k) = Onward(FirstOf(s, n, k - 1))
    <3>1. k - 1 \in Nat /\ (k - 1) + 1 = k
      BY <2>1
    <3> QED BY <3>1, OneFurther
  <2>2. \A k \in Nat : f[k] = IF k = 0 THEN {head} \ {NULL} ELSE Onward(f[k - 1])
    BY <1>1, <2>1
  <2> HIDE DEF f
  <2>3. DOMAIN f = Nat /\ f = [k \in Nat |-> f[k]]
    BY DEF f
  <2> QED BY <2>2, <2>3 DEF Onward
<1>3. Reach = Def(Reach)
  BY <1>2 DEF Reach
<1>4. Reach[0] = {head} \ {NULL} /\ \A k \in Nat : Reach[k + 1] = Onward(Reach[k])
  BY <1>3 DEF Onward
<1> DEFINE E == {k \in Nat : Reach[k] = FirstOf(s, n, k)}
<1>5. 0 \in E
  BY <1>1, <1>4
<1>6. ASSUME NEW k \in Nat, k \in E PROVE k + 1 \in E
  <2>1. Reach[k + 1] = FirstOf(s, n, k + 1)
    BY <1>4, <1>6, OneFurther
  <2> QED BY <2>1
<1> HIDE DEF E
<1>7. \A k \in Nat : k \in E
  BY <1>5, <1>6, Induction
<1> QED BY <1>7 DEF E

\* Every item can be found from the head, and nothing else can.
THEOREM NothingIsLost == Spec => []NothingLost
<1>1. IInv /\ SpineInv => NothingLost
  <2> SUFFICES ASSUME IInv, SpineInv PROVE Reach[Cardinality(Node)] = linked
    BY DEF NothingLost
  <2>1. PICK n, s : Spine(s, n)
    BY DEF SpineInv
  <2>2. n \in Nat /\ linked = {s[i] : i \in 1 .. n} /\ linked \subseteq Node
    BY <2>1 DEF Spine
  <2>3. n <= Cardinality(Node) /\ Cardinality(Node) \in Nat
    BY <2>1, <2>2, SpineLength, FiniteAssumption, FS_Subset, FS_CardinalityType
  <2>4. {j \in 1 .. n : j <= Cardinality(Node) + 1} = 1 .. n
    BY <2>2, <2>3
  <2>5. Reach[Cardinality(Node)] = {s[i] : i \in {j \in 1 .. n : j <= Cardinality(Node) + 1}}
    BY <2>1, <2>3, ReachSpine DEF IInv, FirstOf
  <2> QED BY <2>2, <2>4, <2>5
<1> QED BY <1>1, Invariance, SpineInvariance, PTL

-----------------------------------------------------------------------------
\* What an inserter leaves in a list with items when it gives insert_lock back.
Inserted ==
  \A t \in Inserters :
    pc[t] = "unlock" /\ head # NULL => new[t] \in linked /\ next[new[t]] = NULL

\* The item is linked behind the last one, and while its inserter holds insert_lock
\* nobody else changes the list.
LEMMA InsertedStep ==
  ASSUME IInv, Inserted, NEW t \in Thread, Step(t)
  PROVE  Inserted'
<1>0. head = NULL => head' = NULL
  BY HeadStaysNull
<1> USE ThreadAssumption, NullAssumption
    DEF IInv, TypeOK, LockOwners, Inserted, Thread, Ptr, Goto, list, locks, locals
<1>1. CASE InsertLock(t)
  BY <1>0, <1>1 DEF InsertLock
<1>2. CASE InsertLink(t)
  BY <1>2 DEF InsertLink, NewIsPrivate, WalkersInList
<1>3. CASE DeleteUnlink(t) \/ DeleteFree(t)
  BY <1>3 DEF DeleteUnlink, DeleteFree
<1>4. CASE InsertUnlock(t)
  BY <1>4 DEF InsertUnlock
<1>5. CASE Size(t)
  <2>1. UNCHANGED <<list, new>> /\ \A u \in Inserters : pc'[u] = "unlock" => pc[u] = "unlock"
    BY <1>5 DEF Size, CountStart, CountStep, CountEnd, Segfault
  <2> QED BY <2>1
<1>6. CASE InsertBusy(t) \/ InsertWalk(t) \/ Search(t)
  BY <1>6 DEF InsertBusy, InsertWalk, Search, SearchLock, SearchWalk, SearchUnlock
<1>7. CASE \/ DeleteLock(t) \/ DeleteBusy(t) \/ DeleteLockSearch(t) \/ DeleteBusySearch(t)
           \/ DeleteWalk(t) \/ DeleteMiss(t) \/ DeleteUnlockSearch(t) \/ DeleteUnlock(t)
  BY <1>7 DEF DeleteLock, DeleteBusy, DeleteLockSearch, DeleteBusySearch, DeleteWalk,
              DeleteMiss, DeleteUnlockSearch, DeleteUnlock
<1> QED BY <1>1, <1>2, <1>3, <1>4, <1>5, <1>6, <1>7 DEF Step, Insert, Delete

\* An insertion into a list with items makes its item the last one of the list.
THEOREM InsertionsLast == Spec => []InsertedIsLast
<1>1. Init => Inserted
  BY DEF Init, Inserted, Thread
<1>2. IInv /\ Inserted /\ [Next]_vars => Inserted'
  <2>1. ASSUME Inserted, UNCHANGED vars PROVE Inserted'
    BY <2>1 DEF vars, list, locals, Inserted
  <2>2. ASSUME IInv, Inserted, Next PROVE Inserted'
    BY <2>2, InsertedStep DEF Next
  <2> QED BY <2>1, <2>2
<1>3. Inserted /\ NothingLost => InsertedIsLast
  BY DEF Inserted, NothingLost, InsertedIsLast
<1> QED BY <1>1, <1>2, <1>3, Invariance, NothingIsLost, PTL DEF Spec
=============================================================================
