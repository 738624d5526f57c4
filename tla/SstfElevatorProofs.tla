------------------------- MODULE SstfElevatorProofs -------------------------
(***************************************************************************)
(* Proofs about SstfElevator, for any numbers of requests and sectors:     *)
(* whatever place add_req finds for a request, the queue has every request *)
(* that waits exactly once.                                                *)
(***************************************************************************)
EXTENDS SstfElevator, SequenceTheorems, TLAPS

\* The provers have more time for a leaf than they take by default.
USE SMTT(20), ZenonT(20)

\* list_add into a list.
LEMMA InsertAtProperties ==
  ASSUME NEW S, NEW s \in Seq(S), NEW i \in 1 .. Len(s) + 1, NEW x \in S
  PROVE  /\ InsertAt(s, i, x) \in Seq(S)
         /\ Len(InsertAt(s, i, x)) = Len(s) + 1
         /\ \A j \in 1 .. Len(s) + 1 :
              InsertAt(s, i, x)[j] =
                IF j < i THEN s[j] ELSE IF j = i THEN x ELSE s[j - 1]
<1> DEFINE a == SubSeq(s, 1, i - 1)
           c == SubSeq(s, i, Len(s))
<1>1. Len(s) \in Nat /\ \A j \in 1 .. Len(s) : s[j] \in S
  BY LenProperties
<1>2. a \in Seq(S) /\ Len(a) = i - 1 /\ \A j \in 1 .. i - 1 : a[j] = s[j]
  BY <1>1, SubSeqProperties
<1>3. c \in Seq(S) /\ Len(c) = Len(s) - i + 1 /\ \A j \in 1 .. Len(s) - i + 1 : c[j] = s[i + j - 1]
  BY <1>1, SubSeqProperties
<1>4. <<x>> \in Seq(S) /\ Len(<<x>>) = 1 /\ <<x>>[1] = x
  OBVIOUS
<1> DEFINE b == a \o <<x>>
<1> HIDE DEF a, c
<1>5. b \in Seq(S) /\ Len(b) = i /\ \A j \in 1 .. i : b[j] = IF j < i THEN s[j] ELSE x
  BY <1>1, <1>2, <1>4, ConcatProperties
<1> HIDE DEF b
<1>6. /\ b \o c \in Seq(S)
      /\ Len(b \o c) = Len(b) + Len(c)
      /\ \A j \in 1 .. Len(b) + Len(c) :
           (b \o c)[j] = IF j <= Len(b) THEN b[j] ELSE c[j - Len(b)]
  BY <1>3, <1>5, ConcatProperties
<1>7. \A j \in 1 .. Len(s) + 1 : j > i => c[j - i] = s[j - 1]
  BY <1>1, <1>3
<1>8. InsertAt(s, i, x) = b \o c
  BY DEF InsertAt, a, b, c
<1>9. Len(b) + Len(c) = Len(s) + 1
  BY <1>1, <1>3, <1>5
<1>10. \A j \in 1 .. Len(s) + 1 :
         (b \o c)[j] = IF j < i THEN s[j] ELSE IF j = i THEN x ELSE s[j - 1]
  BY <1>1, <1>5, <1>6, <1>7, <1>9
<1> QED BY <1>6, <1>8, <1>9, <1>10

\* list_del from it.
LEMMA RemoveAtProperties ==
  ASSUME NEW S, NEW s \in Seq(S), NEW i \in 1 .. Len(s)
  PROVE  /\ RemoveAt(s, i) \in Seq(S)
         /\ Len(RemoveAt(s, i)) = Len(s) - 1
         /\ \A j \in 1 .. Len(s) - 1 :
              RemoveAt(s, i)[j] = IF j < i THEN s[j] ELSE s[j + 1]
<1> DEFINE a == SubSeq(s, 1, i - 1)
           c == SubSeq(s, i + 1, Len(s))
<1>1. Len(s) \in Nat /\ \A j \in 1 .. Len(s) : s[j] \in S
  BY LenProperties
<1>2. a \in Seq(S) /\ Len(a) = i - 1 /\ \A j \in 1 .. i - 1 : a[j] = s[j]
  BY <1>1, SubSeqProperties
<1>3. c \in Seq(S) /\ Len(c) = Len(s) - i /\ \A j \in 1 .. Len(s) - i : c[j] = s[i + j]
  BY <1>1, SubSeqProperties
<1> HIDE DEF a, c
<1>4. /\ a \o c \in Seq(S)
      /\ Len(a \o c) = Len(a) + Len(c)
      /\ \A j \in 1 .. Len(a) + Len(c) :
           (a \o c)[j] = IF j <= Len(a) THEN a[j] ELSE c[j - Len(a)]
  BY <1>2, <1>3, ConcatProperties
<1>5. \A j \in 1 .. Len(s) - 1 : j >= i => c[j - (i - 1)] = s[j + 1]
  <2> SUFFICES ASSUME NEW j \in 1 .. Len(s) - 1, j >= i PROVE c[j - (i - 1)] = s[j + 1]
    OBVIOUS
  <2>1. j - (i - 1) \in 1 .. Len(s) - i /\ i + (j - (i - 1)) = j + 1
    BY <1>1
  <2> QED BY <1>3, <2>1
<1>6. RemoveAt(s, i) = a \o c
  BY DEF RemoveAt, a, c
<1>7. Len(a) + Len(c) = Len(s) - 1
  BY <1>1, <1>2, <1>3
<1>8. \A j \in 1 .. Len(s) - 1 : (a \o c)[j] = IF j < i THEN s[j] ELSE s[j + 1]
  BY <1>1, <1>2, <1>4, <1>5, <1>7
<1> QED BY <1>4, <1>6, <1>7, <1>8

-----------------------------------------------------------------------------
\* The inductive invariant.  A queue nobody is attached to is empty.
IInv == TypeOK /\ QueueExact /\ (~attached => queue = <<>>)

\* The invariant holds before an elevator is attached.
LEMMA InitInv == Init => IInv
<1> SUFFICES ASSUME Init PROVE IInv
  OBVIOUS
<1>1. attached \in BOOLEAN /\ draining \in BOOLEAN /\ hung \in BOOLEAN
  BY DEF Init
<1>2. queue \in Seq(Request) /\ Len(queue) = 0 /\ DOMAIN queue = {}
  BY EmptySeq DEF Init
<1> QED BY <1>1, <1>2 DEF Init, IInv, TypeOK, QueueExact

\* Every place lies in the queue, and none before its first request.
LEMMA PlaceRange ==
  ASSUME TypeOK, NEW p \in Sector, NEW i \in Place(p)
  PROVE  i \in 2 .. Len(queue) + 1
<1>1. Len(queue) \in Nat /\ DOMAIN queue = 1 .. Len(queue)
  BY LenProperties DEF TypeOK
<1>2. AtLeast(p) \subseteq 1 .. Len(queue)
  BY <1>1 DEF AtLeast
<1> QED BY <1>1, <1>2 DEF Place

\* A queue that has got one more request, at place i.
LEMMA Inserted ==
  ASSUME TypeOK, NEW r \in Request, NEW i \in 1 .. Len(queue) + 1,
         \A k, l \in DOMAIN queue : queue[k] = queue[l] => k = l,
         \A k \in DOMAIN queue : queue[k] # r
  PROVE  LET q == InsertAt(queue, i, r)
         IN  /\ q \in Seq(Request)
             /\ \A k, l \in DOMAIN q : q[k] = q[l] => k = l
             /\ \A u \in Request :
                  (\E k \in DOMAIN q : q[k] = u) <=> u = r \/ \E k \in DOMAIN queue : queue[k] = u
<1> DEFINE q == InsertAt(queue, i, r)
           n == Len(queue)
<1>1. queue \in Seq(Request) /\ n \in Nat /\ DOMAIN queue = 1 .. n
  BY LenProperties DEF TypeOK
<1>2. q \in Seq(Request) /\ DOMAIN q = 1 .. n + 1 /\ Len(q) = n + 1
  BY <1>1, InsertAtProperties, LenProperties
<1>3. \A j \in 1 .. n + 1 :
        q[j] = IF j < i THEN queue[j] ELSE IF j = i THEN r ELSE queue[j - 1]
  BY <1>1, InsertAtProperties
<1> HIDE DEF q
<1>4. ASSUME NEW k \in DOMAIN q, NEW l \in DOMAIN q, q[k] = q[l] PROVE k = l
  <2> DEFINE from(m) == IF m < i THEN m ELSE m - 1
  <2>1. \A m \in DOMAIN q : m # i => from(m) \in DOMAIN queue /\ q[m] = queue[from(m)]
    BY <1>1, <1>2, <1>3
  <2>2. q[i] = r
    BY <1>1, <1>3
  <2>3. k = i <=> l = i
    BY <1>4, <2>1, <2>2
  <2>4. k # i => from(k) = from(l)
    BY <1>4, <2>1, <2>3
  <2> QED BY <1>1, <1>2, <2>3, <2>4
<1>5. ASSUME NEW u \in Request
      PROVE  (\E k \in DOMAIN q : q[k] = u) <=> u = r \/ \E k \in DOMAIN queue : queue[k] = u
  <2>1. ASSUME NEW k \in DOMAIN q, q[k] = u, u # r PROVE \E l \in DOMAIN queue : queue[l] = u
    BY <1>1, <1>2, <1>3, <2>1
  <2>2. q[i] = r /\ i \in DOMAIN q
    BY <1>1, <1>2, <1>3
  <2>3. ASSUME NEW k \in DOMAIN queue PROVE \E l \in DOMAIN q : q[l] = queue[k]
    <3>1. CASE k < i
      BY <1>1, <1>2, <1>3, <3>1
    <3>2. CASE k >= i
      <4>1. k + 1 \in DOMAIN q /\ q[k + 1] = queue[k]
        BY <1>1, <1>2, <1>3, <3>2
      <4> QED BY <4>1
    <3> QED BY <1>1, <3>1, <3>2
  <2> QED BY <2>1, <2>2, <2>3
<1> QED BY <1>2, <1>4, <1>5 DEF q

\* A queue that has lost the request at place i.
LEMMA Removed ==
  ASSUME TypeOK, NEW i \in DOMAIN queue,
         \A k, l \in DOMAIN queue : queue[k] = queue[l] => k = l
  PROVE  LET q == RemoveAt(queue, i)
         IN  /\ q \in Seq(Request)
             /\ \A k, l \in DOMAIN q : q[k] = q[l] => k = l
             /\ \A u \in Request :
                  (\E k \in DOMAIN q : q[k] = u)
                    <=> u # queue[i] /\ \E k \in DOMAIN queue : queue[k] = u
<1> DEFINE q == RemoveAt(queue, i)
           n == Len(queue)
<1>1. queue \in Seq(Request) /\ n \in Nat /\ DOMAIN queue = 1 .. n
  BY LenProperties DEF TypeOK
<1>0. i \in 1 .. Len(queue)
  BY <1>1
<1>3. /\ q \in Seq(Request) /\ Len(q) = n - 1
      /\ \A j \in 1 .. n - 1 : q[j] = IF j < i THEN queue[j] ELSE queue[j + 1]
  BY ONLY <1>0, <1>1, RemoveAtProperties, Zenon
<1> HIDE DEF q
<1>2. q \in Seq(Request) /\ DOMAIN q = 1 .. n - 1
  BY <1>3, LenProperties
<1>4. ASSUME NEW k \in DOMAIN q, NEW l \in DOMAIN q, q[k] = q[l] PROVE k = l
  <2> DEFINE from(m) == IF m < i THEN m ELSE m + 1
  <2>1. \A m \in DOMAIN q : from(m) \in DOMAIN queue /\ q[m] = queue[from(m)]
    BY <1>1, <1>2, <1>3
  <2>2. from(k) = from(l)
    BY <1>4, <2>1
  <2> QED BY <1>1, <1>2, <2>2
<1>5. ASSUME NEW u \in Request
      PROVE  (\E k \in DOMAIN q : q[k] = u)
               <=> u # queue[i] /\ \E k \in DOMAIN queue : queue[k] = u
  <2>1. ASSUME NEW k \in DOMAIN q, q[k] = u
        PROVE  u # queue[i] /\ \E l \in DOMAIN queue : queue[l] = u
    BY <1>1, <1>2, <1>3, <2>1
  <2>2. ASSUME NEW k \in DOMAIN queue, queue[k] = u, u # queue[i]
        PROVE  \E l \in DOMAIN q : q[l] = u
    <3>1. CASE k < i
      BY <1>1, <1>2, <1>3, <2>2, <3>1
    <3>2. CASE k > i
      <4>1. k - 1 \in DOMAIN q /\ q[k - 1] = queue[k]
        BY <1>1, <1>2, <1>3, <3>2
      <4> QED BY <2>2, <4>1
    <3> QED BY <1>1, <2>2, <3>1, <3>2
  <2> QED BY <2>1, <2>2
<1> QED BY <1>2, <1>4, <1>5 DEF q

\* list_add_tail is an insertion behind the last.
LEMMA AppendIsInsert ==
  ASSUME NEW r \in Request, queue \in Seq(Request)
  PROVE  Append(queue, r) = InsertAt(queue, Len(queue) + 1, r)
<1>1. Len(queue) \in Nat
  BY LenProperties
<1>2. SubSeq(queue, 1, Len(queue)) = queue /\ SubSeq(queue, Len(queue) + 1, Len(queue)) = <<>>
  BY <1>1, SubSeqFull, SubSeqEmpty
<1>3. Append(queue, r) = queue \o <<r>> /\ Append(queue, r) \in Seq(Request)
  BY AppendIsConcat, AppendProperties
<1> QED BY <1>1, <1>2, <1>3, ConcatEmptySeq, SubSeqFull DEF InsertAt

\* add_req hangs, or it puts the request somewhere, and not before another one
\* that is first.
LEMMA AddInserts ==
  ASSUME IInv, NEW r \in Request, NEW p \in Sector, add_req(r, p)
  PROVE  \/ hung' = TRUE /\ queue' = queue
         \/ /\ hung' = hung
            /\ \E i \in 1 .. Len(queue) + 1 :
                 queue' = InsertAt(queue, i, r) /\ (i = 1 => queue = <<>>)
<1>1. queue \in Seq(Request) /\ Len(queue) \in Nat
  BY LenProperties DEF IInv, TypeOK
<1>2. Append(queue, r) = InsertAt(queue, Len(queue) + 1, r)
  BY <1>1, AppendIsInsert
<1>3. Len(queue) = 0 => queue = <<>>
  BY <1>1, EmptySeq
<1>4. CASE queue' = Append(queue, r) /\ hung' = hung
  <2>1. Len(queue) + 1 \in 1 .. Len(queue) + 1 /\ (Len(queue) + 1 = 1 => queue = <<>>)
    BY <1>1, <1>3
  <2> QED BY <1>2, <1>4, <2>1
<1>5. CASE queue = <<>> /\ queue' = <<r>> /\ hung' = hung
  <2>1. Append(queue, r) = <<r>>
    BY <1>5
  <2> QED BY <1>4, <1>5, <2>1
<1>6. ASSUME NEW i \in Place(p), queue' = InsertAt(queue, i, r), hung' = hung
      PROVE  /\ hung' = hung
             /\ \E j \in 1 .. Len(queue) + 1 :
                  queue' = InsertAt(queue, j, r) /\ (j = 1 => queue = <<>>)
  <2>1. i \in 2 .. Len(queue) + 1
    BY PlaceRange DEF IInv
  <2> QED BY <1>1, <1>6, <2>1
<1> QED BY <1>4, <1>5, <1>6 DEF add_req

-----------------------------------------------------------------------------
\* Every step keeps the invariant.
LEMMA NextInv == IInv /\ [Next]_vars => IInv'
<1> SUFFICES ASSUME IInv, [Next]_vars PROVE IInv'
  OBVIOUS
<1> USE DEF IInv
<1>0. <<>> \in Seq(Request) /\ DOMAIN <<>> = {}
  BY EmptySeq
<1>1. CASE init_sstf
  BY <1>0, <1>1 DEF init_sstf, TypeOK, QueueExact
<1>2. CASE Bypass
  BY <1>2 DEF Bypass, TypeOK, QueueExact
<1>3. CASE dispatch_req
  <2>1. queue \in Seq(Request) /\ queue # <<>> /\ Len(queue) \in Nat \ {0}
    BY <1>3, EmptySeq DEF dispatch_req, TypeOK
  <2>2. 1 \in DOMAIN queue /\ queue[1] = Head(queue)
    BY <2>1
  <2>3. Tail(queue) = RemoveAt(queue, 1)
    <3>1. SubSeq(queue, 1, 0) = <<>>
      BY <2>1, SubSeqEmpty
    <3>2. SubSeq(queue, 2, Len(queue)) \in Seq(Request)
      BY <2>1, TailIsSubSeq, HeadTailProperties
    <3> QED BY <2>1, <3>1, <3>2, TailIsSubSeq, ConcatEmptySeq DEF RemoveAt
  <2>4. /\ queue' \in Seq(Request)
        /\ \A k, l \in DOMAIN queue' : queue'[k] = queue'[l] => k = l
        /\ \A u \in Request : (\E k \in DOMAIN queue' : queue'[k] = u)
             <=> u # Head(queue) /\ \E k \in DOMAIN queue : queue[k] = u
    <3>1. PICK i \in DOMAIN queue : i = 1
      BY <2>2
    <3>2. queue' = RemoveAt(queue, i) /\ queue[i] = Head(queue)
      BY <1>3, <2>2, <2>3, <3>1 DEF dispatch_req
    <3> QED BY <3>2, Removed DEF QueueExact
  <2> QED BY <1>3, <2>1, <2>2, <2>4 DEF dispatch_req, TypeOK, QueueExact
<1>4. CASE exit_sstf
  BY <1>0, <1>4 DEF exit_sstf, Drained, TypeOK, QueueExact
<1>5. ASSUME NEW r \in Request, NEW p \in Sector, add_req(r, p) PROVE IInv'
  <2>1. TypeOK /\ attached /\ ~hung /\ \A k \in DOMAIN queue : queue[k] # r
    BY <1>5 DEF add_req, QueueExact
  <2>2. ASSUME NEW i \in 1 .. Len(queue) + 1, queue' = InsertAt(queue, i, r), hung' = hung
        PROVE  IInv'
    <3>1. /\ queue' \in Seq(Request)
          /\ \A k, l \in DOMAIN queue' : queue'[k] = queue'[l] => k = l
          /\ \A u \in Request : (\E k \in DOMAIN queue' : queue'[k] = u)
               <=> u = r \/ \E k \in DOMAIN queue : queue[k] = u
      BY <2>1, <2>2, Inserted DEF QueueExact
    <3> QED BY <1>5, <2>1, <2>2, <3>1 DEF add_req, TypeOK, QueueExact
  <2>3. CASE hung' = TRUE /\ queue' = queue
    BY <1>5, <2>1, <2>3 DEF add_req, TypeOK, QueueExact
  <2> QED BY <1>5, <2>2, <2>3, AddInserts
<1>6. ASSUME NEW r \in Request, NEW next \in Request, merge_req(r, next) PROVE IInv'
  <2>1. PICK i \in DOMAIN queue : queue[i] = next /\ queue' = RemoveAt(queue, i)
    BY <1>6 DEF merge_req
  <2>2. /\ queue' \in Seq(Request)
        /\ \A k, l \in DOMAIN queue' : queue'[k] = queue'[l] => k = l
        /\ \A u \in Request : (\E k \in DOMAIN queue' : queue'[k] = u)
             <=> u # next /\ \E k \in DOMAIN queue : queue[k] = u
    BY <2>1, Removed DEF QueueExact
  <2> QED BY <1>6, <2>2 DEF merge_req, TypeOK, QueueExact
<1>7. ASSUME NEW r \in Request, Complete(r) PROVE IInv'
  BY <1>7 DEF Complete, TypeOK, QueueExact
<1>8. CASE UNCHANGED vars
  BY <1>8 DEF vars, TypeOK, QueueExact
<1> QED BY <1>1, <1>2, <1>3, <1>4, <1>5, <1>6, <1>7, <1>8 DEF Next

\* The invariant holds in every state, for any requests and sectors.
THEOREM Invariance == Spec => []IInv
BY InitInv, NextInv, PTL DEF Spec

\* The variables keep their types.
THEOREM TypeCorrect == Spec => []TypeOK
<1>1. IInv => TypeOK
  BY DEF IInv
<1> QED BY Invariance, <1>1, PTL

\* The queue has every request that waits exactly once, and no other.
THEOREM QueueCorrect == Spec => []QueueExact
<1>1. IInv => QueueExact
  BY DEF IInv
<1> QED BY Invariance, <1>1, PTL

\* The BUG_ON of exit_sstf never fires.
THEOREM ExitCorrect == Spec => []NoBug
<1>1. IInv => NoBug
  <2> SUFFICES ASSUME IInv, Drained, ~hung, queue # <<>> PROVE FALSE
    BY DEF NoBug
  <2>1. queue \in Seq(Request) /\ Len(queue) \in Nat \ {0}
    BY EmptySeq DEF IInv, TypeOK
  <2>2. 1 \in DOMAIN queue /\ queue[1] \in Request
    BY <2>1, ElementOfSeq
  <2>3. state[queue[1]] = "queued"
    BY <2>2 DEF IInv, QueueExact
  <2> QED BY <2>2, <2>3 DEF Drained
<1> QED BY Invariance, <1>1, PTL

\* Only add_req puts a request into the queue that was free before.
LEMMA ArrivalIsAdded ==
  ASSUME IInv, Next, NEW r \in Request, state[r] = "free", NEW i \in DOMAIN queue', queue'[i] = r
  PROVE  \E p \in Sector : add_req(r, p)
<1>1. queue \in Seq(Request) /\ Len(queue) \in Nat /\ DOMAIN queue = 1 .. Len(queue)
  BY LenProperties DEF IInv, TypeOK
<1>2. ~hung => \A k \in DOMAIN queue : queue[k] # r
  BY DEF IInv, QueueExact
<1>3. ~init_sstf /\ ~exit_sstf
  BY EmptySeq DEF init_sstf, exit_sstf
<1>4. ~Bypass /\ \A u \in Request : ~Complete(u)
  BY <1>2 DEF Bypass, Complete
<1>5. ~dispatch_req
  <2> SUFFICES ASSUME dispatch_req PROVE FALSE
    OBVIOUS
  <2>1. queue # <<>> /\ queue' = Tail(queue) /\ ~hung
    BY DEF dispatch_req
  <2>2. /\ queue' \in Seq(Request) /\ Len(queue') = Len(queue) - 1
        /\ \A k \in 1 .. Len(queue') : queue'[k] = queue[k + 1]
    BY <1>1, <2>1, HeadTailProperties
  <2>3. DOMAIN queue' = 1 .. Len(queue')
    BY <2>2, LenProperties
  <2>4. i + 1 \in DOMAIN queue /\ queue'[i] = queue[i + 1]
    BY <1>1, <2>2, <2>3
  <2> QED BY <1>2, <2>1, <2>4
<1>6. ASSUME NEW u \in Request, NEW v \in Request, merge_req(u, v) PROVE FALSE
  <2>1. PICK k \in DOMAIN queue : queue[k] = v /\ queue' = RemoveAt(queue, k)
    BY <1>6 DEF merge_req
  <2>2. \A w \in Request : (\E l \in DOMAIN queue' : queue'[l] = w)
          => \E l \in DOMAIN queue : queue[l] = w
    BY <2>1, Removed DEF IInv, QueueExact
  <2>3. ~hung
    BY <1>6 DEF merge_req
  <2> QED BY <1>2, <2>2, <2>3
<1>7. PICK u \in Request, p \in Sector : add_req(u, p)
  BY <1>3, <1>4, <1>5, <1>6 DEF Next
<1>8. u = r
  <2>1. ~hung
    BY <1>7 DEF add_req
  <2>2. \A k \in DOMAIN queue : queue[k] # u
    BY <1>7 DEF add_req, IInv, QueueExact
  <2>3. CASE queue' = queue
    BY <1>2, <2>1, <2>3
  <2>4. CASE queue' # queue
    <3>1. PICK k \in 1 .. Len(queue) + 1 : queue' = InsertAt(queue, k, u)
      BY <1>7, <2>4, AddInserts
    <3>2. TypeOK /\ \A l, m \in DOMAIN queue : queue[l] = queue[m] => l = m
      BY DEF IInv, QueueExact
    <3>3. \A w \in Request : (\E l \in DOMAIN queue' : queue'[l] = w)
            <=> w = u \/ \E l \in DOMAIN queue : queue[l] = w
      <4>1. LET q == InsertAt(queue, k, u)
            IN  \A w \in Request : (\E l \in DOMAIN q : q[l] = w)
                  <=> w = u \/ \E l \in DOMAIN queue : queue[l] = w
        BY <2>2, <3>1, <3>2, Inserted
      <4> QED BY <3>1, <4>1
    <3> QED BY <1>2, <2>1, <3>3
  <2> QED BY <2>3, <2>4
<1> QED BY <1>7, <1>8

\* A request above the first goes behind all those below it that come before the
\* first that is not: the forward walk of add_req ends in the right place.
THEOREM ForwardCorrect == Spec => ForwardInPlace
<1> DEFINE Ahead(r, i) == /\ \A j \in 1 .. i - 1 : pos[queue'[j]] < pos'[r]
                          /\ i = Len(queue') \/ pos[queue'[i + 1]] >= pos'[r]
           InPlace == \A r \in Request, i \in DOMAIN queue' :
                        /\ state[r] = "free" /\ queue'[i] = r
                        /\ queue # <<>> /\ pos'[r] > pos[queue[1]]
                        => Ahead(r, i)
<1>1. IInv /\ [Next]_vars => [InPlace]_vars
  <2> SUFFICES ASSUME IInv, Next, NEW r \in Request, NEW i \in DOMAIN queue',
                      state[r] = "free", queue'[i] = r, queue # <<>>, pos'[r] > pos[queue[1]]
               PROVE  Ahead(r, i)
    BY DEF vars
  <2>1. PICK p \in Sector : add_req(r, p)
    BY ArrivalIsAdded
  <2>2. PICK n : n = Len(queue)
    OBVIOUS
  <2>3. queue \in Seq(Request) /\ n \in Nat \ {0} /\ DOMAIN queue = 1 .. n
    BY <2>2, LenProperties, EmptySeq DEF IInv, TypeOK
  <2>4. pos' = [pos EXCEPT ![r] = p] /\ pos'[r] = p /\ pos \in [Request -> Sector]
    BY <2>1 DEF add_req, IInv, TypeOK
  <2>5. \A k \in 1 .. n : queue[k] # r /\ queue[k] \in Request /\ pos[queue[k]] \in Int
    <3>1. \A k \in 1 .. n : queue[k] # r
      BY <2>1, <2>3 DEF add_req, IInv, QueueExact
    <3>2. \A k \in 1 .. n : queue[k] \in Request
      BY <2>2, <2>3, ElementOfSeq
    <3>3. \A u \in Request : pos[u] \in Int
      <4>1. \A u \in Request : pos[u] \in Sector
        BY <2>4, Zenon
      <4>2. \A x \in Sector : x \in Int
        BY SectorAssumption
      <4> QED BY <4>1, <4>2, Zenon
    <3> QED BY <3>1, <3>2, <3>3
  <2>6. p \in Int /\ \A k \in 1 .. n : k \in AtLeast(p) <=> pos[queue[k]] >= p
    BY <2>3, SectorAssumption DEF AtLeast
  <2>7. 1 \notin AtLeast(p)
    BY <2>3, <2>4, <2>5, <2>6
  <2>8. PICK k \in 1 .. n + 1 :
          /\ queue' = InsertAt(queue, k, r)
          /\ \A j \in 1 .. k - 1 : j \notin AtLeast(p)
          /\ k = n + 1 \/ k \in AtLeast(p)
    <3>1. CASE \E k \in Place(p) : queue' = InsertAt(queue, k, r)
      <4>1. PICK k \in Place(p) : queue' = InsertAt(queue, k, r)
        BY <3>1
      <4>2. k \in AtLeast(p) /\ \A j \in AtLeast(p) : k <= j
        BY <2>7, <4>1 DEF Place
      <4>3. k \in 1 .. n /\ AtLeast(p) \subseteq 1 .. n
        BY <2>3, <4>2 DEF AtLeast
      <4>4. \A j \in 1 .. k - 1 : j \notin AtLeast(p)
        BY <4>2, <4>3
      <4> QED BY <2>3, <4>1, <4>2, <4>3, <4>4
    <3>2. CASE ~\E k \in Place(p) : queue' = InsertAt(queue, k, r)
      <4>1. AtLeast(p) = {} /\ (queue' = queue \/ queue' = Append(queue, r))
        BY <2>1, <3>2 DEF add_req
      <4>2. queue' # queue
        BY <2>3, <2>5
      <4>3. Append(queue, r) = InsertAt(queue, n + 1, r)
        BY <2>2, <2>3, AppendIsInsert
      <4> QED BY <2>3, <4>1, <4>2, <4>3
    <3> QED BY <3>1, <3>2
  <2>9. /\ Len(queue') = n + 1 /\ DOMAIN queue' = 1 .. n + 1
        /\ \A j \in 1 .. n + 1 :
             queue'[j] = IF j < k THEN queue[j] ELSE IF j = k THEN r ELSE queue[j - 1]
    <3>1. /\ queue' \in Seq(Request) /\ Len(queue') = Len(queue) + 1
          /\ \A j \in 1 .. Len(queue) + 1 :
               queue'[j] = IF j < k THEN queue[j] ELSE IF j = k THEN r ELSE queue[j - 1]
      <4>1. k \in 1 .. Len(queue) + 1 /\ queue' = InsertAt(queue, k, r) /\ queue \in Seq(Request)
        BY <2>2, <2>3, <2>8
      <4>2. queue' \in Seq(Request) /\ Len(queue') = Len(queue) + 1
        BY <4>1, InsertAtProperties
      <4>3. \A j \in 1 .. Len(queue) + 1 :
              queue'[j] = IF j < k THEN queue[j] ELSE IF j = k THEN r ELSE queue[j - 1]
        BY <4>1, InsertAtProperties
      <4> QED BY <4>2, <4>3
    <3>2. DOMAIN queue' = 1 .. Len(queue')
      BY <3>1, LenProperties
    <3> QED BY <2>2, <3>1, <3>2
  <2>10. i = k
    BY <2>3, <2>5, <2>8, <2>9
  <2>11. \A j \in 1 .. k - 1 : pos[queue'[j]] < p
    BY <2>3, <2>5, <2>6, <2>8, <2>9
  <2>12. k = n + 1 \/ pos[queue'[k + 1]] >= p
    BY <2>3, <2>5, <2>6, <2>8, <2>9
  <2> QED BY <2>4, <2>9, <2>10, <2>11, <2>12
<1> QED BY Invariance, <1>1, PTL DEF Spec, ForwardInPlace
=============================================================================
