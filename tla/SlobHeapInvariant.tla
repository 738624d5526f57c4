------------------------- MODULE SlobHeapInvariant -------------------------
(***************************************************************************)
(* The inductive invariant of SlobHeap, for any number of threads, frames, *)
(* sizes and caches.  It has four parts: Types; Heap, about the pages and  *)
(* lists that slob_lock protects and the blocks taken from them; Owners,   *)
(* about who has which block and which frame outside the lock; and Data,   *)
(* about what the owners' blocks contain.  The lemmas come in this order:  *)
(* the lists, one page, the heap as a function of pages, blocks and lists, *)
(* the invariant, one step of the allocator after the other, and the calls *)
(* made of these steps; so every reachable state has the invariant.        *)
(***************************************************************************)
EXTENDS SlobHeap, SlobPageProofs

\* The prover of the leaves that name no other.
USE ZenonT(20)

-----------------------------------------------------------------------------
(* The lists of partially free pages. *)

ListsType(ls) == DOMAIN ls = Class /\ \A c \in Class : ls[c] \in Seq(Page)

\* p is somewhere on the list of class c.
InClass(ls, p, c) == \E i \in DOMAIN ls[c] : ls[c][i] = p

\* p is on none of the lists.
Unlisted(ls, p) == \A c \in Class : ~InClass(ls, p, c)

\* p is on one of them, once.
ListedOnce(ls, p) ==
  \E c \in Class : \E i \in DOMAIN ls[c] :
    /\ ls[c][i] = p
    /\ \A d \in Class : \A j \in DOMAIN ls[d] : ls[d][j] = p => d = c /\ j = i

\* A page put on a list that was on none is on that one, once; the others stay
\* where they are.
LEMMA EnlistPlaces ==
  ASSUME NEW ls, ListsType(ls), NEW p \in Page, Unlisted(ls, p), NEW c \in Class,
         NEW ls2, ls2 = Enlist(ls, p, c)
  PROVE  /\ ListsType(ls2)
         /\ ListedOnce(ls2, p)
         /\ \A d \in Class : InClass(ls2, p, d) => d = c
         /\ \A q \in Page \ {p} :
              /\ \A d \in Class : InClass(ls2, q, d) <=> InClass(ls, q, d)
              /\ ListedOnce(ls, q) => ListedOnce(ls2, q)
<1>1. /\ DOMAIN ls2 = Class
      /\ ls2[c] = <<p>> \o ls[c]
      /\ \A d \in Class \ {c} : ls2[d] = ls[d]
  BY DEF Enlist, ListsType
<1>2. ls[c] \in Seq(Page)
  BY DEF ListsType
<1>3. /\ ls2[c] \in Seq(Page) /\ Len(ls2[c]) = Len(ls[c]) + 1
      /\ ls2[c][1] = p
      /\ \A i \in 1 .. Len(ls[c]) : ls2[c][i + 1] = ls[c][i]
      /\ DOMAIN ls2[c] = 1 .. Len(ls[c]) + 1 /\ DOMAIN ls[c] = 1 .. Len(ls[c]) /\ Len(ls[c]) \in Nat
  BY <1>1, <1>2, SMTT(20)
<1>4. ListsType(ls2)
  BY <1>1, <1>3 DEF ListsType
<1>5. \A j \in DOMAIN ls2[c] : j = 1 \/ (j - 1 \in DOMAIN ls[c] /\ ls2[c][j] = ls[c][j - 1])
  <2> TAKE j \in DOMAIN ls2[c]
  <2>1. j = 1 \/ (j - 1 \in 1 .. Len(ls[c]) /\ (j - 1) + 1 = j)
    BY <1>3, SMTT(20)
  <2> QED BY <2>1, <1>3
<1>6. \A i \in DOMAIN ls[c] : i + 1 \in DOMAIN ls2[c] /\ ls2[c][i + 1] = ls[c][i] /\ i \in Int
  BY <1>3, SMTT(20)
<1>7. 1 \in DOMAIN ls2[c]
  BY <1>3, SMTT(20)
<1>8. \A d \in Class : \A j \in DOMAIN ls2[d] : ls2[d][j] = p => d = c /\ j = 1
  <2>1. \A d \in Class : \A j \in DOMAIN ls[d] : ls[d][j] # p
    BY DEF Unlisted, InClass
  <2> TAKE d \in Class
  <2>2. CASE d = c
    BY ONLY <2>1, <2>2, <1>5, c \in Class
  <2>3. CASE d # c
    <3>1. ls2[d] = ls[d]
      BY <2>3, <1>1
    <3> QED BY <3>1, <2>1
  <2> QED BY <2>2, <2>3
<1>9. ListedOnce(ls2, p)
  BY ONLY <1>3, <1>7, <1>8, c \in Class DEF ListedOnce
<1>10. ASSUME NEW q \in Page \ {p}
       PROVE  /\ \A d \in Class : InClass(ls2, q, d) <=> InClass(ls, q, d)
              /\ ListedOnce(ls, q) => ListedOnce(ls2, q)
  <2>1. \A d \in Class : InClass(ls2, q, d) <=> InClass(ls, q, d)
    <3> TAKE d \in Class
    <3>1. CASE d # c
      <4>1. ls2[d] = ls[d]
        BY <3>1, <1>1
      <4> QED BY <4>1 DEF InClass
    <3>2. InClass(ls2, q, c) => InClass(ls, q, c)
      BY ONLY <1>3, <1>5, q \in Page \ {p} DEF InClass
    <3>3. InClass(ls, q, c) => InClass(ls2, q, c)
      BY ONLY <1>6 DEF InClass
    <3> QED BY <3>1, <3>2, <3>3
  <2>2. ASSUME ListedOnce(ls, q) PROVE ListedOnce(ls2, q)
    <3>0. PICK d \in Class : \E i \in DOMAIN ls[d] :
            /\ ls[d][i] = q
            /\ \A e \in Class : \A j \in DOMAIN ls[e] : ls[e][j] = q => e = d /\ j = i
      BY <2>2 DEF ListedOnce
    <3>1. PICK i \in DOMAIN ls[d] :
            /\ ls[d][i] = q
            /\ \A e \in Class : \A j \in DOMAIN ls[e] : ls[e][j] = q => e = d /\ j = i
      BY <3>0
    <3> USE <3>1
    <3>2. CASE d = c
      <4>1. \A e \in Class : \A j \in DOMAIN ls2[e] : ls2[e][j] = q => e = c /\ j = i + 1
        <5> TAKE e \in Class
        <5> TAKE j \in DOMAIN ls2[e]
        <5> HAVE ls2[e][j] = q
        <5>1. e = c
          BY <3>2, <1>1
        <5> USE <5>1
        <5>2. j # 1 /\ j - 1 \in DOMAIN ls[c] /\ ls[c][j - 1] = q
          BY <1>3, <1>5, Zenon
        <5>3. j - 1 = i /\ j \in Int
          BY <5>2, <3>2, <1>3, SMTT(20)
        <5> QED BY <5>3, SMTT(20)
      <4> QED BY <4>1, <3>2, <1>6, SMTT(20) DEF ListedOnce
    <3>3. CASE d # c
      <4>1. \A e \in Class : \A j \in DOMAIN ls2[e] : ls2[e][j] = q => e = d /\ j = i
        <5> TAKE e \in Class
        <5> TAKE j \in DOMAIN ls2[e]
        <5> HAVE ls2[e][j] = q
        <5>1. e # c
          <6> SUFFICES ASSUME e = c PROVE FALSE
            OBVIOUS
          <6>1. j # 1 /\ j - 1 \in DOMAIN ls[c] /\ ls[c][j - 1] = q
            BY <1>3, <1>5, Zenon
          <6> QED BY ONLY <6>1, <3>1, <3>3, c \in Class
        <5> QED BY <5>1, <1>1
      <4> QED BY <4>1, <3>3, <1>1, SMTT(20) DEF ListedOnce
    <3> QED BY <3>2, <3>3
  <2> QED BY <2>1, <2>2
<1> QED BY <1>1, <1>4, <1>8, <1>9, <1>10 DEF InClass

\* list_del takes out one occurrence of p and keeps the order of the rest.
LEMMA WithoutPlaces ==
  ASSUME NEW s \in Seq(Page), NEW p
  PROVE  /\ Without(s, p) \in Seq(Page)
         /\ (\A i \in DOMAIN s : s[i] # p) => Without(s, p) = s
         /\ \A k \in DOMAIN s :
              s[k] = p /\ (\A j \in DOMAIN s : s[j] = p => j = k) =>
                /\ DOMAIN Without(s, p) = 1 .. Len(s) - 1
                /\ \A i \in 1 .. Len(s) - 1 : Without(s, p)[i] = IF i < k THEN s[i] ELSE s[i + 1]
<1>1. CASE \A i \in DOMAIN s : s[i] # p
  BY <1>1 DEF Without
<1>2. CASE \E i \in DOMAIN s : s[i] = p
  <2> DEFINE k == CHOOSE i \in DOMAIN s : s[i] = p
             v == [i \in 1 .. Len(s) - 1 |-> IF i < k THEN s[i] ELSE s[i + 1]]
  <2>1. k \in DOMAIN s /\ s[k] = p
    BY <1>2
  <2>2. Without(s, p) = v
    BY <1>2 DEF Without
  <2> HIDE DEF k
  <2>3. Len(s) \in Nat /\ DOMAIN s = 1 .. Len(s) /\ \A i \in 1 .. Len(s) : s[i] \in Page
    BY SMTT(20)
  <2>4. Len(s) - 1 \in Nat /\ \A i \in 1 .. Len(s) - 1 : v[i] \in Page /\ i \in 1 .. Len(s) /\ i + 1 \in 1 .. Len(s)
    BY <2>1, <2>3, SMTT(20)
  <2>5. v \in Seq(Page)
    BY <2>4, v \in [1 .. Len(s) - 1 -> Page], SMTT(20)
  <2>6. DOMAIN v = 1 .. Len(s) - 1
    OBVIOUS
  <2> QED BY <2>1, <2>2, <2>5, <2>6, <1>2
<1> QED BY <1>1, <1>2

\* A page taken off its list is on none; the others stay where they are.
LEMMA UnlistPlaces ==
  ASSUME NEW ls, ListsType(ls), NEW p \in Page, Unlisted(ls, p) \/ ListedOnce(ls, p),
         NEW ls2, ls2 = Unlist(ls, p)
  PROVE  /\ ListsType(ls2)
         /\ Unlisted(ls2, p)
         /\ \A q \in Page \ {p} :
              /\ \A d \in Class : InClass(ls2, q, d) <=> InClass(ls, q, d)
              /\ ListedOnce(ls, q) => ListedOnce(ls2, q)
<1>1. DOMAIN ls2 = Class /\ \A d \in Class : ls2[d] = Without(ls[d], p)
  BY DEF Unlist
<1>2. \A d \in Class : ls[d] \in Seq(Page)
  BY DEF ListsType
<1> USE <1>1, <1>2
<1>3. ListsType(ls2)
  BY WithoutPlaces, SMTT(20) DEF ListsType
<1>4. CASE Unlisted(ls, p)
  <2>1. \A d \in Class : ls2[d] = ls[d]
    BY <1>4, WithoutPlaces, SMTT(20) DEF Unlisted, InClass
  <2>2. \A q, d : d \in Class => (InClass(ls2, q, d) <=> InClass(ls, q, d))
    BY <2>1 DEF InClass
  <2>3. \A q : ListedOnce(ls, q) => ListedOnce(ls2, q)
    BY <2>1, SMTT(20) DEF ListedOnce
  <2> QED BY <1>3, <1>4, <2>2, <2>3 DEF Unlisted
<1>5. CASE ListedOnce(ls, p)
  <2>0. PICK c \in Class : \E i \in DOMAIN ls[c] :
          /\ ls[c][i] = p
          /\ \A e \in Class : \A j \in DOMAIN ls[e] : ls[e][j] = p => e = c /\ j = i
    BY <1>5 DEF ListedOnce
  <2>1. PICK k \in DOMAIN ls[c] :
          /\ ls[c][k] = p
          /\ \A e \in Class : \A j \in DOMAIN ls[e] : ls[e][j] = p => e = c /\ j = k
    BY <2>0
  <2> DEFINE s == ls[c]
             v == ls2[c]
             n == Len(s)
  <2> USE <2>1
  <2>2. \A d \in Class \ {c} : ls2[d] = ls[d]
    BY WithoutPlaces, SMTT(20)
  <2>3. /\ DOMAIN v = 1 .. n - 1
        /\ \A i \in 1 .. n - 1 : v[i] = IF i < k THEN s[i] ELSE s[i + 1]
    BY WithoutPlaces, SMTT(20)
  <2>4. DOMAIN s = 1 .. n /\ n \in Nat /\ k \in 1 .. n
    BY SMTT(20)
  <2> USE <2>4
  <2>5. s[k] = p /\ \A j \in 1 .. n : s[j] = p => j = k
    OBVIOUS
  <2> HIDE DEF s, v, n
  <2>6. \A i \in 1 .. n - 1 :
          /\ i \in Int
          /\ i < k => i \in 1 .. n /\ i # k /\ v[i] = s[i]
          /\ ~(i < k) => i + 1 \in 1 .. n /\ i + 1 # k /\ v[i] = s[i + 1]
    BY ONLY <2>3, <2>4
  <2>7. \A j \in 1 .. n :
          /\ j \in Int
          /\ j < k => j \in 1 .. n - 1 /\ v[j] = s[j]
          /\ j > k => j - 1 \in 1 .. n - 1 /\ v[j - 1] = s[j]
    <3> TAKE j \in 1 .. n
    <3>1. j < k => j \in 1 .. n - 1 /\ v[j] = s[j]
      BY ONLY <2>3, <2>4, j \in 1 .. n
    <3>2. ASSUME j > k PROVE j - 1 \in 1 .. n - 1 /\ v[j - 1] = s[j]
      <4>1. j - 1 \in 1 .. n - 1 /\ ~(j - 1 < k) /\ (j - 1) + 1 = j
        BY ONLY <2>4, <3>2, j \in 1 .. n
      <4> QED BY ONLY <4>1, <2>3
    <3> QED BY <3>1, <3>2, SMTT(20)
  <2>8. \A i \in 1 .. n - 1 : v[i] # p
    BY ONLY <2>5, <2>6
  <2> USE <2>2, <2>3
  <2>9. Unlisted(ls2, p)
    <3> SUFFICES ASSUME NEW d \in Class, NEW i \in DOMAIN ls2[d] PROVE ls2[d][i] # p
      BY DEF Unlisted, InClass
    <3>1. CASE d = c
      BY <3>1, <2>8 DEF v
    <3>2. CASE d # c
      BY <3>2
    <3> QED BY <3>1, <3>2
  <2>10. ASSUME NEW q \in Page \ {p}
         PROVE  /\ \A d \in Class : InClass(ls2, q, d) <=> InClass(ls, q, d)
                /\ ListedOnce(ls, q) => ListedOnce(ls2, q)
    <3>1. \A d \in Class : InClass(ls2, q, d) <=> InClass(ls, q, d)
      <4> TAKE d \in Class
      <4>1. CASE d # c
        <5>1. ls2[d] = ls[d]
          BY <4>1
        <5> QED BY <5>1 DEF InClass
      <4>2. InClass(ls2, q, c) <=> \E i \in 1 .. n - 1 : v[i] = q
        BY DEF InClass, v
      <4>3. InClass(ls, q, c) <=> \E j \in 1 .. n : s[j] = q
        BY DEF InClass, s
      <4>4. (\E i \in 1 .. n - 1 : v[i] = q) => \E j \in 1 .. n : s[j] = q
        BY ONLY <2>6
      <4>5. (\E j \in 1 .. n : s[j] = q) => \E i \in 1 .. n - 1 : v[i] = q
        <5> SUFFICES ASSUME NEW j \in 1 .. n, s[j] = q PROVE \E i \in 1 .. n - 1 : v[i] = q
          OBVIOUS
        <5>1. j < k \/ j > k
          BY ONLY <2>4, <2>5, s[j] = q, q \in Page \ {p}, j \in 1 .. n
        <5> QED BY <5>1, <2>7
      <4> QED BY <4>1, <4>2, <4>3, <4>4, <4>5
    <3>2. ASSUME ListedOnce(ls, q) PROVE ListedOnce(ls2, q)
      <4>0. PICK d \in Class : \E i \in DOMAIN ls[d] :
              /\ ls[d][i] = q
              /\ \A e \in Class : \A j \in DOMAIN ls[e] : ls[e][j] = q => e = d /\ j = i
        BY <3>2 DEF ListedOnce
      <4>1. PICK m \in DOMAIN ls[d] :
              /\ ls[d][m] = q
              /\ \A e \in Class : \A j \in DOMAIN ls[e] : ls[e][j] = q => e = d /\ j = m
        BY <4>0
      <4> USE <4>1
      <4>2. CASE d # c
        <5>1. ls2[d] = ls[d]
          BY <4>2
        <5>2. ~InClass(ls, q, c)
          BY <4>2 DEF InClass
        <5>3. ~InClass(ls2, q, c)
          BY <5>2, <3>1
        <5>4. \A e \in Class : \A j \in DOMAIN ls2[e] : ls2[e][j] = q => e = d /\ j = m
          <6> TAKE e \in Class
          <6>1. CASE e = c
            BY <6>1, <5>3 DEF InClass
          <6>2. CASE e # c
            BY <6>2, SMTT(20)
          <6> QED BY <6>1, <6>2
        <5> QED BY <5>1, <5>4, SMTT(20) DEF ListedOnce
      <4>3. CASE d = c
        <5>1. m \in 1 .. n /\ s[m] = q /\ \A j \in 1 .. n : s[j] = q => j = m
          BY <4>3 DEF s
        <5> DEFINE m2 == IF m < k THEN m ELSE m - 1
        <5>2. m2 \in 1 .. n - 1 /\ v[m2] = q
          <6>1. m < k \/ m > k
            BY ONLY <2>4, <2>5, <5>1, q \in Page \ {p}
          <6> QED BY ONLY <6>1, <5>1, <2>4, <2>7
        <5>3. \A i \in 1 .. n - 1 : v[i] = q => i = m2
          <6> TAKE i \in 1 .. n - 1
          <6> HAVE v[i] = q
          <6>1. CASE i < k
            <7>1. i = m
              BY <6>1, <2>6, <5>1, SMTT(20)
            <7> QED BY <6>1, <7>1
          <6>2. CASE ~(i < k)
            <7>1. i + 1 = m /\ i \in Int
              BY <6>2, <2>6, <5>1, SMTT(20)
            <7>2. ~(m < k) /\ m - 1 = i
              BY ONLY <7>1, <6>2, <2>4, <5>1
            <7> QED BY <7>2
          <6> QED BY <6>1, <6>2
        <5> HIDE DEF m2
        <5>4. \A e \in Class : \A j \in DOMAIN ls2[e] : ls2[e][j] = q => e = c /\ j = m2
          <6> TAKE e \in Class
          <6>1. CASE e = c
            BY <6>1, <5>3 DEF v
          <6>2. CASE e # c
            BY <6>2, <4>3
          <6> QED BY <6>1, <6>2
        <5>5. m2 \in DOMAIN ls2[c] /\ ls2[c][m2] = q
          BY <5>2 DEF v
        <5> QED BY <5>4, <5>5, SMTT(20) DEF ListedOnce
      <4> QED BY <4>2, <4>3
    <3> QED BY <3>1, <3>2
  <2> QED BY <1>3, <2>9, <2>10
<1> QED BY <1>4, <1>5

\* The search for a page ends with the one it was started with, or with one of the
\* list.
LEMMA BestPageIsListed ==
  ASSUME NEW list \in Seq(Page), page \in [Page -> SlobPageType], NEW units \in Nat,
         NEW alt, BestPage(list, units, alt) # alt
  PROVE  \E i \in DOMAIN list : BestPage(list, units, alt) = list[i]
<1> DEFINE Left(i) == page[list[i]].units
           Better == {i \in DOMAIN list : units <= Left(i) /\ (alt # NULL => Left(i) < page[alt].units)}
           Least(i) == \A j \in Better : Left(i) < Left(j) \/ (Left(i) = Left(j) /\ i <= j)
<1>1. \A i \in DOMAIN list : i \in Nat /\ list[i] \in Page /\ Left(i) \in Nat
  BY PageUnitsAssumption, SMTT(20) DEF SlobPageType
<1>2. Better \subseteq DOMAIN list
  OBVIOUS
<1>3. BestPage(list, units, alt) = IF Better = {} THEN alt ELSE list[CHOOSE i \in Better : Least(i)]
  BY DEF BestPage
<1> HIDE DEF Better
<1>4. Better # {}
  BY <1>3
<1> USE <1>1, <1>2
<1>5. \E i \in Better : Least(i)
  <2> HIDE DEF Left
  <2> DEFINE V == {Left(i) : i \in Better}
  <2>1. V # {} /\ V \in SUBSET Nat
    BY <1>4
  <2>2. PICK x \in V : \A y \in V : x <= y
    <3> HIDE DEF V
    <3> QED BY <2>1, LeastElement
  <2> DEFINE T == {i \in Better : Left(i) = x}
  <2>3. T # {} /\ T \in SUBSET Nat
    OBVIOUS
  <2>4. PICK i \in T : \A j \in T : i <= j
    <3> HIDE DEF T
    <3> QED BY <2>3, LeastElement, Zenon
  <2>5. ASSUME NEW j \in Better PROVE Left(i) < Left(j) \/ (Left(i) = Left(j) /\ i <= j)
    <3>1. Left(j) \in V /\ x <= Left(j) /\ Left(i) = x /\ Left(j) \in Nat /\ x \in Nat
      BY <2>1, <2>2
    <3> QED BY <3>1, <2>4, SMTT(20)
  <2> QED BY <2>5
<1>6. \E i \in Better : list[CHOOSE j \in Better : Least(j)] = list[i]
  <2> HIDE DEF Least
  <2> QED BY <1>5, Zenon
<1> QED BY <1>3, <1>4, <1>6

-----------------------------------------------------------------------------
(* One page of the heap and the blocks Bs that are allocated from it. *)

\* The free list and the units are right, and every word is free or in exactly one
\* of the blocks.
SoundPage(pg, Bs) ==
  /\ FreeIs(pg, FreeWords(pg))
  /\ pg.free <=> pg.units > 0
  /\ \A b \in Bs : Words(b) \subseteq Word \ FreeWords(pg)
  /\ \A b, d \in Bs : b # d => Words(b) \cap Words(d) = {}
  /\ \A i \in Word \ FreeWords(pg) : \E b \in Bs : i \in Words(b)

\* The page q has what the blocks of pg contain, and its PageSlab.
Keeps(Bs, pg, q) ==
  q.slab = pg.slab /\ \A d \in Bs : \A i \in Words(d) : q.words[i] = pg.words[i]

\* The page after slob_page_alloc has returned r, and after slob_free of block b
\* to a page that stays in the heap.
AfterAlloc(r) == [r.page EXCEPT !.free = @ /\ ~(r.page.units = 0)]
AfterFree(pg, b) ==
  IF ~pg.free THEN [FirstFree(pg, b.off, SLOB_UNITS(b.size)) EXCEPT !.free = TRUE]
              ELSE Reinsert(pg, b.off, SLOB_UNITS(b.size))

\* A small block has at least one word.
LEMMA SmallWords ==
  ASSUME NEW b \in Block, ~b.large, b.size > 0
  PROVE  /\ Words(b) = Extent(b.off, SLOB_UNITS(b.size))
         /\ SLOB_UNITS(b.size) \in Nat \ {0}
         /\ b.off \in Words(b)
         /\ Cardinality(Words(b)) = SLOB_UNITS(b.size)
<1>1. b.off \in Int /\ b.size \in Nat
  BY DEF Block
<1> USE <1>1
<1>2. SLOB_UNITS(b.size) \in Nat \ {0}
  BY UnitsOfBytes, SMTT(20)
<1>3. Words(b) = Extent(b.off, SLOB_UNITS(b.size))
  BY DEF Words
<1> USE <1>2
<1>4. b.off \in Extent(b.off, SLOB_UNITS(b.size))
  BY SMTT(20) DEF Extent
<1>5. Cardinality(Extent(b.off, SLOB_UNITS(b.size))) = SLOB_UNITS(b.size)
  BY CountWords
<1> QED BY <1>3, <1>4, <1>5

\* slob_page_alloc takes a block that is none of the others from a sound page.
LEMMA TakeSound ==
  ASSUME NEW pg, NEW Bs, SoundPage(pg, Bs), pg.units > 0,
         NEW b \in Block, ~b.large, b.size > 0,
         NEW r, r = slob_page_alloc(pg, b.size, b.align), r.block # NoBlock, b.off = r.block,
         NEW q, q = AfterAlloc(r)
  PROVE  /\ q \in SlobPageType /\ SoundPage(q, Bs \cup {b})
         /\ b \notin Bs /\ \A d \in Bs : Words(b) \cap Words(d) = {}
         /\ Words(b) \subseteq Word
         /\ Keeps(Bs, pg, q) /\ (q.free <=> r.page.units # 0)
         /\ AlignedTo(b.off, b.align)
<1> DEFINE F == FreeWords(pg)
           G == F \ Words(b)
<1>1. FreeIs(pg, F) /\ F # {} /\ pg.free /\ F \subseteq Word
  <2>1. FreeIs(pg, F) /\ (pg.free <=> pg.units > 0)
    BY DEF SoundPage
  <2> QED BY <2>1, FreeIsFreeWords DEF FreeIs
<1>2. b.size \in Nat \ {0} /\ b.align \in Nat
  BY SMTT(20) DEF Block
<1>3. Words(b) = Extent(r.block, SLOB_UNITS(b.size)) /\ b.off \in Words(b)
  BY SmallWords
<1> HIDE DEF F
<1>4. /\ Words(b) \subseteq F
      /\ FreeIs(r.page, G)
      /\ \A i \in Word \ F : r.page.words[i] = pg.words[i]
      /\ r.page.slab = pg.slab /\ r.page.free = pg.free
      /\ AlignedTo(b.off, b.align)
  <2>0. PICK sz \in Nat \ {0}, al \in Nat : sz = b.size /\ al = b.align
    BY <1>2
  <2>1. r = slob_page_alloc(pg, sz, al) /\ r.block # NoBlock
    BY <2>0
  <2>2. /\ Extent(r.block, SLOB_UNITS(sz)) \subseteq F
        /\ FreeIs(r.page, F \ Extent(r.block, SLOB_UNITS(sz)))
        /\ OnlyIn(F, pg, r.page)
        /\ AlignedTo(r.block, al)
    BY ONLY <1>1, <2>1, sz \in Nat \ {0}, al \in Nat, AllocFromPage, Zenon
  <2> QED BY <1>3, <2>0, <2>2 DEF G, OnlyIn
<1> USE <1>4
<1>5. r.page \in SlobPageType
  BY DEF FreeIs
<1> USE <1>1
<1>6. /\ q \in SlobPageType /\ q.words = r.page.words /\ q.units = r.page.units
      /\ q.freelist = r.page.freelist /\ q.slab = r.page.slab /\ (q.free <=> r.page.units # 0)
  BY <1>5, Zenon DEF SlobPageType, AfterAlloc
<1> HIDE DEF G
<1> USE <1>6
<1>7. FreeIs(q, G)
  BY FreeIsKept
<1>8. FreeWords(q) = G
  BY <1>7, FreeIsFreeWords
<1>9. q.free <=> q.units > 0
  <2>1. q.units \in 0 .. PageUnits
    BY DEF SlobPageType
  <2> QED BY <2>1, PageUnitsAssumption, SMTT(20)
<1>10. \A d \in Bs : Words(d) \subseteq Word \ F
  BY DEF SoundPage, F
<1> USE <1>10
<1>11. \A d \in Bs : Words(b) \cap Words(d) = {}
  OBVIOUS
<1> USE <1>11
<1>12. b \notin Bs
  BY <1>3
<1>13. \A i \in Word \ F : \E d \in Bs : i \in Words(d)
  BY DEF SoundPage, F
<1>14. \A d, e \in Bs : d # e => Words(d) \cap Words(e) = {}
  BY DEF SoundPage
<1>15. SoundPage(q, Bs \cup {b})
  <2>1. \A d \in Bs \cup {b} : Words(d) \subseteq Word \ G
    BY DEF G
  <2>2. \A d, e \in Bs \cup {b} : d # e => Words(d) \cap Words(e) = {}
    BY <1>14
  <2>3. \A i \in Word \ G : \E d \in Bs \cup {b} : i \in Words(d)
    BY <1>13 DEF G
  <2> QED BY <1>7, <1>8, <1>9, <2>1, <2>2, <2>3 DEF SoundPage
<1> QED BY <1>12, <1>15 DEF Keeps

\* A fresh page is sound and has no block, and there is room for any small one.
LEMMA FreshSound ==
  ASSUME NEW pg \in SlobPageType
  PROVE  /\ FreshPage(pg) \in SlobPageType /\ SoundPage(FreshPage(pg), {})
         /\ FreshPage(pg).units > 0 /\ FreshPage(pg).slab = pg.slab
         /\ \A b \in Block : b.size < PAGE_SIZE => CanTake(FreshPage(pg), b)
<1> DEFINE q == FreshPage(pg)
<1>1. FreeBlock(0, PageUnits, PageUnits) /\ pg.words \in [Word -> Int]
  BY PageUnitsAssumption, SMTT(20) DEF FreeBlock, Word, SlobPageType
<1>2. set_slob(pg.words, 0, PageUnits, PageUnits) \in [Word -> Int]
  BY <1>1, WriteBlock
<1>3. /\ q \in SlobPageType /\ q.words = set_slob(pg.words, 0, PageUnits, PageUnits)
      /\ q.units = PageUnits /\ q.freelist = 0 /\ q.free /\ q.slab = pg.slab
  <2> DEFINE v == set_slob(pg.words, 0, PageUnits, PageUnits)
  <2>1. q = [pg EXCEPT !.units = PageUnits, !.freelist = 0, !.free = TRUE, !.words = v]
    BY DEF FreshPage
  <2>2. PageUnits \in 0 .. PageUnits /\ 0 \in 0 .. PageUnits /\ v \in [Word -> Int]
    BY <1>2, PageUnitsAssumption, SMTT(20)
  <2> HIDE DEF q, v
  <2>3. /\ q \in SlobPageType /\ q.words = v /\ q.units = PageUnits /\ q.freelist = 0
        /\ q.free /\ q.slab = pg.slab
    BY ONLY <2>1, <2>2, pg \in SlobPageType, Zenon DEF SlobPageType
  <2> QED BY <2>3 DEF v
<1> HIDE DEF q
<1> USE <1>3
<1>4. FreeIs(q, Extent(0, PageUnits)) /\ FreeList(q)[0] = 0 /\ slob_units(q.words, 0) = PageUnits
  BY <1>1, OneBlock, SMTT(20)
<1>5. Extent(0, PageUnits) = Word
  BY PageUnitsAssumption, SMTT(20) DEF Extent, Word
<1> USE <1>4
<1>6. FreeWords(q) = Word
  BY <1>5, FreeIsFreeWords
<1>7. SoundPage(q, {})
  BY <1>5, <1>6, PageUnitsAssumption, SMTT(20) DEF SoundPage
<1>8. ASSUME NEW b \in Block, b.size < PAGE_SIZE PROVE CanTake(q, b)
  <2>1. b.size \in Nat /\ b.align \in Nat /\ SLOB_UNITS(b.size) <= PageUnits
    BY <1>8, UnitsOfBytes, PageUnitsAssumption, SMTT(20) DEF Block, PAGE_SIZE, SLOB_UNIT
  <2> QED BY <2>1, WholePageFits DEF CanTake
<1> QED BY <1>7, <1>8, PageUnitsAssumption, SMTT(20) DEF q

\* Where the words of a block are in the page.
LEMMA BlockInPage ==
  ASSUME NEW b \in Block, ~b.large, b.size > 0, Words(b) \subseteq Word
  PROVE  LET u == SLOB_UNITS(b.size)
         IN  b.off \in Word /\ u \in 1 .. PageUnits /\ b.off + u <= PageUnits
<1> DEFINE u == SLOB_UNITS(b.size)
<1>1. Words(b) = Extent(b.off, u) /\ u \in Nat \ {0} /\ b.off \in Int
  BY SmallWords DEF Block
<1> HIDE DEF u
<1> USE <1>1
<1>2. b.off \in Extent(b.off, u) /\ b.off + u - 1 \in Extent(b.off, u)
  BY SMTT(20) DEF Extent
<1>3. b.off \in Word /\ b.off + u - 1 \in Word
  BY <1>2
<1>4. b.off \in Word /\ u \in 1 .. PageUnits /\ b.off + u <= PageUnits
  BY <1>3, PageUnitsAssumption, SMTT(20) DEF Word
<1> QED BY <1>4 DEF u

\* slob_free returns a block to a page that stays in the heap.
LEMMA GiveSound ==
  ASSUME NEW pg, NEW Bs, SoundPage(pg, Bs),
         NEW b \in Bs, b \in Block, ~b.large, b.size > 0, NEW u, u = SLOB_UNITS(b.size),
         NEW q, q = AfterFree(pg, b)
  PROVE  /\ q \in SlobPageType /\ SoundPage(q, Bs \ {b})
         /\ q.free /\ Keeps(Bs \ {b}, pg, q)
<1> DEFINE F == FreeWords(pg)
           G == F \cup Extent(b.off, u)
<1>1. FreeIs(pg, F) /\ pg \in SlobPageType /\ F \subseteq Word /\ (pg.free <=> F # {}) /\ pg.free \in BOOLEAN
  <2>1. FreeIs(pg, F) /\ (pg.free <=> pg.units > 0)
    BY DEF SoundPage
  <2> QED BY <2>1, FreeIsFreeWords DEF FreeIs, SlobPageType
<1>2. Words(b) = Extent(b.off, u) /\ u \in Nat \ {0} /\ b.off \in Int
  BY SmallWords DEF Block
<1>3. \A d \in Bs : Words(d) \subseteq Word \ F
  BY DEF SoundPage
<1> USE <1>3
<1>4. b.off \in Word /\ u \in 1 .. PageUnits /\ b.off + u <= PageUnits
  BY BlockInPage
<1> HIDE DEF F
<1> USE <1>1, <1>2
<1>5. /\ q \in SlobPageType /\ FreeIs(q, G) /\ q.free /\ q.slab = pg.slab
      /\ \A i \in Word \ G : q.words[i] = pg.words[i]
  <2>1. CASE ~pg.free
    <3> DEFINE v == set_slob(pg.words, b.off, u, PageUnits)
    <3>1. FreeBlock(b.off, u, PageUnits) /\ pg.words \in [Word -> Int]
      BY <1>4, PageUnitsAssumption, SMTT(20) DEF FreeBlock, SlobPageType
    <3>2. v \in [Word -> Int]
      BY <3>1, WriteBlock
    <3>3. q = [pg EXCEPT !.units = u, !.freelist = b.off, !.words = v, !.free = TRUE]
      BY <2>1 DEF FirstFree, SlobPageType, AfterFree
    <3>4. u \in 0 .. PageUnits /\ b.off \in 0 .. PageUnits
      BY <1>4, PageUnitsAssumption, SMTT(20) DEF Word
    <3> HIDE DEF v
    <3>5. /\ q \in SlobPageType /\ q.words = v /\ q.units = u /\ q.freelist = b.off
          /\ q.free /\ q.slab = pg.slab
      BY ONLY <1>1, <3>2, <3>3, <3>4, Zenon DEF SlobPageType
    <3>6. FreeIs(q, Extent(b.off, u)) /\ \A i \in Word \ Extent(b.off, u) : q.words[i] = pg.words[i]
      <4>1. PICK w0, o : w0 = pg.words /\ o = b.off
        OBVIOUS
      <4>2. /\ w0 \in [Word -> Int] /\ FreeBlock(o, u, PageUnits) /\ q \in SlobPageType
            /\ q.words = set_slob(w0, o, u, PageUnits) /\ q.units = u /\ q.freelist = o
        BY <4>1, <3>1, <3>5 DEF v
      <4>3. FreeIs(q, Extent(o, u)) /\ \A i \in Word \ Extent(o, u) : q.words[i] = w0[i]
        BY ONLY <4>2, OneBlock
      <4> QED BY <4>1, <4>3
    <3>7. G = Extent(b.off, u)
      BY <2>1
    <3> QED BY <3>5, <3>6, <3>7
  <2>2. CASE pg.free
    <3>1. q = Reinsert(pg, b.off, u) /\ F # {} /\ Extent(b.off, u) \subseteq Word \ F
      BY <2>2 DEF AfterFree
    <3>2. FreeIs(q, G) /\ OnlyIn(G, pg, q)
      BY ONLY <3>1, <1>1, <1>2, ReturnToPage DEF G
    <3> QED BY <2>2, <3>2 DEF OnlyIn, FreeIs
  <2> QED BY <2>1, <2>2
<1> USE <1>5
<1>6. FreeWords(q) = G /\ (q.units > 0 <=> G # {})
  BY FreeIsFreeWords
<1>7. G # {}
  BY SmallWords
<1>8. \A d, e \in Bs : d # e => Words(d) \cap Words(e) = {}
  BY DEF SoundPage
<1>9. \A i \in Word \ F : \E d \in Bs : i \in Words(d)
  BY DEF SoundPage, F
<1>10. \A d \in Bs \ {b} : Words(d) \subseteq Word \ G
  BY <1>8
<1>11. SoundPage(q, Bs \ {b})
  <2>1. \A i \in Word \ G : \E d \in Bs \ {b} : i \in Words(d)
    BY <1>9
  <2>2. \A d, e \in Bs \ {b} : d # e => Words(d) \cap Words(e) = {}
    BY <1>8
  <2> HIDE DEF G
  <2> QED BY <1>6, <1>7, <1>10, <2>1, <2>2 DEF SoundPage
<1> QED BY <1>10, <1>11 DEF Keeps

\* A page whose free words and those of one block are all its words has no other
\* block.
LEMMA DropSound ==
  ASSUME NEW pg, NEW Bs, SoundPage(pg, Bs),
         \A d \in Bs : d \in Block /\ ~d.large /\ d.size > 0,
         NEW b \in Bs, pg.units + SLOB_UNITS(b.size) = PageUnits
  PROVE  Bs = {b}
<1> DEFINE F == FreeWords(pg)
           u == SLOB_UNITS(b.size)
<1>1. F \subseteq Word /\ pg.units = Cardinality(F)
  BY DEF SoundPage, FreeIs
<1>2. \A d \in Bs : Words(d) \subseteq Word \ F
  BY DEF SoundPage
<1>3. Cardinality(Words(b)) = u /\ u \in Nat
  BY SmallWords
<1>4. \A S \in SUBSET Word : IsFiniteSet(S) /\ Cardinality(S) \in 0 .. PageUnits
  BY CountWords, SMTT(20)
<1>5. IsFiniteSet(Word) /\ Cardinality(Word) = PageUnits
  BY CountWords, SMTT(20)
<1> HIDE DEF F
<1> USE <1>1, <1>2
<1>6. Cardinality(F \cup Words(b)) = PageUnits
  <2>1. IsFiniteSet(F) /\ IsFiniteSet(Words(b)) /\ Cardinality(F) \in Int
    <3>1. Words(b) \in SUBSET Word /\ F \in SUBSET Word
      OBVIOUS
    <3> QED BY <3>1, <1>4, SMTT(20)
  <2>2. Cardinality(F \cap Words(b)) = 0
    <3>1. F \cap Words(b) = {}
      OBVIOUS
    <3> QED BY <3>1, FS_EmptySet
  <2>3. Cardinality(F \cup Words(b)) = Cardinality(F) + Cardinality(Words(b)) - Cardinality(F \cap Words(b))
    BY ONLY <2>1, FS_Union
  <2>4. Cardinality(F) + u = PageUnits
    OBVIOUS
  <2> HIDE DEF u
  <2> QED BY ONLY <2>1, <2>2, <2>3, <2>4, <1>3
<1>7. F \cup Words(b) = Word
  <2>1. F \cup Words(b) \in SUBSET Word
    OBVIOUS
  <2> QED BY <2>1, <1>5, <1>6, FS_Subset
<1>8. ASSUME NEW d \in Bs, d # b PROVE FALSE
  <2>1. Words(d) \cap Words(b) = {} /\ Words(d) \subseteq Word \ F
    BY <1>8 DEF SoundPage
  <2>2. d.off \in Words(d)
    BY SmallWords
  <2> QED BY <2>1, <2>2, <1>7
<1> QED BY <1>8

\* Owners who write to their blocks, or the header and footer of those, leave
\* the page sound.
LEMMA WriteSound ==
  ASSUME NEW pg, NEW Bs, SoundPage(pg, Bs), NEW v \in [Word -> Int],
         \A i \in FreeWords(pg) : v[i] = pg.words[i],
         NEW q, q = [pg EXCEPT !.words = v]
  PROVE  /\ q \in SlobPageType /\ SoundPage(q, Bs)
         /\ q.slab = pg.slab /\ q.free = pg.free
<1>1. pg \in SlobPageType /\ FreeIs(pg, FreeWords(pg))
  BY DEF SoundPage, FreeIs
<1>2. /\ q \in SlobPageType /\ q.words = v /\ q.units = pg.units /\ q.freelist = pg.freelist
      /\ q.free = pg.free /\ q.slab = pg.slab
  BY <1>1 DEF SlobPageType
<1>3. FreeIs(q, FreeWords(pg))
  <2>1. \A i \in FreeWords(pg) : q.words[i] = pg.words[i]
    BY <1>2
  <2> QED BY ONLY <2>1, <1>1, <1>2, FreeIsKept
<1>4. FreeWords(q) = FreeWords(pg)
  BY <1>3, FreeIsFreeWords
<1> QED BY <1>2, <1>3, <1>4 DEF SoundPage

-----------------------------------------------------------------------------
(* The pages HP of the heap, the lists ls and the blocks H. *)

BlocksOf(H, p) == {b \in H : b.page = p}

\* The pages with q for p, and the page pg with words v.
Swap(pg, p, q) == [pg EXCEPT ![p] = q]
Rewords(pg, v) == [pg EXCEPT !.words = v]

\* The lists after slob_page_alloc has returned r: a full page leaves its list.
ListsAfter(ls, p, r) == IF r.page.units = 0 THEN Unlist(ls, p) ELSE ls

\* Every page is sound, and the pages with free words and no others are listed, once.
HeapOK(pg, HP, H, ls) ==
  /\ \A p \in HP : SoundPage(pg[p], BlocksOf(H, p))
  /\ \A p \in Page : IF p \in HP /\ pg[p].free THEN ListedOnce(ls, p) ELSE Unlisted(ls, p)

\* There are three classes, and every size is of one of them.
LEMMA ClassOfType == ASSUME NEW size PROVE ClassOf(size) \in Class
BY DEF ClassOf, Class

\* Nothing of the heap changes outside the blocks and pages that are not its own.
LEMMA HeapElsewhere ==
  ASSUME NEW pg, NEW HP, NEW H, NEW ls, HeapOK(pg, HP, H, ls), HP \subseteq Page,
         NEW pg2, \A p \in HP : pg2[p] = pg[p],
         NEW H2, \A p \in HP : BlocksOf(H2, p) = BlocksOf(H, p)
  PROVE  HeapOK(pg2, HP, H2, ls)
<1>1. \A p \in HP : SoundPage(pg2[p], BlocksOf(H2, p))
  BY DEF HeapOK
<1>2. \A p \in Page : IF p \in HP /\ pg2[p].free THEN ListedOnce(ls, p) ELSE Unlisted(ls, p)
  BY DEF HeapOK
<1> QED BY <1>1, <1>2 DEF HeapOK

\* A page of the heap is replaced by one with as much room.
LEMMA HeapSwap ==
  ASSUME NEW pg \in [Page -> SlobPageType], NEW HP \in SUBSET Page, NEW H, NEW ls,
         HeapOK(pg, HP, H, ls),
         NEW p \in HP, NEW q, SoundPage(q, BlocksOf(H, p)), q.free = pg[p].free,
         NEW pg2, pg2 = Swap(pg, p, q)
  PROVE  HeapOK(pg2, HP, H, ls)
<1>1. pg2[p] = q /\ \A r \in Page \ {p} : pg2[r] = pg[r]
  BY DEF Swap
<1>2. \A r \in HP : SoundPage(pg2[r], BlocksOf(H, r))
  BY <1>1 DEF HeapOK
<1>3. \A r \in Page : pg2[r].free = pg[r].free
  BY <1>1
<1> QED BY <1>2, <1>3 DEF HeapOK

\* slob_page_alloc has returned r from p, a page with free words, for block b.
Takes(pg, HP, H, ls, p, b, r) ==
  /\ pg \in [Page -> SlobPageType] /\ HP \in SUBSET Page
  /\ HeapOK(pg, HP, H, ls) /\ ListsType(ls)
  /\ p \in HP /\ pg[p].units > 0
  /\ b \in Block /\ b.page = p /\ ~b.large /\ b.size > 0
  /\ r = slob_page_alloc(pg[p], b.size, b.align) /\ r.block # NoBlock /\ b.off = r.block

\* The block is one more of the heap, of words that no other had, and the other
\* blocks are as before.
TakesWell(pg, HP, H, ls, p, b, r) ==
  LET q == AfterAlloc(r)
      pg2 == Swap(pg, p, q)
      ls2 == ListsAfter(ls, p, r)
  IN  /\ HeapOK(pg2, HP, H \cup {b}, ls2)
      /\ pg2 \in [Page -> SlobPageType] /\ ListsType(ls2)
      /\ b \notin H /\ \A d \in H : d.page = p => Words(b) \cap Words(d) = {}
      /\ Words(b) \subseteq Word
      /\ Keeps(BlocksOf(H, p), pg[p], q)
      /\ AlignedTo(b.off, b.align)

\* A block is allocated from a page of the heap.
LEMMA HeapTake ==
  ASSUME NEW pg, NEW HP, NEW H, NEW ls, NEW p, NEW b, NEW r, Takes(pg, HP, H, ls, p, b, r)
  PROVE  TakesWell(pg, HP, H, ls, p, b, r)
<1> DEFINE q == AfterAlloc(r)
           pg2 == Swap(pg, p, q)
           ls2 == ListsAfter(ls, p, r)
<1>0. /\ pg \in [Page -> SlobPageType] /\ HP \in SUBSET Page
      /\ HeapOK(pg, HP, H, ls) /\ ListsType(ls)
      /\ p \in HP /\ pg[p].units > 0
      /\ b \in Block /\ b.page = p /\ ~b.large /\ b.size > 0
      /\ r = slob_page_alloc(pg[p], b.size, b.align) /\ r.block # NoBlock /\ b.off = r.block
  BY DEF Takes
<1> USE <1>0
<1> HIDE DEF q, pg2, ls2
<1> DEFINE Bs == BlocksOf(H, p)
<1>1. SoundPage(pg[p], Bs) /\ p \in Page
  BY DEF HeapOK
<1> USE <1>1
<1>2. /\ q \in SlobPageType /\ SoundPage(q, Bs \cup {b})
      /\ b \notin Bs /\ \A d \in Bs : Words(b) \cap Words(d) = {}
      /\ Words(b) \subseteq Word
      /\ Keeps(Bs, pg[p], q) /\ (q.free <=> r.page.units # 0)
      /\ AlignedTo(b.off, b.align)
  <2>1. PICK g : g = pg[p]
    OBVIOUS
  <2>2. SoundPage(g, Bs) /\ g.units > 0 /\ r = slob_page_alloc(g, b.size, b.align)
    BY <2>1
  <2> HIDE DEF Bs
  <2>3. /\ q \in SlobPageType /\ SoundPage(q, Bs \cup {b})
        /\ b \notin Bs /\ \A d \in Bs : Words(b) \cap Words(d) = {}
        /\ Words(b) \subseteq Word
        /\ Keeps(Bs, g, q) /\ (q.free <=> r.page.units # 0)
        /\ AlignedTo(b.off, b.align)
    BY ONLY <2>2, b \in Block, ~b.large, b.size > 0, r.block # NoBlock, b.off = r.block,
            q = AfterAlloc(r), TakeSound DEF q
  <2> QED BY <2>1, <2>3
<1>3. \A d \in H : d.page = p <=> d \in Bs
  BY DEF BlocksOf
<1>4. BlocksOf(H \cup {b}, p) = Bs \cup {b} /\ \A s \in Page \ {p} : BlocksOf(H \cup {b}, s) = BlocksOf(H, s)
  BY DEF BlocksOf
<1> USE <1>2
<1>5. pg2 \in [Page -> SlobPageType] /\ pg2[p] = q /\ \A s \in Page \ {p} : pg2[s] = pg[s]
  BY DEF Swap, pg2
<1> USE <1>5
<1>6. \A s \in HP : SoundPage(pg2[s], BlocksOf(H \cup {b}, s))
  <2> TAKE s \in HP
  <2>1. CASE s = p
    BY <2>1, <1>4, Zenon
  <2>2. CASE s # p
    BY <2>2, <1>4, Zenon DEF HeapOK
  <2> QED BY <2>1, <2>2
<1>7. pg[p].free
  BY DEF SoundPage
<1>8. ListedOnce(ls, p)
  BY <1>7 DEF HeapOK
<1>9. /\ ListsType(ls2)
      /\ r.page.units = 0 => Unlisted(ls2, p)
      /\ \A s \in Page \ {p} : /\ \A d \in Class : InClass(ls2, s, d) <=> InClass(ls, s, d)
                               /\ ListedOnce(ls, s) => ListedOnce(ls2, s)
  <2>1. CASE r.page.units = 0
    <3>1. ls2 = Unlist(ls, p)
      BY <2>1 DEF ListsAfter, ls2
    <3> QED BY ONLY <3>1, <1>1, <1>8, ListsType(ls), UnlistPlaces
  <2>2. CASE r.page.units # 0
    BY <2>2 DEF ListsAfter, ls2
  <2> QED BY <2>1, <2>2
<1>10. r.page.units # 0 => ls2 = ls
  BY DEF ListsAfter, ls2
<1> USE <1>9
<1>12. \A s \in Page : IF s \in HP /\ pg2[s].free THEN ListedOnce(ls2, s) ELSE Unlisted(ls2, s)
  <2> TAKE s \in Page
  <2>1. CASE s = p
    BY <2>1, <1>8, <1>10
  <2>2. CASE s # p
    <3>1. pg2[s].free = pg[s].free
      BY <2>2
    <3>2. IF s \in HP /\ pg[s].free THEN ListedOnce(ls, s) ELSE Unlisted(ls, s)
      BY DEF HeapOK
    <3> QED BY <2>2, <3>1, <3>2 DEF Unlisted
  <2> QED BY <2>1, <2>2
<1>15. HeapOK(pg2, HP, H \cup {b}, ls2)
  BY <1>6, <1>12, Zenon DEF HeapOK
<1> QED BY <1>3, <1>15 DEF TakesWell, q, pg2, ls2

\* The heap with the frame p as a fresh page, on the list of class c.
FreshWell(pg, HP, H, ls, p, c) ==
  LET pg2 == Swap(pg, p, FreshPage(pg[p]))
      ls2 == Enlist(ls, p, c)
  IN  /\ HeapOK(pg2, HP \cup {p}, H, ls2)
      /\ pg2 \in [Page -> SlobPageType] /\ ListsType(ls2)

\* A frame of no block, on no list, becomes a page of the heap.
LEMMA HeapFresh ==
  ASSUME NEW pg \in [Page -> SlobPageType], NEW HP \in SUBSET Page, NEW H, NEW ls,
         HeapOK(pg, HP, H, ls), ListsType(ls),
         NEW p \in Page \ HP, BlocksOf(H, p) = {}, NEW c \in Class
  PROVE  FreshWell(pg, HP, H, ls, p, c)
<1> DEFINE pg2 == Swap(pg, p, FreshPage(pg[p]))
           ls2 == Enlist(ls, p, c)
<1> HIDE DEF pg2, ls2
<1>1. /\ FreshPage(pg[p]) \in SlobPageType /\ SoundPage(FreshPage(pg[p]), {})
      /\ FreshPage(pg[p]).units > 0
  BY FreshSound
<1>2. Unlisted(ls, p)
  BY DEF HeapOK
<1>3. /\ ListsType(ls2)
      /\ ListedOnce(ls2, p)
      /\ \A d \in Class : InClass(ls2, p, d) => d = c
      /\ \A q \in Page \ {p} :
           /\ \A d \in Class : InClass(ls2, q, d) <=> InClass(ls, q, d)
           /\ ListedOnce(ls, q) => ListedOnce(ls2, q)
  BY ONLY <1>2, ListsType(ls), p \in Page, c \in Class, ls2 = Enlist(ls, p, c), EnlistPlaces DEF ls2
<1> USE <1>3
<1> USE <1>1
<1>5. FreshPage(pg[p]).free
  BY DEF SoundPage
<1>6. pg2 \in [Page -> SlobPageType] /\ pg2[p] = FreshPage(pg[p]) /\ \A s \in Page \ {p} : pg2[s] = pg[s]
  BY DEF Swap, pg2
<1> USE <1>6
<1>7. \A s \in HP \cup {p} : SoundPage(pg2[s], BlocksOf(H, s))
  BY Zenon DEF HeapOK
<1>8. \A s \in Page : IF s \in HP \cup {p} /\ pg2[s].free THEN ListedOnce(ls2, s) ELSE Unlisted(ls2, s)
  <2> TAKE s \in Page
  <2>1. CASE s = p
    BY <2>1, <1>5
  <2>2. CASE s # p
    <3>1. IF s \in HP /\ pg[s].free THEN ListedOnce(ls, s) ELSE Unlisted(ls, s)
      BY DEF HeapOK
    <3> QED BY <2>2, <3>1 DEF Unlisted
  <2> QED BY <2>1, <2>2
<1>10. HeapOK(pg2, HP \cup {p}, H, ls2)
  BY <1>7, <1>8 DEF HeapOK
<1> QED BY <1>10 DEF FreshWell, pg2, ls2

\* The heap with the block b back in its page p.
GivesWell(pg, HP, H, ls, p, b) ==
  LET q == AfterFree(pg[p], b)
      pg2 == Swap(pg, p, q)
      ls2 == IF ~pg[p].free THEN Enlist(ls, p, ClassOf(b.size)) ELSE ls
  IN  /\ HeapOK(pg2, HP, H \ {b}, ls2)
      /\ pg2 \in [Page -> SlobPageType] /\ ListsType(ls2)
      /\ Keeps(BlocksOf(H, p) \ {b}, pg[p], q)

\* A block goes back to its page, which stays in the heap.
LEMMA HeapGive ==
  ASSUME NEW pg \in [Page -> SlobPageType], NEW HP \in SUBSET Page, NEW H, NEW ls,
         HeapOK(pg, HP, H, ls), ListsType(ls),
         NEW p \in HP, NEW b \in H, b \in Block, b.page = p, ~b.large, b.size > 0
  PROVE  GivesWell(pg, HP, H, ls, p, b)
<1> DEFINE q == AfterFree(pg[p], b)
           pg2 == Swap(pg, p, q)
           ls2 == IF ~pg[p].free THEN Enlist(ls, p, ClassOf(b.size)) ELSE ls
<1> HIDE DEF q, pg2, ls2
<1> DEFINE Bs == BlocksOf(H, p)
<1>1. SoundPage(pg[p], Bs) /\ p \in Page
  BY DEF HeapOK
<1> USE <1>1
<1>2. q \in SlobPageType /\ SoundPage(q, Bs \ {b}) /\ q.free /\ Keeps(Bs \ {b}, pg[p], q)
  <2>1. PICK g : g = pg[p]
    OBVIOUS
  <2>2. SoundPage(g, Bs) /\ q = AfterFree(g, b) /\ b \in Bs
    BY <2>1 DEF BlocksOf, q
  <2> HIDE DEF Bs
  <2>3. q \in SlobPageType /\ SoundPage(q, Bs \ {b}) /\ q.free /\ Keeps(Bs \ {b}, g, q)
    BY ONLY <2>2, b \in Block, ~b.large, b.size > 0, GiveSound
  <2> QED BY <2>1, <2>3
<1>3. BlocksOf(H \ {b}, p) = Bs \ {b} /\ \A s \in Page \ {p} : BlocksOf(H \ {b}, s) = BlocksOf(H, s)
  BY DEF BlocksOf
<1> HIDE DEF Bs
<1> USE <1>2
<1>4. pg2 \in [Page -> SlobPageType] /\ pg2[p] = q /\ \A s \in Page \ {p} : pg2[s] = pg[s]
  BY DEF Swap, pg2
<1> USE <1>4
<1>5. \A s \in HP : SoundPage(pg2[s], BlocksOf(H \ {b}, s))
  <2> TAKE s \in HP
  <2>1. CASE s = p
    BY <2>1, <1>3
  <2>2. CASE s # p
    BY <2>2, <1>3, Zenon DEF HeapOK
  <2> QED BY <2>1, <2>2
<1>6. /\ ListsType(ls2) /\ ListedOnce(ls2, p)
      /\ \A s \in Page \ {p} : /\ \A d \in Class : InClass(ls2, s, d) <=> InClass(ls, s, d)
                               /\ ListedOnce(ls, s) => ListedOnce(ls2, s)
  <2>1. CASE ~pg[p].free
    <3>1. Unlisted(ls, p)
      BY <2>1 DEF HeapOK
    <3>2. ls2 = Enlist(ls, p, ClassOf(b.size)) /\ ClassOf(b.size) \in Class
      BY <2>1, ClassOfType DEF ls2
    <3> QED BY ONLY <3>1, <3>2, <1>1, ListsType(ls), EnlistPlaces
  <2>2. CASE pg[p].free
    BY <2>2 DEF HeapOK, ls2
  <2> QED BY <2>1, <2>2
<1> USE <1>6
<1>7. \A s \in Page : IF s \in HP /\ pg2[s].free THEN ListedOnce(ls2, s) ELSE Unlisted(ls2, s)
  <2> TAKE s \in Page
  <2>1. CASE s = p
    BY <2>1
  <2>2. CASE s # p
    <3>1. IF s \in HP /\ pg[s].free THEN ListedOnce(ls, s) ELSE Unlisted(ls, s)
      BY DEF HeapOK
    <3> QED BY <2>2, <3>1 DEF Unlisted
  <2> QED BY <2>1, <2>2
<1>9. HeapOK(pg2, HP, H \ {b}, ls2)
  BY <1>5, <1>7, Zenon DEF HeapOK
<1> QED BY <1>9 DEF Bs, GivesWell, q, pg2, ls2

\* A page whose only block is freed leaves the heap.
LEMMA HeapDrop ==
  ASSUME NEW pg \in [Page -> SlobPageType], NEW HP \in SUBSET Page, NEW H, NEW ls,
         HeapOK(pg, HP, H, ls), ListsType(ls),
         NEW p \in HP, \A d \in BlocksOf(H, p) : d \in Block /\ ~d.large /\ d.size > 0,
         NEW b \in H, b.page = p, pg[p].units + SLOB_UNITS(b.size) = PageUnits,
         NEW pg2, \A s \in Page \ {p} : pg2[s] = pg[s],
         NEW ls2, ls2 = Unlist(ls, p)
  PROVE  /\ BlocksOf(H, p) = {b} /\ ListsType(ls2)
         /\ HeapOK(pg2, HP \ {p}, H \ {b}, ls2)
<1>1. SoundPage(pg[p], BlocksOf(H, p)) /\ b \in BlocksOf(H, p) /\ p \in Page
  BY DEF HeapOK, BlocksOf
<1>2. BlocksOf(H, p) = {b}
  <2>1. PICK g, Bs : g = pg[p] /\ Bs = BlocksOf(H, p)
    OBVIOUS
  <2>2. /\ SoundPage(g, Bs) /\ b \in Bs /\ g.units + SLOB_UNITS(b.size) = PageUnits
        /\ \A d \in Bs : d \in Block /\ ~d.large /\ d.size > 0
    BY <1>1, <2>1
  <2>3. Bs = {b}
    BY ONLY <2>2, DropSound
  <2> QED BY <2>1, <2>3
<1>3. /\ ListsType(ls2) /\ Unlisted(ls2, p)
      /\ \A s \in Page \ {p} : /\ \A d \in Class : InClass(ls2, s, d) <=> InClass(ls, s, d)
                               /\ ListedOnce(ls, s) => ListedOnce(ls2, s)
  <2>1. ListedOnce(ls, p) \/ Unlisted(ls, p)
    BY <1>1 DEF HeapOK
  <2> QED BY ONLY <2>1, <1>1, ListsType(ls), ls2 = Unlist(ls, p), UnlistPlaces
<1>4. \A s \in HP \ {p} : SoundPage(pg2[s], BlocksOf(H \ {b}, s))
  <2>1. \A s \in HP \ {p} : BlocksOf(H \ {b}, s) = BlocksOf(H, s)
    BY DEF BlocksOf
  <2> QED BY <2>1, Zenon DEF HeapOK
<1> USE <1>3
<1>5. \A s \in Page : IF s \in HP \ {p} /\ pg2[s].free THEN ListedOnce(ls2, s) ELSE Unlisted(ls2, s)
  <2> TAKE s \in Page
  <2>1. IF s \in HP /\ pg[s].free THEN ListedOnce(ls, s) ELSE Unlisted(ls, s)
    BY DEF HeapOK
  <2> QED BY <2>1 DEF Unlisted
<1> QED BY <1>2, <1>4, <1>5, Zenon DEF HeapOK

-----------------------------------------------------------------------------
(* What the owners' blocks contain. *)

\* The word i of a block b that its owner has.
Content(b, i) == IF b.kind = "kmalloc" /\ ~b.large /\ i = b.off THEN Header(b) ELSE 0

\* The blocks L, of callers, and R, waiting for the end of a grace period, are
\* as their owners have left them.
DataOK(pg, L, R) ==
  /\ \A b \in L : \A i \in Words(b) : pg[b.page].words[i] = Content(b, i)
  /\ \A b \in R : ~b.large => pg[b.page].words[Footer(b)] = b.size

-----------------------------------------------------------------------------
(* The inductive invariant. *)

\* A block that some caller can have asked for.
Proper(b) ==
  /\ b \in Block /\ b.size > 0
  /\ b.align = 1 \/ b.align % 2 = 0
  /\ b.kind = "kmalloc" /\ ~b.large => b.size > MINALIGN
  /\ b.kind = "rcu" => b.size > RCU_SIZE
  /\ b.kind # "kmalloc" => (b.large <=> b.size >= PAGE_SIZE)
  /\ ~b.large => b.size < PAGE_SIZE

Types ==
  /\ page \in [Page -> SlobPageType]
  /\ taken \in SUBSET Page
  /\ ListsType(lists)
  /\ live \in SUBSET Block /\ rcu \in SUBSET Block
  /\ stat \in [Stat -> Int]
  /\ pc \in [Thread -> PC]
  /\ blk \in [Thread -> Block \cup {NULL}]
  /\ todo \in [Thread -> Seq([stat : Stat, add : Int])]
  /\ tmp \in [Thread -> Int \cup {NULL}]

\* The threads with a small block, or the wish for one; those that hold a block that
\* is in the hands of no caller; and those with a frame that is not in the heap.
Asking(t) == pc[t] \in {"search", "newpage", "insert", "return", "free"}
Holding(t) == pc[t] \in {"return", "free"}
Keeping(t) == pc[t] \in {"insert", "release"}

Heap == HeapOK(page, HeapPages, Held, lists)

\* What is known of a block that is allocated.
Owned(b) ==
  /\ Proper(b) /\ AlignedTo(b.off, b.align)
  /\ b.page \in taken
  /\ page[b.page].slab <=> ~b.large
  /\ ~b.large => b.page \in HeapPages
  /\ b.large => \A d \in Held : d.page = b.page => d = b

\* A block is with one caller, or waiting, and only those of an RCU cache wait.
Callers == live \cap rcu = {} /\ \A b \in rcu : b.kind = "rcu"

Askers == \A t \in Thread : Asking(t) => Proper(blk[t]) /\ ~blk[t].large

\* The block a thread holds is with no caller and no other thread.
Holders ==
  \A t \in Thread : Holding(t) =>
    blk[t] \notin live \cup rcu /\ \A u \in Thread : Holding(u) /\ blk[u] = blk[t] => u = t

\* The frame a thread keeps is in no other hands.
Keepers ==
  \A t \in Thread : Keeping(t) =>
    /\ blk[t].page \in taken /\ page[blk[t].page].slab
    /\ \A u \in Thread : Keeping(u) /\ blk[u].page = blk[t].page => u = t

Unused == \A p \in Page \ taken : page[p] = BlankPage

Owners == (\A b \in Held : Owned(b)) /\ Callers /\ Askers /\ Holders /\ Keepers /\ Unused

Data == DataOK(page, live, rcu)

IInv == Types /\ Heap /\ Owners /\ Data

\* The allocated blocks, by who has them.
LEMMA HeldBy ==
  ASSUME NEW b
  PROVE  b \in Held <=> b \in live \/ b \in rcu \/ \E t \in Thread : Holding(t) /\ b = blk[t]
BY DEF Held, Holding

\* A page of the heap is a frame that has been handed out, and no thread keeps it.
LEMMA HeapPageFacts ==
  ASSUME IInv
  PROVE  /\ HeapPages \subseteq Page /\ HeapPages \subseteq taken
         /\ \A p : p \in HeapPages <=>
              /\ p \in Page /\ page[p].slab
              /\ \A t \in Thread : Keeping(t) => blk[t].page # p
<1>1. \A p \in Page : page[p].slab => p \in taken
  BY SMTT(20) DEF IInv, Owners, Unused, BlankPage
<1> QED BY <1>1 DEF HeapPages, Keeping

\* A step of a thread that changes neither pages nor lists, nor who has a block.
LEMMA Quiet ==
  ASSUME IInv, Types', UNCHANGED <<page, taken, lists, live, rcu>>,
         \A t \in Thread : /\ Holding(t)' <=> Holding(t)
                           /\ Keeping(t)' <=> Keeping(t)
                           /\ Holding(t) \/ Keeping(t) => blk'[t] = blk[t]
                           /\ Asking(t)' => Proper(blk'[t]) /\ ~blk'[t].large
  PROVE  IInv'
<1>1. Held' = Held
  <2>1. ASSUME NEW b PROVE b \in Held' <=> b \in Held
    <3>1. b \in Held' <=> b \in live' \/ b \in rcu' \/ \E t \in Thread : Holding(t)' /\ b = blk'[t]
      BY DEF Held, Holding
    <3> QED BY <3>1, HeldBy
  <2> QED BY <2>1
<1>2. HeapPages' = HeapPages
  BY DEF HeapPages, Keeping
<1>3. Heap'
  BY <1>1, <1>2 DEF IInv, Heap
<1>4. Data'
  BY DEF IInv, Data
<1>5. \A b \in Held' : Owned(b)'
  <2>1. \A b \in Held : Owned(b)
    BY DEF IInv, Owners
  <2> QED BY <1>1, <1>2, <2>1 DEF Owned
<1>6. Holders'
  BY DEF IInv, Owners, Holders
<1>7. Keepers'
  BY DEF IInv, Owners, Keepers
<1>8. Owners'
  BY <1>5, <1>6, <1>7 DEF IInv, Owners, Callers, Askers, Unused
<1> QED BY <1>3, <1>4, <1>8 DEF IInv

\* The heap is empty to begin with.
LEMMA InitIInv == Init => IInv
<1> SUFFICES ASSUME Init PROVE IInv
  OBVIOUS
<1>1. BlankPage \in SlobPageType
  BY PageUnitsAssumption, SMTT(20) DEF BlankPage, SlobPageType
<1>2. Types
  <2>1. lists \in [Class -> Seq(Page)] /\ DOMAIN lists = Class
    BY SMTT(20) DEF Init
  <2>2. stat \in [Stat -> Int] /\ pc \in [Thread -> PC]
    BY SMTT(20) DEF Init, PC
  <2>3. blk \in [Thread -> Block \cup {NULL}] /\ tmp \in [Thread -> Int \cup {NULL}]
    BY DEF Init
  <2>4. todo \in [Thread -> Seq([stat : Stat, add : Int])]
    BY SMTT(20) DEF Init
  <2>5. page \in [Page -> SlobPageType] /\ taken = {} /\ live = {} /\ rcu = {}
    BY <1>1 DEF Init
  <2> QED BY <2>1, <2>2, <2>3, <2>4, <2>5, Zenon DEF Types, ListsType
<1>3. \A t \in Thread : ~Asking(t) /\ ~Holding(t) /\ ~Keeping(t)
  BY DEF Init, Asking, Holding, Keeping
<1>4. Held = {}
  BY <1>3, HeldBy DEF Init
<1>5. HeapPages = {}
  BY DEF Init, HeapPages, BlankPage
<1>6. \A p \in Page : Unlisted(lists, p)
  BY SMTT(20) DEF Init, Unlisted, InClass
<1>7. Heap
  BY <1>4, <1>5, <1>6 DEF Heap, HeapOK
<1>8. Owners /\ Data
  BY <1>3, <1>4 DEF Owners, Callers, Askers, Holders, Keepers, Unused, Data, DataOK, Init
<1> QED BY <1>2, <1>7, <1>8 DEF IInv

\* The next update of a thread, and the ones after it.
LEMMA FirstUpdate ==
  ASSUME NEW S, NEW s \in Seq(S), s # <<>> PROVE Head(s) \in S /\ Tail(s) \in Seq(S)
BY SMTT(20)

\* counter += n: the load ...
LEMMA StatLoadStep ==
  ASSUME IInv, NEW t \in Thread, StatLoad(t) PROVE IInv'
<1>1. todo[t] # <<>> /\ todo[t] \in Seq([stat : Stat, add : Int])
  BY Zenon DEF StatLoad, IInv, Types
<1>2. Head(todo[t]) \in [stat : Stat, add : Int]
  BY <1>1, FirstUpdate, Zenon
<1>3. Types'
  BY <1>2, Zenon DEF IInv, Types, StatLoad
<1> QED BY <1>3, Quiet DEF StatLoad, IInv, Owners, Askers, Holding, Keeping, Asking

\* ... and the store.
LEMMA StatStoreStep ==
  ASSUME IInv, NEW t \in Thread, StatStore(t) PROVE IInv'
<1>1. todo[t] # <<>> /\ todo[t] \in Seq([stat : Stat, add : Int])
  BY DEF StatStore, IInv, Types
<1>2. Head(todo[t]) \in [stat : Stat, add : Int] /\ Tail(todo[t]) \in Seq([stat : Stat, add : Int])
  BY <1>1, FirstUpdate, Zenon
<1>3. tmp[t] \in Int
  BY DEF IInv, Types, StatStore
<1>4. stat' \in [Stat -> Int]
  <2>0. PICK h \in [stat : Stat, add : Int] : h = Head(todo[t])
    BY <1>2
  <2>1. PICK x \in Stat, n \in Int : x = h.stat /\ n = tmp[t] + h.add
    BY <1>3, SMTT(20)
  <2>2. stat' = [stat EXCEPT ![x] = n] /\ stat \in [Stat -> Int]
    BY <2>0, <2>1 DEF StatStore, IInv, Types
  <2> QED BY ONLY <2>2, n \in Int
<1>5. todo' \in [Thread -> Seq([stat : Stat, add : Int])] /\ tmp' \in [Thread -> Int \cup {NULL}]
  BY <1>2 DEF IInv, Types, StatStore
<1>6. Types'
  BY <1>4, <1>5, Zenon DEF IInv, Types, StatStore
<1> QED BY <1>6, Quiet DEF StatStore, IInv, Owners, Askers, Holding, Keeping, Asking

\* One thread moves, and none of the others.
LEMMA OneMoves ==
  ASSUME Types, NEW t \in Thread, NEW m, pc' = [pc EXCEPT ![t] = m],
         NEW b, blk' = [blk EXCEPT ![t] = b]
  PROVE  /\ pc'[t] = m /\ blk'[t] = b
         /\ \A u \in Thread \ {t} : /\ pc'[u] = pc[u] /\ blk'[u] = blk[u]
                                    /\ Holding(u)' <=> Holding(u)
                                    /\ Keeping(u)' <=> Keeping(u)
                                    /\ Asking(u)' <=> Asking(u)
<1>1. pc'[t] = m /\ blk'[t] = b /\ \A u \in Thread \ {t} : pc'[u] = pc[u] /\ blk'[u] = blk[u]
  BY DEF Types
<1> QED BY <1>1 DEF Holding, Keeping, Asking

\* What a thread goes to and works on has its type.
LEMMA MoveTypes ==
  ASSUME Types, NEW t \in Thread, NEW m \in PC, pc' = [pc EXCEPT ![t] = m],
         NEW b \in Block \cup {NULL}, blk' = [blk EXCEPT ![t] = b],
         page' \in [Page -> SlobPageType], taken' \in SUBSET Page, ListsType(lists)',
         live' \in SUBSET Block, rcu' \in SUBSET Block,
         NEW s \in Seq([stat : Stat, add : Int]), todo' = todo \/ todo' = [todo EXCEPT ![t] = s],
         UNCHANGED <<stat, tmp>>
  PROVE  Types'
<1>1. pc' \in [Thread -> PC]
  BY DEF Types
<1>2. blk' \in [Thread -> Block \cup {NULL}]
  BY DEF Types
<1>3. todo' \in [Thread -> Seq([stat : Stat, add : Int])]
  <2>1. PICK S : S = Seq([stat : Stat, add : Int])
    OBVIOUS
  <2>2. todo \in [Thread -> S] /\ s \in S
    BY <2>1, Zenon DEF Types
  <2>3. todo' \in [Thread -> S]
    BY <2>2
  <2> QED BY <2>1, <2>3, Zenon
<1> QED BY <1>1, <1>2, <1>3, Zenon DEF Types, ListsType

\* A thread that has no block and no frame goes to label m with request b.
LEMMA MoveOn ==
  ASSUME IInv, NEW t \in Thread, NEW m \in {"idle", "search", "newpage"},
         pc[t] \in {"idle", "search", "newpage"}, pc' = [pc EXCEPT ![t] = m],
         UNCHANGED <<page, taken, lists, live, rcu, stat, todo, tmp>>,
         NEW b \in Block \cup {NULL}, blk' = [blk EXCEPT ![t] = b],
         m # "idle" => Proper(b) /\ ~b.large
  PROVE  IInv'
<1>1. Types'
  BY Zenon DEF IInv, Types, PC
<1>2. /\ pc'[t] = m /\ blk'[t] = b
      /\ \A u \in Thread \ {t} : /\ pc'[u] = pc[u] /\ blk'[u] = blk[u]
                                 /\ Holding(u)' <=> Holding(u)
                                 /\ Keeping(u)' <=> Keeping(u)
                                 /\ Asking(u)' <=> Asking(u)
  BY OneMoves, Zenon DEF IInv
<1>3. ~Holding(t) /\ ~Holding(t)' /\ ~Keeping(t) /\ ~Keeping(t)' /\ (Asking(t)' => m # "idle")
  BY <1>2 DEF Holding, Keeping, Asking
<1>4. \A u \in Thread : Asking(u) => Proper(blk[u]) /\ ~blk[u].large
  BY DEF IInv, Owners, Askers
<1>5. \A u \in Thread : /\ Holding(u)' <=> Holding(u)
                        /\ Keeping(u)' <=> Keeping(u)
                        /\ Holding(u) \/ Keeping(u) => blk'[u] = blk[u]
                        /\ Asking(u)' => Proper(blk'[u]) /\ ~blk'[u].large
  BY <1>2, <1>3, <1>4
<1> QED BY <1>1, <1>5, Quiet

\* A caller asks for a small block.
LEMMA AllocBeginStep ==
  ASSUME IInv, NEW t \in Thread, NEW size \in Nat, NEW align \in Nat, NEW kind \in Kind,
         NEW b, b = [page |-> NULL, off |-> NoBlock, size |-> size,
                     align |-> align, kind |-> kind, large |-> FALSE],
         Proper(b), AllocBegin(t, size, align, kind)
  PROVE  IInv'
<1>1. /\ pc[t] = "idle" /\ pc' = [pc EXCEPT ![t] = "search"] /\ blk' = [blk EXCEPT ![t] = b]
      /\ UNCHANGED <<page, taken, lists, live, rcu, stat, todo, tmp>>
  BY DEF AllocBegin, At, Goto
<1>2. b \in Block /\ ~b.large
  BY DEF Proper
<1> QED BY <1>1, <1>2, MoveOn, Zenon

\* slob_alloc has no page to give.
LEMMA NoPageStep ==
  ASSUME IInv, NEW t \in Thread, NoPage(t) PROVE IInv'
<1>1. /\ pc[t] = "newpage" /\ pc' = [pc EXCEPT ![t] = "idle"] /\ blk' = [blk EXCEPT ![t] = NULL]
      /\ UNCHANGED <<page, taken, lists, live, rcu, stat, todo, tmp>>
  BY DEF NoPage, At, Goto
<1> QED BY <1>1, MoveOn, Zenon

\* The lists have no page with room.
LEMMA SearchFails ==
  ASSUME IInv, NEW t \in Thread, At(t, "search"), Goto(t, "newpage"),
         UNCHANGED <<page, taken, lists, live, rcu, stat, blk, todo, tmp>>
  PROVE  IInv'
<1>1. pc[t] = "search" /\ pc' = [pc EXCEPT ![t] = "newpage"]
  BY DEF At, Goto
<1>2. blk[t] \in Block \cup {NULL} /\ blk' = [blk EXCEPT ![t] = blk[t]]
  BY DEF IInv, Types
<1>3. Proper(blk[t]) /\ ~blk[t].large
  BY <1>1 DEF IInv, Owners, Askers, Asking
<1> QED BY <1>1, <1>2, <1>3, MoveOn, Zenon

-----------------------------------------------------------------------------
(* The steps that hand out or take back a frame. *)

\* The footer of an RCU block is inside it.
LEMMA FooterWithin ==
  ASSUME NEW b, Proper(b), b.kind = "rcu", ~b.large PROVE Footer(b) \in Words(b)
<1>1. PICK s, o : s = b.size /\ o = b.off
  OBVIOUS
<1>2. s \in Nat /\ o \in Int /\ s > RCU_SIZE /\ RCU_SIZE \in Nat /\ RCU_SIZE >= 2
  BY <1>1, SizeAssumption, LayoutAssumption DEF Proper, Block, SLOB_UNIT
<1>3. o + SLOB_UNITS(s - RCU_SIZE) \in Extent(o, SLOB_UNITS(s))
  BY ONLY <1>2 DEF SLOB_UNITS, SLOB_UNIT, Extent
<1> QED BY <1>1, <1>3 DEF Footer, Words

\* The blocks B contain the same in pg2 as in pg.
SameIn(B, pg, pg2) ==
  \A b \in B : \A i \in Words(b) : pg2[b.page].words[i] = pg[b.page].words[i]

\* Some of the blocks, as they were.
LEMMA DataKept ==
  ASSUME NEW pg, NEW L, NEW R, DataOK(pg, L, R),
         NEW L2 \in SUBSET L, NEW R2 \in SUBSET R,
         \A b \in R2 : Proper(b) /\ b.kind = "rcu",
         NEW pg2, SameIn(L2 \cup R2, pg, pg2)
  PROVE  DataOK(pg2, L2, R2)
<1>1. \A b \in L2 : \A i \in Words(b) : pg2[b.page].words[i] = Content(b, i)
  BY DEF DataOK, SameIn
<1>2. ASSUME NEW b \in R2, ~b.large PROVE pg2[b.page].words[Footer(b)] = b.size
  <2>1. Footer(b) \in Words(b)
    BY <1>2, FooterWithin
  <2> QED BY <1>2, <2>1 DEF DataOK, SameIn
<1> QED BY <1>1, <1>2 DEF DataOK

\* The callers' blocks are allocated.
LEMMA CallersHold ==
  ASSUME IInv
  PROVE  /\ live \subseteq Held /\ rcu \subseteq Held
         /\ \A b \in Held : Owned(b) /\ Proper(b) /\ b \in Block /\ b.page \in taken /\ b.page \in Page
         /\ \A b \in rcu : Proper(b) /\ b.kind = "rcu"
<1>1. live \subseteq Held /\ rcu \subseteq Held
  BY HeldBy
<1>2. \A b \in Held : Owned(b)
  BY DEF IInv, Owners
<1>3. \A b \in Held : Proper(b) /\ b \in Block /\ b.page \in taken
  BY <1>2 DEF Owned, Proper
<1>4. taken \subseteq Page
  BY DEF IInv, Types
<1>5. \A b \in rcu : b.kind = "rcu"
  BY DEF IInv, Owners, Callers
<1> QED BY <1>1, <1>2, <1>3, <1>4, <1>5

\* A block of another page, and of the same pages in the heap, is owned as before.
LEMMA OwnedStill ==
  ASSUME NEW b, Owned(b), b.page \in taken', page'[b.page].slab = page[b.page].slab,
         b.page \in HeapPages => b.page \in HeapPages',
         \A d \in Held' : d.page = b.page => d \in Held \/ ~b.large
  PROVE  Owned(b)'
BY DEF Owned

\* What a keeper of a frame keeps.
LEMMA KeptFrames ==
  ASSUME IInv
  PROVE  /\ \A u \in Thread : Keeping(u) =>
              blk[u].page \in taken /\ blk[u].page \in Page /\ page[blk[u].page].slab
         /\ \A u, w \in Thread : Keeping(u) /\ Keeping(w) /\ blk[u].page = blk[w].page => u = w
BY DEF IInv, Types, Owners, Keepers

\* A step of a thread that keeps no frame after it leaves the others theirs.
LEMMA KeepersStay ==
  ASSUME IInv, NEW t \in Thread, ~Keeping(t)', taken' = taken,
         \A u \in Thread \ {t} : blk'[u] = blk[u] /\ (Keeping(u)' <=> Keeping(u)),
         \A s \in Page : page'[s].slab = page[s].slab
  PROVE  Keepers'
<1>1. \A u \in Thread : Keeping(u)' => Keeping(u) /\ blk'[u] = blk[u]
  OBVIOUS
<1>2. \A u \in Thread : Keeping(u)' => blk'[u].page \in taken' /\ page'[blk'[u].page].slab
  BY <1>1, KeptFrames, SMTT(20)
<1>3. \A u, w \in Thread : Keeping(u)' /\ Keeping(w)' /\ blk'[u].page = blk'[w].page => u = w
  BY <1>1, KeptFrames, SMTT(20)
<1> QED BY ONLY <1>2, <1>3 DEF Keepers

\* slob_new_pages.
LEMMA NewPageStep ==
  ASSUME IInv, NEW t \in Thread, NewPage(t) PROVE IInv'
<1>1. PICK p \in Page \ taken :
        /\ taken' = taken \cup {p}
        /\ page' = [page EXCEPT ![p].slab = TRUE]
        /\ blk' = [blk EXCEPT ![t].page = p]
  BY Zenon DEF NewPage
<1>2. /\ pc[t] = "newpage" /\ pc' = [pc EXCEPT ![t] = "insert"]
      /\ UNCHANGED <<lists, live, rcu, stat, todo, tmp>>
  BY DEF NewPage, At, Goto
<1> USE <1>2
<1>3. Proper(blk[t]) /\ ~blk[t].large
  BY DEF IInv, Owners, Askers, Asking
<1> DEFINE b == [blk[t] EXCEPT !.page = p]
<1>4. b \in Block /\ Proper(b) /\ ~b.large /\ b.page = p
  BY <1>3 DEF Proper, Block
<1> USE <1>1
<1>5. blk' = [blk EXCEPT ![t] = b]
  OBVIOUS
<1> HIDE DEF b
<1>6. /\ pc'[t] = "insert" /\ blk'[t] = b
      /\ \A u \in Thread \ {t} : /\ pc'[u] = pc[u] /\ blk'[u] = blk[u]
                                 /\ Holding(u)' <=> Holding(u)
                                 /\ Keeping(u)' <=> Keeping(u)
                                 /\ Asking(u)' <=> Asking(u)
  BY <1>5, OneMoves, Zenon DEF IInv
<1> USE <1>6
<1>7. ~Holding(t) /\ ~Holding(t)' /\ ~Keeping(t) /\ Keeping(t)'
  BY DEF Holding, Keeping
<1>8. /\ page'[p].slab /\ \A q \in Page \ {p} : page'[q] = page[q]
      /\ page' \in [Page -> SlobPageType]
  <2>1. page \in [Page -> SlobPageType]
    BY DEF IInv, Types
  <2>2. page'[p].slab /\ \A q \in Page \ {p} : page'[q] = page[q]
    BY <2>1, SMTT(20) DEF SlobPageType
  <2>3. PICK g : g = [page[p] EXCEPT !.slab = TRUE]
    OBVIOUS
  <2>4. g \in SlobPageType
    <3>1. page[p] \in SlobPageType
      BY <2>1
    <3> QED BY ONLY <2>3, <3>1, Zenon DEF SlobPageType
  <2>5. page' = [page EXCEPT ![p] = g]
    BY <2>1, <2>3
  <2>6. page' \in [Page -> SlobPageType]
    BY ONLY <2>1, <2>4, <2>5, Zenon
  <2> QED BY <2>2, <2>6
<1> USE <1>4, <1>8
<1>9. Types'
  <2>1. /\ taken' \in SUBSET Page /\ ListsType(lists)'
        /\ live' \in SUBSET Block /\ rcu' \in SUBSET Block
    BY DEF IInv, Types, ListsType
  <2>2. "insert" \in PC /\ <<>> \in Seq([stat : Stat, add : Int])
    BY SMTT(20) DEF PC
  <2> QED BY <2>1, <2>2, <1>5, MoveTypes, Zenon DEF IInv
<1> USE <1>7
<1>10. Held' = Held
  <2>1. ASSUME NEW d PROVE d \in Held' <=> d \in Held
    <3>1. d \in Held' <=> d \in live' \/ d \in rcu' \/ \E u \in Thread : Holding(u)' /\ d = blk'[u]
      BY SMTT(20) DEF Held, Holding
    <3> QED BY <3>1, HeldBy, SMTT(20)
  <2> QED BY <2>1, Zenon
<1>11. HeapPages' = HeapPages
  <2>1. ASSUME NEW q PROVE q \in HeapPages' <=> q \in HeapPages
    <3>1. q \in HeapPages' <=> /\ q \in Page /\ page'[q].slab
                               /\ \A u \in Thread : Keeping(u)' => blk'[u].page # q
      BY DEF HeapPages, Keeping
    <3>2. CASE q = p
      BY <3>1, <3>2, HeapPageFacts
    <3>3. CASE q # p
      BY <3>1, <3>3, HeapPageFacts, SMTT(20)
    <3> QED BY <3>2, <3>3
  <2> QED BY <2>1
<1>12. Heap'
  <2>1. \A q \in HeapPages : page'[q] = page[q]
    BY HeapPageFacts, SMTT(20)
  <2>2. HeapOK(page', HeapPages, Held, lists)
    BY <2>1, HeapElsewhere, HeapPageFacts DEF IInv, Heap
  <2> QED BY <2>2, <1>10, <1>11 DEF Heap
<1>13. \A d \in Held' : Owned(d)'
  BY <1>10, <1>11, CallersHold, OwnedStill, Zenon
<1>14. Data'
  <2>1. SameIn(live \cup rcu, page, page')
    BY CallersHold, SMTT(20) DEF SameIn
  <2>2. DataOK(page', live, rcu)
    BY <2>1, DataKept, CallersHold DEF IInv, Data
  <2> QED BY <2>2 DEF Data
<1>15. Askers' /\ Holders' /\ Callers'
  BY DEF IInv, Owners, Askers, Holders, Callers
<1>16. Keepers'
  <2>1. ASSUME NEW u \in Thread \ {t}, Keeping(u)'
        PROVE  /\ Keeping(u) /\ blk'[u] = blk[u]
               /\ blk[u].page \in taken /\ blk[u].page # p /\ page'[blk[u].page].slab
    <3>1. Keeping(u) /\ blk'[u] = blk[u]
      BY <2>1
    <3>2. blk[u].page \in taken /\ blk[u].page \in Page \ {p} /\ page[blk[u].page].slab
      BY <3>1, KeptFrames, SMTT(20)
    <3> QED BY <3>1, <3>2
  <2>2. blk'[t].page = p /\ p \in taken' /\ page'[p].slab /\ taken \subseteq taken'
    OBVIOUS
  <2>3. \A u \in Thread : Keeping(u)' => blk'[u].page \in taken' /\ page'[blk'[u].page].slab
    BY ONLY <2>1, <2>2
  <2>4. \A u, w \in Thread : Keeping(u)' /\ Keeping(w)' /\ blk'[u].page = blk'[w].page => u = w
    <3> SUFFICES ASSUME NEW u \in Thread, NEW w \in Thread, Keeping(u)', Keeping(w)',
                        blk'[u].page = blk'[w].page, u # w
                 PROVE  FALSE
      OBVIOUS
    <3>1. CASE u = t \/ w = t
      BY <3>1, <2>1, <2>2, SMTT(20)
    <3>2. CASE u # t /\ w # t
      BY <3>2, <2>1, KeptFrames, SMTT(20)
    <3> QED BY <3>1, <3>2
  <2> QED BY ONLY <2>3, <2>4 DEF Keepers
<1>17. Unused'
  BY DEF IInv, Owners, Unused
<1> QED BY <1>9, <1>12, <1>13, <1>14, <1>15, <1>16, <1>17 DEF IInv, Owners

\* What the owner of a block finds in it.
LEMMA FillContent ==
  ASSUME NEW b, NEW w, NEW i \in Word
  PROVE  Fill(w, b)[i] = IF i \in Words(b) THEN Content(b, i) ELSE w[i]
BY DEF Fill, Content

\* It is a word.
LEMMA FillType ==
  ASSUME NEW b \in Block, NEW w \in [Word -> Int] PROVE Fill(w, b) \in [Word -> Int]
<1>1. Header(b) \in Int
  BY SizeAssumption, SMTT(20) DEF Header, Block
<1> QED BY <1>1, SMTT(20) DEF Fill

\* slob_new_pages for a large object.
LEMMA LargeAllocStep ==
  ASSUME IInv, NEW t \in Thread, NEW size \in Nat \ {0}, NEW kind \in Kind,
         LargeAlloc(t, size, kind),
         kind = "rcu" => size > RCU_SIZE, kind # "kmalloc" => size >= PAGE_SIZE
  PROVE  IInv'
<1>1. PICK p \in Page \ taken :
        LET b == [page |-> p, off |-> 0, size |-> size, align |-> 0,
                  kind |-> kind, large |-> TRUE]
        IN  /\ taken' = taken \cup {p}
            /\ page' = [page EXCEPT ![p].words = Fill(@, b)]
            /\ live' = live \cup {b}
  BY Zenon DEF LargeAlloc
<1> DEFINE b == [page |-> p, off |-> 0, size |-> size, align |-> 0,
                 kind |-> kind, large |-> TRUE]
<1>2. UNCHANGED <<lists, rcu, stat, pc, blk, todo, tmp>>
  BY DEF LargeAlloc
<1>3. b \in Block /\ Proper(b) /\ b.large /\ b.page = p /\ Words(b) = Word
  BY SMTT(20) DEF Block, Proper, Words
<1>4. AlignedTo(b.off, b.align)
  BY SMTT(20) DEF AlignedTo
<1>5. page[p] \in SlobPageType /\ page[p] = BlankPage /\ page[p].words \in [Word -> Int] /\ ~page[p].slab
  BY SMTT(20) DEF IInv, Types, Owners, Unused, BlankPage, SlobPageType
<1> USE <1>5
<1>6. PICK v \in [Word -> Int] : v = Fill(page[p].words, b)
  BY <1>3, FillType
<1>7. /\ page' = [page EXCEPT ![p] = [page[p] EXCEPT !.words = v]]
      /\ live' = live \cup {b}
  BY <1>1, <1>6
<1>8. \A i \in Word : v[i] = Content(b, i)
  BY <1>3, <1>6, FillContent
<1> HIDE DEF b
<1> USE <1>7
<1>9. page'[p].words = v /\ page'[p].slab = page[p].slab /\ page'[p] \in SlobPageType
  BY Zenon DEF IInv, Types, SlobPageType
<1> USE <1>9
<1>10. page' \in [Page -> SlobPageType] /\ \A q \in Page \ {p} : page'[q] = page[q]
  BY DEF IInv, Types
<1> USE <1>2, <1>10
<1>11. Types'
  BY <1>1, <1>3, Zenon DEF IInv, Types, ListsType
<1>12. \A u \in Thread : /\ Holding(u)' <=> Holding(u)
                         /\ Keeping(u)' <=> Keeping(u)
                         /\ Asking(u)' <=> Asking(u)
  BY DEF Holding, Keeping, Asking
<1> USE <1>12
<1>13. Held' = Held \cup {b}
  <2>1. ASSUME NEW d PROVE d \in Held' <=> d \in Held \/ d = b
    <3>1. d \in Held' <=> d \in live' \/ d \in rcu' \/ \E u \in Thread : Holding(u)' /\ d = blk'[u]
      BY DEF Held, Holding
    <3> QED BY <3>1, HeldBy
  <2> QED BY <2>1
<1>14. \A q \in Page : page'[q].slab = page[q].slab
  OBVIOUS
<1> USE <1>14
<1>15. HeapPages' = HeapPages
  BY DEF HeapPages
<1>16. p \notin HeapPages
  BY HeapPageFacts
<1>17. \A d \in Held : d.page # p
  BY CallersHold
<1> USE <1>13
<1>18. Heap'
  <2>1. \A q \in HeapPages : page'[q] = page[q] /\ BlocksOf(Held \cup {b}, q) = BlocksOf(Held, q)
    BY <1>3, <1>16, HeapPageFacts, SMTT(20) DEF BlocksOf
  <2>3. HeapOK(page, HeapPages, Held, lists) /\ HeapPages \subseteq Page
    BY HeapPageFacts DEF IInv, Heap
  <2>2. HeapOK(page', HeapPages, Held \cup {b}, lists)
    BY ONLY <2>1, <2>3, HeapElsewhere, Zenon
  <2> QED BY <2>2, <1>15 DEF Heap
<1> USE <1>17
<1>19. \A d \in Held' : Owned(d)'
  <2>1. Owned(b)'
    BY <1>1, <1>3, <1>4 DEF Owned
  <2>2. ASSUME NEW d \in Held PROVE Owned(d)'
    <3>1. Owned(d) /\ d.page \in taken' /\ page'[d.page].slab = page[d.page].slab
      BY <1>1, CallersHold
    <3>2. \A e \in Held' : e.page = d.page => e \in Held \/ ~d.large
      BY <1>3
    <3> QED BY <3>1, <3>2, <1>15, OwnedStill
  <2> QED BY <2>1, <2>2
<1>20. Data'
  <2>1. SameIn(live \cup rcu, page, page')
    BY CallersHold DEF SameIn
  <2>2. DataOK(page', live, rcu)
    BY <2>1, DataKept, CallersHold DEF IInv, Data
  <2>3. DataOK(page', live \cup {b}, rcu)
    BY <2>2, <1>3, <1>8 DEF DataOK
  <2> QED BY <2>3 DEF Data
<1>21. Askers' /\ Keepers'
  <2>1. \A u \in Thread : Keeping(u) => blk[u].page \in Page
    BY DEF IInv, Types, Owners, Keepers
  <2> QED BY <2>1, <1>1 DEF IInv, Owners, Askers, Keepers
<1>22. Holders'
  <2>1. \A u \in Thread : Holding(u) => blk[u] # b
    BY <1>3, HeldBy
  <2> QED BY <2>1 DEF IInv, Owners, Holders
<1>23. Callers'
  <2>1. b \notin rcu
    BY <1>3, CallersHold
  <2> QED BY <2>1 DEF IInv, Owners, Callers
<1>24. Unused'
  BY <1>1 DEF IInv, Owners, Unused
<1> QED BY <1>11, <1>18, <1>19, <1>20, <1>21, <1>22, <1>23, <1>24 DEF IInv, Owners

\* A frame that no block and no thread has any more goes back: what is left to
\* show when H are the blocks that stay, and p the frame.
LEMMA FrameReturned ==
  ASSUME IInv, Types', NEW p \in taken,
         page' = [page EXCEPT ![p] = BlankPage], taken' = taken \ {p}, UNCHANGED lists,
         p \notin HeapPages, \A d \in Held' : d \in Held /\ d.page # p,
         \A d \in Held : d.page # p => d \in Held',
         live' \subseteq live, rcu' \subseteq rcu,
         \A u \in Thread : /\ Keeping(u)' <=> (Keeping(u) /\ blk[u].page # p)
                           /\ Keeping(u)' => blk'[u] = blk[u]
                           /\ Holding(u)' <=> Holding(u)
                           /\ Asking(u)' => Asking(u)
                           /\ Asking(u)' => blk'[u] = blk[u]
  PROVE  IInv'
<1>1. /\ p \in Page /\ page'[p] = BlankPage /\ ~page'[p].slab
      /\ \A q \in Page \ {p} : page'[q] = page[q]
  BY DEF IInv, Types, BlankPage
<1> USE <1>1
<1>2. HeapPages' = HeapPages
  <2>1. ASSUME NEW q PROVE q \in HeapPages' <=> q \in HeapPages
    <3>1. q \in HeapPages' <=> /\ q \in Page /\ page'[q].slab
                               /\ \A u \in Thread : Keeping(u)' => blk'[u].page # q
      BY DEF HeapPages, Keeping
    <3>2. CASE q = p
      BY <3>1, <3>2
    <3>3. CASE q # p
      BY <3>1, <3>3, HeapPageFacts, SMTT(20)
    <3> QED BY <3>2, <3>3
  <2> QED BY <2>1, Zenon
<1>3. Heap'
  <2>1. \A q \in HeapPages : page'[q] = page[q] /\ BlocksOf(Held', q) = BlocksOf(Held, q)
    BY HeapPageFacts, SMTT(20) DEF BlocksOf
  <2>3. HeapOK(page, HeapPages, Held, lists) /\ HeapPages \subseteq Page
    BY HeapPageFacts DEF IInv, Heap
  <2>2. HeapOK(page', HeapPages, Held', lists)
    BY ONLY <2>1, <2>3, HeapElsewhere
  <2> QED BY <2>2, <1>2 DEF Heap
<1>4. \A d \in Held' : Owned(d)'
  <2> TAKE d \in Held'
  <2>1. Owned(d) /\ d.page \in taken' /\ page'[d.page].slab = page[d.page].slab
    BY CallersHold
  <2> QED BY <2>1, <1>2, OwnedStill
<1>5. Data'
  <2>1. live' \subseteq Held' /\ rcu' \subseteq Held'
    BY DEF Held
  <2>2. SameIn(live' \cup rcu', page, page')
    BY <2>1, CallersHold DEF SameIn
  <2>3. DataOK(page', live', rcu')
    BY <2>2, DataKept, CallersHold DEF IInv, Data
  <2> QED BY <2>3 DEF Data
<1>6. Askers' /\ Callers'
  BY DEF IInv, Owners, Askers, Callers
<1>7. Holders'
  <2>1. \A u \in Thread : Holding(u)' => blk'[u] = blk[u]
    BY DEF Holding, Asking
  <2> QED BY <2>1 DEF IInv, Owners, Holders
<1>8. Keepers'
  <2>1. \A u \in Thread : Keeping(u)' => Keeping(u) /\ blk[u].page # p /\ blk'[u] = blk[u]
    OBVIOUS
  <2>2. ASSUME NEW u \in Thread, Keeping(u)'
        PROVE  blk'[u].page \in taken' /\ page'[blk'[u].page].slab
    <3>1. /\ Keeping(u) /\ blk[u].page # p /\ blk'[u] = blk[u]
      BY ONLY <2>1, <2>2
    <3>2. blk[u].page \in taken /\ blk[u].page \in Page /\ page[blk[u].page].slab
      BY ONLY <3>1, KeptFrames, IInv
    <3>3. page'[blk[u].page] = page[blk[u].page]
      BY ONLY <3>1, <3>2, <1>1
    <3>4. taken' = taken \ {p}
      OBVIOUS
    <3> QED BY ONLY <3>1, <3>2, <3>3, <3>4
  <2>3. \A u, w \in Thread : Keeping(u)' /\ Keeping(w)' /\ blk'[u].page = blk'[w].page => u = w
    BY ONLY <2>1, KeptFrames, IInv
  <2> QED BY ONLY <2>2, <2>3 DEF Keepers
<1>9. Unused'
  BY DEF IInv, Owners, Unused
<1> QED BY <1>3, <1>4, <1>5, <1>6, <1>7, <1>8, <1>9 DEF IInv, Owners

\* slob_free_pages of a page that has left the heap.
LEMMA ReleaseStep ==
  ASSUME IInv, NEW t \in Thread, Release(t) PROVE IInv'
<1> DEFINE p == blk[t].page
<1>1. /\ pc[t] = "release" /\ pc' = [pc EXCEPT ![t] = "idle"] /\ blk' = [blk EXCEPT ![t] = NULL]
      /\ page' = [page EXCEPT ![p] = BlankPage] /\ taken' = taken \ {p}
      /\ todo' = [todo EXCEPT ![t] = <<Add("pcount", -1)>>]
      /\ UNCHANGED <<lists, live, rcu, stat, tmp>>
  BY DEF Release, At, Goto
<1> USE <1>1
<1>2. Keeping(t) /\ ~Holding(t)
  BY DEF Keeping, Holding
<1> USE <1>2
<1>3. p \in taken /\ page[p].slab /\ \A u \in Thread : Keeping(u) /\ blk[u].page = p => u = t
  BY DEF IInv, Owners, Keepers
<1>4. p \notin HeapPages
  BY HeapPageFacts
<1> USE <1>3
<1>5. \A d \in Held : d.page # p
  BY <1>4, CallersHold DEF Owned
<1> HIDE DEF p
<1>6. /\ pc'[t] = "idle" /\ blk'[t] = NULL
      /\ \A u \in Thread \ {t} : /\ pc'[u] = pc[u] /\ blk'[u] = blk[u]
                                 /\ Holding(u)' <=> Holding(u)
                                 /\ Keeping(u)' <=> Keeping(u)
                                 /\ Asking(u)' <=> Asking(u)
  BY OneMoves, Zenon DEF IInv
<1> USE <1>6
<1>7. ~Keeping(t)' /\ ~Holding(t)' /\ ~Asking(t)'
  BY DEF Keeping, Holding, Asking
<1>8. Types'
  <2>1. <<Add("pcount", -1)>> \in Seq([stat : Stat, add : Int]) /\ "idle" \in PC
    BY SMTT(20) DEF Add, Stat, PC
  <2>2. page' \in [Page -> SlobPageType]
    <3>1. BlankPage \in SlobPageType
      BY PageUnitsAssumption, SMTT(20) DEF BlankPage, SlobPageType
    <3> QED BY <3>1, Zenon DEF IInv, Types
  <2>3. /\ taken' \in SUBSET Page /\ ListsType(lists)'
        /\ live' \in SUBSET Block /\ rcu' \in SUBSET Block
    BY DEF IInv, Types, ListsType
  <2> QED BY <2>1, <2>2, <2>3, MoveTypes, Zenon DEF IInv
<1>9. Held' = Held
  <2>1. ASSUME NEW d PROVE d \in Held' <=> d \in Held
    <3>1. d \in Held' <=> d \in live' \/ d \in rcu' \/ \E u \in Thread : Holding(u)' /\ d = blk'[u]
      BY DEF Held, Holding
    <3> QED BY <3>1, <1>7, HeldBy, SMTT(20)
  <2> QED BY <2>1
<1>10. \A u \in Thread : /\ Keeping(u)' <=> (Keeping(u) /\ blk[u].page # p)
                         /\ Keeping(u)' => blk'[u] = blk[u]
                         /\ Holding(u)' <=> Holding(u)
                         /\ Asking(u)' => Asking(u)
                         /\ Asking(u)' => blk'[u] = blk[u]
  BY <1>7 DEF p
<1> QED BY <1>4, <1>5, <1>8, <1>9, <1>10, FrameReturned, Zenon

\* Block b is in the hands of a caller, or waits for the end of a grace period, and
\* is taken from there.
Surrendered(b) ==
  \/ b \in live /\ live' = live \ {b} /\ rcu' = rcu
  \/ b \in rcu /\ rcu' = rcu \ {b} /\ live' = live

\* Nobody else has it.
LEMMA SurrenderedOnce ==
  ASSUME IInv, NEW b, Surrendered(b)
  PROVE  /\ b \in Held /\ b \notin live' \cup rcu' /\ \A u \in Thread : Holding(u) => blk[u] # b
         /\ live' \subseteq live /\ rcu' \subseteq rcu
         /\ \A d : d # b => (d \in live' <=> d \in live) /\ (d \in rcu' <=> d \in rcu)
<1>1. b \in live \cup rcu /\ b \in Held
  BY HeldBy DEF Surrendered
<1>2. \A u \in Thread : Holding(u) => blk[u] # b
  BY <1>1 DEF IInv, Owners, Holders
<1> QED BY <1>1, <1>2 DEF Surrendered, IInv, Owners, Callers

\* The pages of a large object go back.
LEMMA LargeFreeStep ==
  ASSUME IInv, NEW b, Surrendered(b), b.large, LargeFree(b) PROVE IInv'
<1> DEFINE p == b.page
<1>1. /\ page' = [page EXCEPT ![p] = BlankPage] /\ taken' = taken \ {p}
      /\ UNCHANGED <<lists, stat, pc, blk, todo, tmp>>
  BY DEF LargeFree
<1>2. /\ b \in Held /\ b \notin live' \cup rcu' /\ \A u \in Thread : Holding(u) => blk[u] # b
      /\ live' \subseteq live /\ rcu' \subseteq rcu
      /\ \A d : d # b => (d \in live' <=> d \in live) /\ (d \in rcu' <=> d \in rcu)
  BY SurrenderedOnce
<1> USE <1>2
<1>3. p \in taken /\ ~page[p].slab /\ \A d \in Held : d.page = p => d = b
  BY CallersHold DEF Owned
<1> HIDE DEF p
<1> USE <1>1
<1>4. \A u \in Thread : /\ Holding(u)' <=> Holding(u)
                        /\ Keeping(u)' <=> Keeping(u)
                        /\ Asking(u)' <=> Asking(u)
  BY DEF Holding, Keeping, Asking
<1>5. \A d : d \in Held' <=> d \in Held /\ d # b
  <2> TAKE d
  <2>1. d \in Held' <=> d \in live' \/ d \in rcu' \/ \E u \in Thread : Holding(u)' /\ d = blk'[u]
    BY DEF Held, Holding
  <2> QED BY <2>1, <1>4, HeldBy
<1>6. \A d \in Held : d.page # p => d # b
  BY DEF p
<1> USE <1>3
<1>7. \A u \in Thread : Keeping(u) => blk[u].page # p
  BY DEF IInv, Owners, Keepers
<1>8. Types'
  <2>1. BlankPage \in SlobPageType
    BY PageUnitsAssumption, SMTT(20) DEF BlankPage, SlobPageType
  <2>2. page' \in [Page -> SlobPageType] /\ taken' \in SUBSET Page
    BY <2>1, Zenon DEF IInv, Types
  <2> QED BY <2>2, Zenon DEF IInv, Types, ListsType
<1>9. p \notin HeapPages
  BY HeapPageFacts
<1>10. \A u \in Thread : /\ Keeping(u)' <=> (Keeping(u) /\ blk[u].page # p)
                         /\ Keeping(u)' => blk'[u] = blk[u]
                         /\ Holding(u)' <=> Holding(u)
                         /\ Asking(u)' => Asking(u)
                         /\ Asking(u)' => blk'[u] = blk[u]
  BY <1>4, <1>7
<1>11. (\A d \in Held' : d \in Held /\ d.page # p) /\ \A d \in Held : d.page # p => d \in Held'
  BY <1>5, <1>6
<1> QED BY <1>8, <1>9, <1>10, <1>11, FrameReturned, Zenon

-----------------------------------------------------------------------------
(* The steps that pass a block from hand to hand. *)

\* A step after which the same blocks are allocated and the same pages in the heap.
LEMMA HandsChange ==
  ASSUME IInv, Types', Held' = Held, UNCHANGED <<taken, lists>>,
         \A p \in Page : page'[p].slab = page[p].slab,
         \A p \in Page \ taken : page'[p] = page[p],
         HeapOK(page', HeapPages, Held, lists),
         \A u \in Thread : (Keeping(u)' <=> Keeping(u)) /\ (Keeping(u) => blk'[u] = blk[u]),
         Callers', Askers', Holders', Data'
  PROVE  IInv'
<1>1. HeapPages' = HeapPages
  <2>1. ASSUME NEW q PROVE q \in HeapPages' <=> q \in HeapPages
    <3>1. q \in HeapPages' <=> /\ q \in Page /\ page'[q].slab
                               /\ \A u \in Thread : Keeping(u)' => blk'[u].page # q
      BY DEF HeapPages, Keeping
    <3> QED BY <3>1, HeapPageFacts, SMTT(20)
  <2> QED BY <2>1, Zenon
<1>2. Heap'
  BY <1>1 DEF Heap
<1>3. \A d \in Held' : Owned(d)'
  <2> TAKE d \in Held'
  <2>1. Owned(d) /\ d.page \in taken' /\ page'[d.page].slab = page[d.page].slab
    BY CallersHold
  <2> QED BY <2>1, <1>1, OwnedStill
<1>4. Keepers'
  <2>1. \A u \in Thread : Keeping(u) => blk[u].page \in Page
    BY DEF IInv, Types, Owners, Keepers
  <2> QED BY <2>1 DEF IInv, Owners, Keepers
<1>5. Unused'
  BY DEF IInv, Owners, Unused
<1> QED BY <1>2, <1>3, <1>4, <1>5 DEF IInv, Owners

\* slob_free of a small block, up to the lock.
LEMMA SmallFreeStep ==
  ASSUME IInv, NEW t \in Thread, At(t, "idle"), NEW b, Surrendered(b), ~b.large,
         FreeBegin(t, b, b.size)
  PROVE  IInv'
<1>1. /\ b \in Held /\ b \notin live' \cup rcu' /\ \A u \in Thread : Holding(u) => blk[u] # b
      /\ live' \subseteq live /\ rcu' \subseteq rcu
      /\ \A d : d # b => (d \in live' <=> d \in live) /\ (d \in rcu' <=> d \in rcu)
  BY SurrenderedOnce
<1> USE <1>1
<1>2. b \in Block /\ Proper(b)
  BY CallersHold
<1> USE <1>2
<1>3. [b EXCEPT !.size = b.size] = b
  BY DEF Block
<1>4. /\ pc[t] = "idle" /\ pc' = [pc EXCEPT ![t] = "free"] /\ blk' = [blk EXCEPT ![t] = b]
      /\ todo' = [todo EXCEPT ![t] = <<Add("used_m", -b.size)>>]
      /\ UNCHANGED <<page, taken, lists, stat, tmp>>
  BY <1>3, Zenon DEF FreeBegin, At, Goto
<1> USE <1>4
<1>5. /\ pc'[t] = "free" /\ blk'[t] = b
      /\ \A u \in Thread \ {t} : /\ pc'[u] = pc[u] /\ blk'[u] = blk[u]
                                 /\ Holding(u)' <=> Holding(u)
                                 /\ Keeping(u)' <=> Keeping(u)
                                 /\ Asking(u)' <=> Asking(u)
  BY OneMoves, Zenon DEF IInv
<1> USE <1>5
<1>6. ~Holding(t) /\ ~Keeping(t) /\ Holding(t)' /\ ~Keeping(t)' /\ Asking(t)'
  BY DEF Holding, Keeping, Asking
<1>7. Types'
  <2>1. <<Add("used_m", -b.size)>> \in Seq([stat : Stat, add : Int])
    <3>1. PICK n \in Int : n = -b.size
      BY SMTT(20) DEF Block
    <3>2. <<[stat |-> "used_m", add |-> n]>> \in Seq([stat : Stat, add : Int])
      BY SMTT(20) DEF Stat
    <3> QED BY <3>1, <3>2 DEF Add
  <2>2. /\ page' \in [Page -> SlobPageType] /\ taken' \in SUBSET Page /\ ListsType(lists)'
        /\ live' \in SUBSET Block /\ rcu' \in SUBSET Block /\ "free" \in PC
    BY DEF IInv, Types, ListsType, PC
  <2> QED BY <2>1, <2>2, MoveTypes, Zenon DEF IInv
<1> USE <1>6
<1>8. Held' = Held
  <2>1. ASSUME NEW d PROVE d \in Held' <=> d \in Held
    <3>1. d \in Held' <=> d \in live' \/ d \in rcu' \/ \E u \in Thread : Holding(u)' /\ d = blk'[u]
      BY DEF Held, Holding
    <3> QED BY <3>1, HeldBy, SMTT(20)
  <2> QED BY <2>1
<1>9. HeapOK(page', HeapPages, Held, lists)
  BY DEF IInv, Heap
<1>10. Callers' /\ Askers'
  BY SMTT(20) DEF IInv, Owners, Callers, Askers
<1>11. Holders'
  BY SMTT(20) DEF IInv, Owners, Holders
<1>12. Data'
  <2>1. SameIn(live' \cup rcu', page, page')
    BY DEF SameIn
  <2>2. DataOK(page', live', rcu')
    BY <2>1, DataKept, CallersHold DEF IInv, Data
  <2> QED BY <2>2 DEF Data
<1> QED BY <1>7, <1>8, <1>9, <1>10, <1>11, <1>12, HandsChange, Zenon

\* A block lies within its page.
LEMMA HeldWords ==
  ASSUME IInv, NEW b \in Held PROVE Words(b) \subseteq Word
<1>1. CASE b.large
  BY <1>1 DEF Words
<1>2. CASE ~b.large
  <2>1. b.page \in HeapPages
    BY <1>2, CallersHold DEF Owned
  <2>2. SoundPage(page[b.page], BlocksOf(Held, b.page)) /\ b \in BlocksOf(Held, b.page)
    BY <2>1, Zenon DEF IInv, Heap, HeapOK, BlocksOf
  <2> QED BY <2>2 DEF SoundPage
<1> QED BY <1>1, <1>2

\* The pages pg2 are those of the heap but for the words of p, which are v: they
\* differ in block b only, and the heap is as sound.
Written(pg2, p, b, v) ==
  /\ HeapOK(pg2, HeapPages, Held, lists)
  /\ pg2 \in [Page -> SlobPageType]
  /\ \A q \in Page : pg2[q].slab = page[q].slab
  /\ \A q \in Page \ {p} : pg2[q] = page[q]
  /\ SameIn(Held \ {b}, page, pg2)
  /\ pg2[p].words = v

\* A write to the words of a small block changes no other block, and the heap is
\* as sound as before.
LEMMA OwnerWrites ==
  ASSUME IInv, NEW b \in Held, ~b.large, NEW v \in [Word -> Int],
         NEW p, p = b.page,
         \A i \in Word \ Words(b) : v[i] = page[p].words[i],
         NEW pg2, pg2 = Swap(page, p, Rewords(page[p], v))
  PROVE  Written(pg2, p, b, v)
<1>1. p \in HeapPages /\ p \in Page /\ p \in taken
  BY CallersHold, HeapPageFacts DEF Owned
<1>2. HeapOK(page, HeapPages, Held, lists) /\ page \in [Page -> SlobPageType] /\ HeapPages \in SUBSET Page
  BY HeapPageFacts, Zenon DEF IInv, Heap, Types
<1> DEFINE Bs == BlocksOf(Held, p)
           q == Rewords(page[p], v)
<1>3. b \in Bs /\ SoundPage(page[p], Bs)
  BY <1>1, <1>2, Zenon DEF BlocksOf, HeapOK
<1> HIDE DEF Bs
<1> USE <1>3
<1>4. \A d \in Bs : Words(d) \subseteq Word \ FreeWords(page[p]) /\ (d # b => Words(d) \cap Words(b) = {})
  BY DEF SoundPage
<1>5. FreeWords(page[p]) \subseteq Word
  BY DEF SoundPage, FreeIs
<1>6. \A i \in FreeWords(page[p]) : v[i] = page[p].words[i]
  BY <1>4, <1>5
<1>7. /\ q \in SlobPageType /\ SoundPage(q, Bs)
      /\ q.slab = page[p].slab /\ q.free = page[p].free
  <2>1. PICK g : g = page[p]
    OBVIOUS
  <2>2. SoundPage(g, Bs) /\ (\A i \in FreeWords(g) : v[i] = g.words[i]) /\ q = [g EXCEPT !.words = v]
    BY <2>1, <1>6 DEF Rewords
  <2> HIDE DEF q
  <2>3. q \in SlobPageType /\ SoundPage(q, Bs) /\ q.slab = g.slab /\ q.free = g.free
    BY ONLY <2>2, v \in [Word -> Int], WriteSound
  <2> QED BY <2>1, <2>3
<1>8. q.words = v
  BY <1>1, <1>2 DEF SlobPageType, Rewords
<1>9. pg2 = Swap(page, p, q)
  OBVIOUS
<1> HIDE DEF q
<1>10. HeapOK(pg2, HeapPages, Held, lists)
  BY ONLY <1>1, <1>2, <1>7, <1>9, HeapSwap DEF Bs
<1>11. pg2 \in [Page -> SlobPageType] /\ pg2[p] = q /\ \A s \in Page \ {p} : pg2[s] = page[s]
  BY ONLY <1>1, <1>2, <1>7, <1>9 DEF Swap
<1> USE <1>11
<1>12. \A s \in Page : pg2[s].slab = page[s].slab
  BY <1>7
<1>13. SameIn(Held \ {b}, page, pg2)
  <2> SUFFICES ASSUME NEW d \in Held \ {b}, NEW i \in Words(d)
               PROVE  pg2[d.page].words[i] = page[d.page].words[i]
    BY DEF SameIn
  <2>1. CASE d.page = p
    <3>1. d \in Bs
      BY <2>1 DEF Bs, BlocksOf
    <3>2. i \in Word \ Words(b)
      BY <3>1, <1>4
    <3> QED BY <3>2, <2>1, <1>8
  <2>2. CASE d.page # p
    BY <2>2, CallersHold
  <2> QED BY <2>1, <2>2
<1> QED BY <1>8, <1>10, <1>12, <1>13 DEF Written

\* slob_alloc and its caller return a block.
LEMMA AllocReturnStep ==
  ASSUME IInv, NEW t \in Thread, AllocReturn(t) PROVE IInv'
<1>1. PICK b, p : b = blk[t] /\ p = b.page
  OBVIOUS
<1> USE <1>1
<1>2. /\ pc[t] = "return" /\ pc' = [pc EXCEPT ![t] = "idle"] /\ blk' = [blk EXCEPT ![t] = NULL]
      /\ page' = [page EXCEPT ![p].words = Fill(@, b)] /\ live' = live \cup {b}
      /\ UNCHANGED <<taken, lists, rcu, stat, todo, tmp>>
  BY DEF AllocReturn, At, Goto
<1> USE <1>2
<1>3. Holding(t) /\ ~Keeping(t) /\ Asking(t)
  BY DEF Holding, Keeping, Asking
<1> USE <1>3
<1>4. b \in Held /\ ~b.large
  BY HeldBy DEF IInv, Owners, Askers
<1>5. b \in Block /\ p \in Page /\ p \in taken
  BY <1>4, CallersHold
<1>6. b \notin live \cup rcu /\ \A u \in Thread : Holding(u) /\ blk[u] = b => u = t
  BY DEF IInv, Owners, Holders
<1> USE <1>5
<1>7. PICK v \in [Word -> Int] : v = Fill(page[p].words, b)
  <2>1. page[p].words \in [Word -> Int]
    BY DEF IInv, Types, SlobPageType
  <2> QED BY <2>1, FillType
<1>8. /\ \A i \in Word \ Words(b) : v[i] = page[p].words[i]
      /\ \A i \in Word : i \in Words(b) => v[i] = Content(b, i)
  BY <1>7, FillContent, SMTT(20)
<1>9. page' = Swap(page, p, Rewords(page[p], v))
  BY <1>7 DEF Swap, Rewords
<1>10. /\ HeapOK(page', HeapPages, Held, lists)
       /\ page' \in [Page -> SlobPageType]
       /\ \A q \in Page : page'[q].slab = page[q].slab
       /\ \A q \in Page \ {p} : page'[q] = page[q]
       /\ SameIn(Held \ {b}, page, page')
       /\ page'[p].words = v
  <2>1. Written(page', p, b, v)
    BY ONLY IInv, <1>1, <1>4, <1>8, <1>9, v \in [Word -> Int], OwnerWrites
  <2> QED BY ONLY <2>1 DEF Written
<1>11. /\ pc'[t] = "idle" /\ blk'[t] = NULL
       /\ \A u \in Thread \ {t} : /\ pc'[u] = pc[u] /\ blk'[u] = blk[u]
                                  /\ Holding(u)' <=> Holding(u)
                                  /\ Keeping(u)' <=> Keeping(u)
                                  /\ Asking(u)' <=> Asking(u)
  BY OneMoves, Zenon DEF IInv
<1> USE <1>11
<1>12. ~Holding(t)' /\ ~Keeping(t)' /\ ~Asking(t)'
  BY DEF Holding, Keeping, Asking
<1> USE <1>10
<1>13. Types'
  <2>1. /\ taken' \in SUBSET Page /\ ListsType(lists)' /\ "idle" \in PC
        /\ live' \in SUBSET Block /\ rcu' \in SUBSET Block
        /\ <<>> \in Seq([stat : Stat, add : Int])
    BY SMTT(20) DEF IInv, Types, ListsType, PC
  <2> QED BY <2>1, MoveTypes, Zenon DEF IInv
<1> USE <1>12
<1>14. Held' = Held
  <2>1. ASSUME NEW d PROVE d \in Held' <=> d \in Held
    <3>1. d \in Held' <=> d \in live' \/ d \in rcu' \/ \E u \in Thread : Holding(u)' /\ d = blk'[u]
      BY SMTT(20) DEF Held, Holding
    <3> QED BY <3>1, HeldBy, SMTT(20)
  <2> QED BY <2>1
<1> USE <1>6
<1>15. Data'
  <2>1. live \subseteq Held \ {b} /\ rcu \subseteq Held \ {b}
    BY CallersHold
  <2>2. SameIn(live \cup rcu, page, page')
    BY <2>1 DEF SameIn
  <2>3. DataOK(page', live, rcu)
    BY <2>2, DataKept, CallersHold DEF IInv, Data
  <2>4. Words(b) \subseteq Word
    BY <1>4, HeldWords
  <2>5. DataOK(page', live \cup {b}, rcu)
    <3>1. ASSUME NEW i \in Words(b) PROVE page'[b.page].words[i] = Content(b, i)
      BY <2>4, <1>8
    <3> QED BY ONLY <2>3, <3>1, Zenon DEF DataOK
  <2> QED BY <2>5 DEF Data
<1>16. Callers' /\ Askers'
  BY SMTT(20) DEF IInv, Owners, Callers, Askers
<1>17. Holders'
  BY SMTT(20) DEF IInv, Owners, Holders
<1>18. \A u \in Thread : (Keeping(u)' <=> Keeping(u)) /\ (Keeping(u) => blk'[u] = blk[u])
  OBVIOUS
<1>19. \A q \in Page \ taken : page'[q] = page[q]
  OBVIOUS
<1> QED BY <1>13, <1>14, <1>15, <1>16, <1>17, <1>18, <1>19, HandsChange

\* call_rcu for a block: the size is written in its footer.
LEMMA RcuQueueStep ==
  ASSUME IInv, NEW b \in live, b.kind = "rcu", live' = live \ {b}, rcu' = rcu \cup {b},
         page' = IF b.large THEN page ELSE [page EXCEPT ![b.page].words[Footer(b)] = b.size],
         UNCHANGED <<taken, lists, stat, pc, blk, todo, tmp>>
  PROVE  IInv'
<1>1. b \in Held /\ Proper(b) /\ b \in Block /\ b \notin rcu /\ b.page \in Page /\ b.page \in taken
  BY CallersHold DEF IInv, Owners, Callers
<1>2. \A u \in Thread : /\ Holding(u)' <=> Holding(u)
                        /\ Keeping(u)' <=> Keeping(u)
                        /\ Asking(u)' <=> Asking(u)
  BY DEF Holding, Keeping, Asking
<1> USE <1>2
<1>3. Held' = Held
  <2>1. ASSUME NEW d PROVE d \in Held' <=> d \in Held
    <3>1. d \in Held' <=> d \in live' \/ d \in rcu' \/ \E u \in Thread : Holding(u)' /\ d = blk'[u]
      BY DEF Held, Holding
    <3> QED BY <3>1, HeldBy
  <2> QED BY <2>1, Zenon
<1> USE <1>1
<1>4. /\ HeapOK(page', HeapPages, Held, lists)
      /\ page' \in [Page -> SlobPageType]
      /\ \A q \in Page : page'[q].slab = page[q].slab
      /\ \A q \in Page \ {b.page} : page'[q] = page[q]
      /\ \A q \in Page \ taken : page'[q] = page[q]
      /\ SameIn(Held \ {b}, page, page')
      /\ ~b.large => page'[b.page].words[Footer(b)] = b.size
  <2>1. CASE b.large
    BY <2>1 DEF IInv, Types, Heap, SameIn
  <2>2. CASE ~b.large
    <3>1. PICK p, s : p = b.page /\ s = b.size /\ s \in Int
      BY SMTT(20) DEF Block
    <3>2. Footer(b) \in Words(b) /\ Words(b) \subseteq Word
      BY <2>2, FooterWithin, HeldWords
    <3> USE <3>1
    <3>3. page[p].words \in [Word -> Int]
      BY DEF IInv, Types, SlobPageType
    <3> USE <3>3
    <3>4. PICK v \in [Word -> Int] : v = [page[p].words EXCEPT ![Footer(b)] = s]
      BY Zenon
    <3> USE <3>4
    <3>5. \A i \in Word \ Words(b) : v[i] = page[p].words[i]
      BY <3>2
    <3>8. v[Footer(b)] = s
      BY <3>2
    <3>9. b \in Held /\ p = b.page
      OBVIOUS
    <3>6. page' = Swap(page, p, Rewords(page[p], v))
      BY <2>2 DEF Swap, Rewords
    <3>7. /\ HeapOK(page', HeapPages, Held, lists)
          /\ page' \in [Page -> SlobPageType]
          /\ \A q \in Page : page'[q].slab = page[q].slab
          /\ \A q \in Page \ {p} : page'[q] = page[q]
          /\ SameIn(Held \ {b}, page, page')
          /\ page'[p].words = v
      <4>1. Written(page', p, b, v)
        BY ONLY IInv, <3>9, <2>2, <3>5, <3>6, v \in [Word -> Int], OwnerWrites
      <4> QED BY ONLY <4>1 DEF Written
    <3> QED BY <3>7, <3>8, Zenon
  <2> QED BY <2>1, <2>2, Zenon
<1> USE <1>4
<1>5. Types'
  BY Zenon DEF IInv, Types, ListsType
<1>6. Callers' /\ Askers'
  BY DEF IInv, Owners, Callers, Askers
<1>7. Holders'
  BY DEF IInv, Owners, Holders
<1>8. Data'
  <2>1. live' \subseteq Held \ {b} /\ rcu \subseteq Held \ {b} /\ live' \subseteq live
    BY CallersHold
  <2>2. SameIn(live' \cup rcu, page, page')
    BY <2>1 DEF SameIn
  <2>3. DataOK(page', live', rcu)
    BY <2>1, <2>2, DataKept, CallersHold, SMTT(20) DEF IInv, Data
  <2>4. DataOK(page', live', rcu \cup {b})
    BY <2>3, Zenon DEF DataOK
  <2> QED BY <2>4 DEF Data
<1> QED BY <1>3, <1>5, <1>6, <1>7, <1>8, HandsChange

-----------------------------------------------------------------------------
(* The steps under slob_lock. *)

\* slob_page_alloc returns a place in the page.
LEMMA TakenPlace ==
  ASSUME NEW pg, NEW Bs, SoundPage(pg, Bs), pg.units > 0,
         NEW size \in Nat \ {0}, NEW align \in Nat,
         NEW r, r = slob_page_alloc(pg, size, align), r.block # NoBlock
  PROVE  r.block \in Word
<1>1. FreeIs(pg, FreeWords(pg)) /\ FreeWords(pg) # {}
  <2>1. FreeIs(pg, FreeWords(pg))
    BY DEF SoundPage
  <2> QED BY <2>1, FreeIsFreeWords
<1> QED BY <1>1, AllocFromPage, Zenon

\* The two places where slob_alloc takes a block from page p, of the pages pg0 and
\* the lists ls0: a page of the heap, or the one it has just set up and added.
LEMMA TakeStep ==
  ASSUME IInv, NEW t \in Thread, pc[t] \in {"search", "insert"},
         NEW p \in Page, NEW pg0 \in [Page -> SlobPageType], NEW ls0, ListsType(ls0),
         NEW HP, HP = HeapPages \cup {p}, HeapOK(pg0, HP, Held, ls0),
         pg0[p].units > 0,
         \A q \in Page \ {p} : pg0[q] = page[q], pg0[p].slab = page[p].slab,
         SameIn(Held, page, pg0), p \in taken, page[p].slab,
         \A u \in Thread \ {t} : Keeping(u) => blk[u].page # p,
         pc[t] = "insert" => blk[t].page = p,
         NEW more \in Seq([stat : Stat, add : Int]), TakeFrom(t, p, pg0[p], ls0, more),
         UNCHANGED <<taken, live, rcu, stat, tmp>>
  PROVE  IInv'
<1>1. PICK a : a = blk[t]
  OBVIOUS
<1>2. Asking(t) /\ ~Holding(t)
  BY DEF Asking, Holding
<1>3. Proper(a) /\ ~a.large /\ a \in Block /\ a.size \in Nat \ {0} /\ a.align \in Nat
  BY <1>1, <1>2, SMTT(20) DEF IInv, Owners, Askers, Proper, Block
<1>4. PICK r : r = slob_page_alloc(pg0[p], a.size, a.align)
  OBVIOUS
<1> DEFINE b == [a EXCEPT !.page = p, !.off = r.block]
<1>5. /\ r.block # NoBlock
      /\ page' = [page EXCEPT ![p] = AfterAlloc(r)]
      /\ lists' = IF r.page.units = 0 THEN Unlist(ls0, p) ELSE ls0
      /\ blk' = [blk EXCEPT ![t].page = p, ![t].off = r.block]
      /\ todo' = [todo EXCEPT ![t] = more \o <<Add("used_m", a.size)>>]
      /\ pc' = [pc EXCEPT ![t] = "return"]
  BY <1>1, <1>4 DEF TakeFrom, Goto, AfterAlloc
<1>6. blk' = [blk EXCEPT ![t] = b]
  BY <1>1, <1>5, Zenon DEF IInv, Types
<1>7. HP \in SUBSET Page /\ p \in HP /\ SoundPage(pg0[p], BlocksOf(Held, p))
  BY HeapPageFacts DEF HeapOK
<1>8. r.block \in Word /\ r.block \in Int
  <2>1. PICK g, Bs : g = pg0[p] /\ Bs = BlocksOf(Held, p)
    OBVIOUS
  <2>2. PICK sz, al : sz = a.size /\ al = a.align /\ sz \in Nat \ {0} /\ al \in Nat
    BY <1>3
  <2>3. SoundPage(g, Bs) /\ g.units > 0 /\ r = slob_page_alloc(g, sz, al) /\ r.block # NoBlock
    BY <2>1, <2>2, <1>4, <1>5, <1>7
  <2>4. r.block \in Word
    BY ONLY <2>2, <2>3, TakenPlace
  <2> QED BY <2>4, SMTT(20) DEF Word
<1>9. /\ b \in Block /\ Proper(b) /\ ~b.large /\ b.page = p /\ b.size > 0
      /\ b.size = a.size /\ b.align = a.align /\ b.off = r.block
  BY <1>3, <1>8, Zenon DEF Proper, Block
<1> HIDE DEF b
<1>10. PICK q : q = AfterAlloc(r)
  OBVIOUS
<1>11. page' = Swap(pg0, p, q)
  <2>1. page' = [page EXCEPT ![p] = q] /\ page \in [Page -> SlobPageType]
    BY <1>5, <1>10 DEF IInv, Types
  <2> QED BY <2>1, Zenon DEF Swap
<1>12. /\ HeapOK(page', HP, Held \cup {b}, lists')
       /\ page' \in [Page -> SlobPageType] /\ ListsType(lists')
       /\ b \notin Held /\ \A d \in Held : d.page = p => Words(b) \cap Words(d) = {}
       /\ Keeps(BlocksOf(Held, p), pg0[p], q)
       /\ AlignedTo(b.off, b.align)
  <2>1. r = slob_page_alloc(pg0[p], b.size, b.align)
    BY <1>1, <1>4, <1>9
  <2>2. Takes(pg0, HP, Held, ls0, p, b, r) /\ lists' = ListsAfter(ls0, p, r)
    BY <2>1, <1>5, <1>7, <1>9 DEF Takes, ListsAfter
  <2>3. TakesWell(pg0, HP, Held, ls0, p, b, r)
    BY <2>2, HeapTake
  <2> QED BY <2>2, <2>3, <1>10, <1>11 DEF TakesWell
<1>13. /\ pc'[t] = "return" /\ blk'[t] = b
       /\ \A u \in Thread \ {t} : /\ pc'[u] = pc[u] /\ blk'[u] = blk[u]
                                  /\ Holding(u)' <=> Holding(u)
                                  /\ Keeping(u)' <=> Keeping(u)
                                  /\ Asking(u)' <=> Asking(u)
  BY <1>5, <1>6, OneMoves, Zenon DEF IInv
<1>14. Holding(t)' /\ Asking(t)' /\ ~Keeping(t)'
  BY <1>13 DEF Holding, Asking, Keeping
<1>15. Types'
  <2>1. more \o <<Add("used_m", a.size)>> \in Seq([stat : Stat, add : Int])
    <3>1. PICK n \in Int : n = a.size
      BY <1>3, SMTT(20)
    <3>2. PICK U : U = [stat : Stat, add : Int]
      BY Zenon
    <3>3. [stat |-> "used_m", add |-> n] \in [stat : Stat, add : Int]
      BY DEF Stat
    <3>4. Add("used_m", a.size) \in U /\ more \in Seq(U)
      BY <3>1, <3>2, <3>3 DEF Add
    <3>5. more \o <<Add("used_m", a.size)>> \in Seq(U)
      BY ONLY <3>4
    <3> QED BY <3>2, <3>5
  <2>2. /\ taken' \in SUBSET Page /\ ListsType(lists)' /\ "return" \in PC
        /\ live' \in SUBSET Block /\ rcu' \in SUBSET Block
    BY <1>12 DEF IInv, Types, ListsType, PC
  <2> QED BY <2>1, <2>2, <1>5, <1>6, <1>9, <1>12, MoveTypes, Zenon DEF IInv
<1>16. Held' = Held \cup {b}
  <2>1. ASSUME NEW d PROVE d \in Held' <=> d \in Held \/ d = b
    <3>1. d \in Held' <=> d \in live' \/ d \in rcu' \/ \E u \in Thread : Holding(u)' /\ d = blk'[u]
      BY DEF Held, Holding
    <3> QED BY <3>1, <1>2, <1>13, <1>14, HeldBy, SMTT(20)
  <2> QED BY <2>1
<1>17. /\ page'[p] = q /\ q.slab /\ \A s \in Page \ {p} : page'[s] = page[s]
       /\ \A s \in Page : page'[s].slab = page[s].slab
  <2>1. page'[p] = q /\ \A s \in Page \ {p} : page'[s] = page[s]
    BY <1>11 DEF Swap
  <2>2. q.slab
    BY <1>12 DEF Keeps
  <2> QED BY <2>1, <2>2, Zenon
<1>18. HeapPages' = HP
  <2>1. ASSUME NEW s PROVE s \in HeapPages' <=> s \in HP
    <3>1. s \in HeapPages' <=> /\ s \in Page /\ page'[s].slab
                               /\ \A u \in Thread : Keeping(u)' => blk'[u].page # s
      BY DEF HeapPages, Keeping
    <3>2. CASE s = p
      BY <3>1, <3>2, <1>13, <1>14, <1>17
    <3>3. CASE s # p
      <4>1. Keeping(t) => blk[t].page # s
        BY <3>3 DEF Keeping
      <4>2. (\A u \in Thread : Keeping(u)' => blk'[u].page # s)
              <=> (\A u \in Thread : Keeping(u) => blk[u].page # s)
        BY <4>1, <1>13, <1>14
      <4>3. s \in HP <=> /\ s \in Page /\ page[s].slab
                        /\ \A u \in Thread : Keeping(u) => blk[u].page # s
        BY <3>3, HeapPageFacts
      <4> QED BY ONLY <3>1, <4>2, <4>3, <1>17
    <3> QED BY <3>2, <3>3
  <2> QED BY <2>1
<1>19. Heap'
  BY <1>12, <1>16, <1>18 DEF Heap
<1>20. \A d \in Held' : Owned(d)'
  <2>1. Owned(b)'
    BY <1>9, <1>12, <1>17, <1>18 DEF Owned
  <2>2. ASSUME NEW d \in Held PROVE Owned(d)'
    <3>1. Owned(d) /\ d.page \in taken' /\ page'[d.page].slab = page[d.page].slab
      BY <1>17, CallersHold
    <3>2. \A e \in Held' : e.page = d.page => e \in Held \/ ~d.large
      BY <3>1, <1>9, <1>16 DEF Owned
    <3>3. d.page \in HeapPages => d.page \in HeapPages'
      BY <1>18
    <3> QED BY <3>1, <3>2, <3>3, OwnedStill
  <2> QED BY <2>1, <2>2, <1>16
<1>21. Data'
  <2>1. SameIn(live \cup rcu, page, page')
    <3> SUFFICES ASSUME NEW d \in Held, NEW i \in Words(d)
                 PROVE  page'[d.page].words[i] = page[d.page].words[i]
      BY CallersHold DEF SameIn
    <3>1. CASE d.page = p
      <4>1. d \in BlocksOf(Held, p)
        BY <3>1 DEF BlocksOf
      <4>2. q.words[i] = pg0[p].words[i]
        BY <4>1, <1>12 DEF Keeps
      <4>3. pg0[p].words[i] = page[p].words[i]
        BY <3>1 DEF SameIn
      <4> QED BY <3>1, <4>2, <4>3, <1>17
    <3>2. CASE d.page # p
      BY <3>2, <1>17, CallersHold
    <3> QED BY <3>1, <3>2
  <2>2. DataOK(page', live, rcu)
    BY <2>1, DataKept, CallersHold DEF IInv, Data
  <2> QED BY <2>2 DEF Data
<1>22. Askers' /\ Callers'
  BY <1>9, <1>13 DEF IInv, Owners, Askers, Callers
<1>23. Holders'
  <2>1. b \notin live \cup rcu /\ \A u \in Thread : Holding(u) => blk[u] # b
    BY <1>12, HeldBy
  <2>2. Holders /\ live' = live /\ rcu' = rcu
    BY DEF IInv, Owners
  <2>3. ASSUME NEW u \in Thread, Holding(u)'
        PROVE  /\ blk'[u] \notin live' \cup rcu'
               /\ \A v \in Thread : Holding(v)' /\ blk'[v] = blk'[u] => v = u
    <3>1. CASE u = t
      BY ONLY <2>1, <2>2, <3>1, <1>13, Zenon
    <3>2. CASE u # t
      <4>1. Holding(u) /\ blk'[u] = blk[u]
        BY <2>3, <3>2, <1>13
      <4>2. /\ blk[u] \notin live \cup rcu
            /\ \A v \in Thread : Holding(v) /\ blk[v] = blk[u] => v = u
        BY ONLY <2>2, <4>1, u \in Thread, Zenon DEF Holders
      <4> QED BY ONLY <2>1, <2>2, <4>1, <4>2, <1>13, Zenon
    <3> QED BY <3>1, <3>2
  <2> QED BY ONLY <2>3, Zenon DEF Holders
<1>24. Keepers'
  BY <1>13, <1>14, <1>17, KeepersStay
<1>25. Unused'
  BY <1>17 DEF IInv, Owners, Unused
<1> QED BY <1>15, <1>19, <1>20, <1>21, <1>22, <1>23, <1>24, <1>25 DEF IInv, Owners

\* The page that the search of slob_alloc ends with, whatever page sp_alt was left
\* with, is one of the heap and has free words.
LEMMA FoundPage ==
  ASSUME IInv, NEW t \in Thread, pc[t] = "search", NEW alt \in Leftover,
         NEW sp, sp = BestPage(lists[ClassOf(blk[t].size)], SLOB_UNITS(blk[t].size), alt),
         sp # NULL
  PROVE  sp \in Page /\ sp \in HeapPages /\ page[sp].units > 0
<1>1. PICK s, c : s = blk[t].size /\ c = ClassOf(s) /\ s \in Nat /\ s > 0 /\ c \in Class
  <2>1. Proper(blk[t])
    BY DEF IInv, Owners, Askers, Asking
  <2> QED BY <2>1, ClassOfType DEF Proper, Block
<1> USE <1>1
<1>2. SLOB_UNITS(s) \in Nat
  BY UnitsOfBytes
<1>3. lists[c] \in Seq(Page) /\ page \in [Page -> SlobPageType] /\ ListsType(lists)
  BY DEF IInv, Types, ListsType
<1>4. sp \in Page /\ \E d \in Class : InClass(lists, sp, d)
  <2>1. CASE sp = alt
    BY <2>1, SpAltAssumption DEF Leftover, Occurs, InClass
  <2>2. CASE sp # alt
    <3>1. BestPage(lists[c], SLOB_UNITS(s), alt) # alt /\ sp = BestPage(lists[c], SLOB_UNITS(s), alt)
      BY <2>2
    <3>2. PICK i \in DOMAIN lists[c] : sp = lists[c][i]
      BY ONLY <3>1, <1>2, <1>3, BestPageIsListed
    <3> QED BY <3>2, <1>3, SMTT(20) DEF InClass
  <2> QED BY <2>1, <2>2
<1> USE <1>4
<1>5. sp \in HeapPages /\ page[sp].free
  <2>1. ~Unlisted(lists, sp)
    BY DEF Unlisted
  <2> QED BY <2>1 DEF IInv, Heap, HeapOK
<1>6. page[sp].units > 0
  BY <1>5 DEF IInv, Heap, HeapOK, SoundPage
<1> QED BY <1>5, <1>6

\* slob_alloc takes the block from it.
LEMMA SearchTakes ==
  ASSUME IInv, NEW t \in Thread, At(t, "search"), NEW alt \in Leftover,
         NEW sp, sp = BestPage(lists[ClassOf(blk[t].size)], SLOB_UNITS(blk[t].size), alt),
         sp # NULL, TakeFrom(t, sp, page[sp], lists, <<>>),
         UNCHANGED <<taken, live, rcu, stat, tmp>>
  PROVE  IInv'
<1>1. pc[t] = "search" /\ page \in [Page -> SlobPageType] /\ ListsType(lists)
  BY DEF At, IInv, Types
<1>2. sp \in Page /\ sp \in HeapPages /\ page[sp].units > 0
  BY <1>1, FoundPage
<1> USE <1>2
<1>3. sp \in taken /\ page[sp].slab /\ \A u \in Thread \ {t} : Keeping(u) => blk[u].page # sp
  BY HeapPageFacts
<1>4. HeapPages = HeapPages \cup {sp} /\ HeapOK(page, HeapPages, Held, lists)
  BY DEF IInv, Heap
<1>5. SameIn(Held, page, page) /\ <<>> \in Seq([stat : Stat, add : Int])
  BY SMTT(20) DEF SameIn
<1> QED BY <1>1, <1>3, <1>4, <1>5, TakeStep, Zenon

\* Search, whatever page sp_alt was left with.
LEMMA SearchStep ==
  ASSUME IInv, NEW t \in Thread, Search(t) PROVE IInv'
<1>1. At(t, "search")
  BY DEF Search
<1>2. PICK alt \in Leftover :
        LET sp == BestPage(lists[ClassOf(blk[t].size)], SLOB_UNITS(blk[t].size), alt)
        IN  \/ /\ sp # NULL
               /\ TakeFrom(t, sp, page[sp], lists, <<>>)
               /\ UNCHANGED <<taken, live, rcu, stat, tmp>>
            \/ /\ Goto(t, "newpage")
               /\ UNCHANGED <<page, taken, lists, live, rcu, stat, blk, todo, tmp>>
  BY DEF Search
<1> DEFINE sp == BestPage(lists[ClassOf(blk[t].size)], SLOB_UNITS(blk[t].size), alt)
<1>3. \/ /\ sp # NULL
         /\ TakeFrom(t, sp, page[sp], lists, <<>>)
         /\ UNCHANGED <<taken, live, rcu, stat, tmp>>
      \/ /\ Goto(t, "newpage")
         /\ UNCHANGED <<page, taken, lists, live, rcu, stat, blk, todo, tmp>>
  BY <1>2
<1> HIDE DEF sp
<1> QED BY <1>1, <1>3, SearchTakes, SearchFails DEF sp

\* A frame that a thread keeps has no blocks.
LEMMA KeptIsEmpty ==
  ASSUME IInv, NEW t \in Thread, Keeping(t), NEW p, p = blk[t].page
  PROVE  /\ p \in Page /\ p \in taken /\ p \notin HeapPages /\ page[p].slab
         /\ \A d \in Held : d.page # p
         /\ \A u \in Thread \ {t} : Keeping(u) => blk[u].page # p
<1>1. p \in taken /\ page[p].slab /\ \A u \in Thread : Keeping(u) /\ blk[u].page = p => u = t
  BY DEF IInv, Owners, Keepers
<1> USE <1>1
<1>2. p \notin HeapPages /\ p \in Page
  BY HeapPageFacts, Zenon DEF IInv, Types
<1>3. \A d \in Held : d.page # p
  BY <1>2, CallersHold DEF Owned
<1> QED BY <1>2, <1>3

\* slob_alloc sets up a page and takes the block from it.
LEMMA InsertStep ==
  ASSUME IInv, NEW t \in Thread, Insert(t) PROVE IInv'
<1>1. PICK p, c : p = blk[t].page /\ c = ClassOf(blk[t].size)
  OBVIOUS
<1> DEFINE more == <<Add("pcount", 1), Add("claimed_m", PAGE_SIZE)>>
<1> USE <1>1
<1>2. /\ pc[t] = "insert" /\ UNCHANGED <<taken, live, rcu, stat, tmp>>
      /\ TakeFrom(t, p, FreshPage(page[p]), Enlist(lists, p, c), more)
  BY DEF Insert, At
<1>3. more \in Seq([stat : Stat, add : Int])
  <2>1. PICK n \in Int : n = PAGE_SIZE
    BY PageUnitsAssumption, SMTT(20) DEF PAGE_SIZE, SLOB_UNIT
  <2>2. <<[stat |-> "pcount", add |-> 1], [stat |-> "claimed_m", add |-> n]>> \in Seq([stat : Stat, add : Int])
    BY SMTT(20) DEF Stat
  <2> QED BY <2>1, <2>2 DEF Add
<1> HIDE DEF more
<1> USE <1>2
<1>4. Keeping(t)
  BY DEF Keeping
<1>5. /\ p \in Page /\ p \in taken /\ p \notin HeapPages /\ page[p].slab
      /\ \A d \in Held : d.page # p
      /\ \A u \in Thread \ {t} : Keeping(u) => blk[u].page # p
  BY <1>4, KeptIsEmpty
<1>6. PICK pg0, ls0, HP : /\ pg0 = Swap(page, p, FreshPage(page[p])) /\ ls0 = Enlist(lists, p, c)
                          /\ HP = HeapPages \cup {p}
  BY Zenon
<1>7. page \in [Page -> SlobPageType] /\ HeapPages \in SUBSET Page /\ ListsType(lists)
  BY HeapPageFacts, Zenon DEF IInv, Types
<1> USE <1>5, <1>6
<1>8. HeapOK(pg0, HP, Held, ls0) /\ pg0 \in [Page -> SlobPageType] /\ ListsType(ls0)
  <2>1. HeapOK(page, HeapPages, Held, lists) /\ p \in Page \ HeapPages /\ BlocksOf(Held, p) = {} /\ c \in Class
    BY ClassOfType DEF IInv, Heap, BlocksOf
  <2>2. FreshWell(page, HeapPages, Held, lists, p, c)
    BY ONLY <2>1, <1>7, HeapFresh
  <2> QED BY <2>2 DEF FreshWell
<1>9. pg0[p] = FreshPage(page[p]) /\ \A q \in Page \ {p} : pg0[q] = page[q]
  BY <1>7 DEF Swap
<1> USE <1>9
<1>10. pg0[p].units > 0 /\ pg0[p].slab = page[p].slab
  <2>1. page[p] \in SlobPageType
    BY <1>7
  <2>2. FreshPage(page[p]).units > 0 /\ FreshPage(page[p]).slab = page[p].slab
    BY <2>1, FreshSound
  <2> QED BY <2>2
<1>11. SameIn(Held, page, pg0)
  BY CallersHold DEF SameIn
<1>12. TakeFrom(t, p, pg0[p], ls0, more)
  OBVIOUS
<1> QED BY <1>3, <1>8, <1>10, <1>11, <1>12, TakeStep, Zenon

\* slob_free, under the lock, of the last block of a page.
LEMMA FreeLast ==
  ASSUME IInv, NEW t \in Thread, pc[t] = "free", NEW b, b = blk[t], NEW p, p = b.page,
         page[p].units + SLOB_UNITS(b.size) = PageUnits,
         page' = [page EXCEPT ![p].free = FALSE], lists' = Unlist(lists, p),
         pc' = [pc EXCEPT ![t] = "release"],
         UNCHANGED <<blk, taken, live, rcu, stat, todo, tmp>>
  PROVE  IInv'
<1>1. Holding(t) /\ Asking(t) /\ ~Keeping(t)
  BY DEF Holding, Asking, Keeping
<1>2. b \in Held /\ ~b.large
  BY <1>1, HeldBy DEF IInv, Owners, Askers
<1>3. b \in Block /\ p \in HeapPages /\ p \in Page /\ p \in taken
  BY <1>2, CallersHold DEF Owned
<1>4. b \notin live \cup rcu /\ \A u \in Thread : Holding(u) /\ blk[u] = b => u = t
  BY <1>1 DEF IInv, Owners, Holders
<1>5. /\ page \in [Page -> SlobPageType] /\ HeapPages \in SUBSET Page /\ ListsType(lists)
      /\ HeapOK(page, HeapPages, Held, lists)
  BY HeapPageFacts, Zenon DEF IInv, Types, Heap
<1> USE <1>3, <1>5
<1>6. /\ page' \in [Page -> SlobPageType] /\ page'[p].slab = page[p].slab
      /\ \A q \in Page \ {p} : page'[q] = page[q]
  <2>1. PICK g \in SlobPageType : g = page[p]
    OBVIOUS
  <2>2. PICK q : q = [g EXCEPT !.free = FALSE]
    BY Zenon
  <2>4. q \in SlobPageType /\ q.slab = g.slab
    BY ONLY <2>2, g \in SlobPageType, Zenon DEF SlobPageType
  <2>3. page' = [page EXCEPT ![p] = q]
    BY <2>1, <2>2
  <2> QED BY <2>3, <2>4, SMTT(20)
<1>7. \A d \in BlocksOf(Held, p) : d \in Block /\ ~d.large /\ d.size > 0
  <2>1. page[p].slab
    BY HeapPageFacts
  <2> QED BY <2>1, CallersHold DEF BlocksOf, Owned, Proper
<1>8. /\ BlocksOf(Held, p) = {b} /\ ListsType(lists')
      /\ HeapOK(page', HeapPages \ {p}, Held \ {b}, lists')
  <2>1. PICK pg2, ls2, H, HP : pg2 = page' /\ ls2 = lists' /\ H = Held /\ HP = HeapPages
    OBVIOUS
  <2>2. /\ page \in [Page -> SlobPageType] /\ HP \in SUBSET Page /\ ListsType(lists)
        /\ HeapOK(page, HP, H, lists) /\ p \in HP /\ b \in H /\ p = b.page
        /\ \A d \in BlocksOf(H, p) : d \in Block /\ ~d.large /\ d.size > 0
        /\ page[p].units + SLOB_UNITS(b.size) = PageUnits
        /\ \A s \in Page \ {p} : pg2[s] = page[s]
        /\ ls2 = Unlist(lists, p)
    BY <2>1, <1>2, <1>7
  <2>3. BlocksOf(H, p) = {b} /\ ListsType(ls2) /\ HeapOK(pg2, HP \ {p}, H \ {b}, ls2)
    BY ONLY <2>2, HeapDrop
  <2> QED BY <2>1, <2>3
<1>9. /\ pc'[t] = "release"
      /\ \A u \in Thread \ {t} : /\ Holding(u)' <=> Holding(u)
                                 /\ Keeping(u)' <=> Keeping(u)
                                 /\ Asking(u)' <=> Asking(u)
  BY DEF IInv, Types, Holding, Keeping, Asking
<1> USE <1>9
<1>10. ~Holding(t)' /\ ~Asking(t)' /\ Keeping(t)'
  BY DEF Holding, Asking, Keeping
<1> USE <1>8
<1>11. Types'
  <2>1. pc' \in [Thread -> PC]
    BY DEF IInv, Types, PC
  <2> QED BY <2>1, <1>6, Zenon DEF IInv, Types, ListsType
<1> USE <1>10
<1>12. Held' = Held \ {b}
  <2>1. ASSUME NEW d PROVE d \in Held' <=> d \in Held /\ d # b
    <3>1. d \in Held' <=> d \in live' \/ d \in rcu' \/ \E u \in Thread : Holding(u)' /\ d = blk'[u]
      BY DEF Held, Holding
    <3> QED BY <3>1, <1>4, HeldBy
  <2> QED BY <2>1
<1>13. \A q \in Page : page'[q].slab = page[q].slab
  BY SMTT(20)
<1>14. HeapPages' = HeapPages \ {p}
  <2>1. ASSUME NEW q PROVE q \in HeapPages' <=> q \in HeapPages /\ q # p
    <3>1. q \in HeapPages' <=> /\ q \in Page /\ page'[q].slab
                               /\ \A u \in Thread : Keeping(u)' => blk'[u].page # q
      BY DEF HeapPages, Keeping
    <3> QED BY <3>1, HeapPageFacts
  <2> QED BY <2>1
<1> USE <1>12
<1>15. Heap'
  BY <1>14 DEF Heap
<1>16. \A d \in Held \ {b} : d.page # p
  BY DEF BlocksOf
<1>17. \A d \in Held' : Owned(d)'
  <2> TAKE d \in Held'
  <2>1. d \in Held /\ d.page # p
    BY <1>16
  <2>2. Owned(d) /\ d.page \in taken' /\ page'[d.page].slab = page[d.page].slab
    BY <2>1, CallersHold
  <2> QED BY <2>1, <2>2, <1>14, OwnedStill
<1>18. Data'
  <2>2. SameIn(live \cup rcu, page, page')
    BY SMTT(20) DEF SameIn
  <2>3. DataOK(page', live, rcu)
    BY <2>2, DataKept, CallersHold DEF IInv, Data
  <2> QED BY <2>3 DEF Data
<1>19. Askers' /\ Holders' /\ Callers'
  BY DEF IInv, Owners, Askers, Holders, Callers
<1>20. Keepers'
  <2>1. \A u \in Thread : Keeping(u) => blk[u].page \in Page /\ blk[u].page # p
    BY HeapPageFacts, Zenon DEF IInv, Types, Owners, Keepers
  <2>2. page[p].slab
    BY HeapPageFacts
  <2> QED BY <2>1, <2>2, <1>13, Zenon DEF IInv, Owners, Keepers
<1>21. Unused'
  BY DEF IInv, Owners, Unused
<1> QED BY <1>11, <1>15, <1>17, <1>18, <1>19, <1>20, <1>21 DEF IInv, Owners

\* slob_free, under the lock, of a block of a page that stays in the heap.
LEMMA FreeOne ==
  ASSUME IInv, NEW t \in Thread, pc[t] = "free", NEW b, b = blk[t], NEW p, p = b.page,
         page' = Swap(page, p, AfterFree(page[p], b)),
         lists' = IF ~page[p].free THEN Enlist(lists, p, ClassOf(b.size)) ELSE lists,
         pc' = [pc EXCEPT ![t] = "idle"], blk' = [blk EXCEPT ![t] = NULL],
         UNCHANGED <<taken, live, rcu, stat, todo, tmp>>
  PROVE  IInv'
<1>1. Holding(t) /\ Asking(t) /\ ~Keeping(t)
  BY DEF Holding, Asking, Keeping
<1>2. b \in Held /\ ~b.large
  BY <1>1, HeldBy DEF IInv, Owners, Askers
<1>3. b \in Block /\ b.size > 0 /\ p \in HeapPages /\ p \in Page /\ p \in taken
  BY <1>2, CallersHold DEF Owned, Proper
<1>4. b \notin live \cup rcu /\ \A u \in Thread : Holding(u) /\ blk[u] = b => u = t
  BY <1>1 DEF IInv, Owners, Holders
<1>5. /\ page \in [Page -> SlobPageType] /\ HeapPages \in SUBSET Page /\ ListsType(lists)
      /\ HeapOK(page, HeapPages, Held, lists)
  BY HeapPageFacts, Zenon DEF IInv, Types, Heap
<1>6. PICK q : q = AfterFree(page[p], b)
  OBVIOUS
<1>7. /\ HeapOK(page', HeapPages, Held \ {b}, lists')
      /\ page' \in [Page -> SlobPageType] /\ ListsType(lists')
      /\ Keeps(BlocksOf(Held, p) \ {b}, page[p], q)
  <2>1. p = b.page
    OBVIOUS
  <2>2. GivesWell(page, HeapPages, Held, lists, p, b)
    BY ONLY <2>1, <1>2, <1>3, <1>5, HeapGive
  <2> QED BY <2>2, <1>6 DEF GivesWell
<1> USE <1>7
<1>8. page'[p] = q /\ q.slab = page[p].slab /\ \A s \in Page \ {p} : page'[s] = page[s]
  <2>1. page'[p] = q /\ \A s \in Page \ {p} : page'[s] = page[s]
    BY <1>3, <1>5, <1>6 DEF Swap
  <2> QED BY <2>1 DEF Keeps
<1>9. /\ pc'[t] = "idle" /\ blk'[t] = NULL
      /\ \A u \in Thread \ {t} : /\ pc'[u] = pc[u] /\ blk'[u] = blk[u]
                                 /\ Holding(u)' <=> Holding(u)
                                 /\ Keeping(u)' <=> Keeping(u)
                                 /\ Asking(u)' <=> Asking(u)
  BY OneMoves, Zenon DEF IInv
<1>10. ~Holding(t)' /\ ~Asking(t)' /\ ~Keeping(t)'
  BY <1>9 DEF Holding, Asking, Keeping
<1>11. Types'
  <2>1. /\ taken' \in SUBSET Page /\ ListsType(lists)' /\ "idle" \in PC
        /\ live' \in SUBSET Block /\ rcu' \in SUBSET Block
        /\ <<>> \in Seq([stat : Stat, add : Int])
    BY SMTT(20) DEF IInv, Types, ListsType, PC
  <2> QED BY <2>1, MoveTypes, Zenon DEF IInv
<1>12. Held' = Held \ {b}
  <2>1. ASSUME NEW d PROVE d \in Held' <=> d \in Held /\ d # b
    <3>1. d \in Held' <=> d \in live' \/ d \in rcu' \/ \E u \in Thread : Holding(u)' /\ d = blk'[u]
      BY DEF Held, Holding
    <3>2. CASE d = b
      <4>1. d \notin live' /\ d \notin rcu'
        BY <3>2, <1>4
      <4>2. ~\E u \in Thread : Holding(u)' /\ d = blk'[u]
        BY <3>2, <1>4, <1>9, <1>10
      <4> QED BY <3>1, <3>2, <4>1, <4>2
    <3>3. CASE d # b
      <4>1. (\E u \in Thread : Holding(u)' /\ d = blk'[u])
              <=> (\E u \in Thread : Holding(u) /\ d = blk[u])
        BY <3>3, <1>9, <1>10
      <4>2. d \in Held <=> d \in live \/ d \in rcu \/ \E u \in Thread : Holding(u) /\ d = blk[u]
        BY HeldBy
      <4>3. live' = live /\ rcu' = rcu
        OBVIOUS
      <4> QED BY ONLY <3>1, <3>3, <4>1, <4>2, <4>3
    <3> QED BY <3>2, <3>3
  <2> QED BY <2>1
<1> USE <1>8
<1>13. \A s \in Page : page'[s].slab = page[s].slab
  OBVIOUS
<1>14. HeapPages' = HeapPages
  <2>1. ASSUME NEW s PROVE s \in HeapPages' <=> s \in HeapPages
    <3>1. s \in HeapPages' <=> /\ s \in Page /\ page'[s].slab
                               /\ \A u \in Thread : Keeping(u)' => blk'[u].page # s
      BY DEF HeapPages, Keeping
    <3>2. (\A u \in Thread : Keeping(u)' => blk'[u].page # s)
            <=> (\A u \in Thread : Keeping(u) => blk[u].page # s)
      BY <1>1, <1>9, <1>10
    <3>3. s \in HeapPages <=> /\ s \in Page /\ page[s].slab
                             /\ \A u \in Thread : Keeping(u) => blk[u].page # s
      BY HeapPageFacts
    <3> QED BY ONLY <3>1, <3>2, <3>3, <1>13
  <2> QED BY <2>1, Zenon
<1>15. Heap'
  BY <1>12, <1>14 DEF Heap
<1>16. \A d \in Held' : Owned(d)'
  <2> TAKE d \in Held'
  <2>1. Owned(d) /\ d.page \in taken' /\ page'[d.page].slab = page[d.page].slab
    BY <1>12, <1>13, CallersHold
  <2> QED BY <2>1, <1>12, <1>14, OwnedStill
<1>17. Data'
  <2>1. live \subseteq Held \ {b} /\ rcu \subseteq Held \ {b}
    BY <1>4, CallersHold
  <2>2. SameIn(live \cup rcu, page, page')
    <3>1. ASSUME NEW d \in Held \ {b}, NEW i \in Words(d)
          PROVE  page'[d.page].words[i] = page[d.page].words[i]
      <4>1. CASE d.page = p
        BY <4>1 DEF Keeps, BlocksOf
      <4>2. CASE d.page # p
        BY <4>2, CallersHold
      <4> QED BY <4>1, <4>2
    <3> QED BY ONLY <2>1, <3>1, Zenon DEF SameIn
  <2>3. DataOK(page', live, rcu)
    BY <2>2, DataKept, CallersHold, SMTT(20) DEF IInv, Data
  <2> QED BY <2>3 DEF Data
<1>18. Askers' /\ Holders' /\ Callers'
  <2>1. Askers /\ Holders /\ Callers /\ live' = live /\ rcu' = rcu
    BY DEF IInv, Owners
  <2>2. Askers'
    BY ONLY <2>1, <1>9, <1>10, Zenon DEF Askers
  <2>3. Holders'
    BY ONLY <2>1, <1>9, <1>10, Zenon DEF Holders
  <2>4. Callers'
    BY ONLY <2>1, Zenon DEF Callers
  <2> QED BY <2>2, <2>3, <2>4
<1>19. Keepers'
  BY <1>9, <1>10, <1>13, KeepersStay
<1>20. Unused'
  BY <1>3 DEF IInv, Owners, Unused
<1> QED BY <1>11, <1>15, <1>16, <1>17, <1>18, <1>19, <1>20 DEF IInv, Owners

\* slob_free.
LEMMA FreeStep ==
  ASSUME IInv, NEW t \in Thread, Free(t) PROVE IInv'
<1>1. PICK b, p : b = blk[t] /\ p = b.page
  OBVIOUS
<1>2. pc[t] = "free" /\ UNCHANGED <<taken, live, rcu, stat, todo, tmp>>
  BY DEF Free, At
<1> USE <1>1
<1>3. CASE page[p].units + SLOB_UNITS(b.size) = PageUnits
  <2>1. /\ page' = [page EXCEPT ![p].free = FALSE] /\ lists' = Unlist(lists, p)
        /\ pc' = [pc EXCEPT ![t] = "release"] /\ UNCHANGED blk
    BY <1>3 DEF Free, Goto
  <2> QED BY <2>1, <1>2, <1>3, FreeLast, Zenon
<1>4. CASE page[p].units + SLOB_UNITS(b.size) # PageUnits
  <2>1. /\ page' = Swap(page, p, AfterFree(page[p], b))
        /\ lists' = IF ~page[p].free THEN Enlist(lists, p, ClassOf(b.size)) ELSE lists
        /\ pc' = [pc EXCEPT ![t] = "idle"] /\ blk' = [blk EXCEPT ![t] = NULL]
    BY <1>4 DEF Free, Goto, Swap, AfterFree
  <2> QED BY <2>1, <1>2, FreeOne, Zenon
<1> QED BY <1>3, <1>4

-----------------------------------------------------------------------------
(* The calls. *)

\* A request for size bytes that goes to slob_alloc.
LEMMA RequestIsProper ==
  ASSUME NEW size \in Nat \ {0}, NEW align \in Nat, NEW kind \in Kind,
         NEW b, b = [page |-> NULL, off |-> NoBlock, size |-> size,
                     align |-> align, kind |-> kind, large |-> FALSE],
         size < PAGE_SIZE, align = 1 \/ align % 2 = 0,
         kind = "kmalloc" => size > MINALIGN, kind = "rcu" => size > RCU_SIZE
  PROVE  Proper(b)
<1>1. b \in Block
  BY SMTT(20) DEF Block, NoBlock
<1>3. PAGE_SIZE \in Int /\ ~(size >= PAGE_SIZE)
  BY PageUnitsAssumption, SMTT(20) DEF PAGE_SIZE, SLOB_UNIT
<1> QED BY <1>1, <1>3, SMTT(20) DEF Proper

\* __do_kmalloc_node
LEMMA KmallocStep ==
  ASSUME IInv, NEW t \in Thread, NEW size \in KmallocSizes, Kmalloc(t, size) PROVE IInv'
<1>1. size \in Nat \ {0} /\ MINALIGN \in Nat \ {0} /\ MINALIGN % 2 = 0 /\ PAGE_SIZE \in Int
  BY SizeAssumption, LayoutAssumption, PageUnitsAssumption, SMTT(20) DEF PAGE_SIZE, SLOB_UNIT
<1> USE <1>1
<1>2. CASE size < PAGE_SIZE - MINALIGN
  <2>1. PICK n : n = size + MINALIGN
    OBVIOUS
  <2>2. AllocBegin(t, n, MINALIGN, "kmalloc")
    BY <1>2, <2>1 DEF Kmalloc
  <2>3. n \in Nat \ {0} /\ n < PAGE_SIZE /\ n > MINALIGN
    BY <1>2, <2>1, SMTT(20)
  <2>4. PICK b : b = [page |-> NULL, off |-> NoBlock, size |-> n,
                      align |-> MINALIGN, kind |-> "kmalloc", large |-> FALSE]
    BY Zenon
  <2>5. "kmalloc" \in Kind /\ MINALIGN \in Nat /\ n \in Nat
    BY <2>3 DEF Kind
  <2>6. Proper(b)
    BY <2>3, <2>4, <2>5, RequestIsProper
  <2> QED BY <2>2, <2>4, <2>5, <2>6, AllocBeginStep
<1>3. CASE ~(size < PAGE_SIZE - MINALIGN)
  <2>1. LargeAlloc(t, size, "kmalloc") /\ "kmalloc" \in Kind
    BY <1>3 DEF Kmalloc, Kind
  <2> QED BY <2>1, LargeAllocStep
<1> QED BY <1>2, <1>3

\* slob_alloc_node
LEMMA CacheAllocStep ==
  ASSUME IInv, NEW t \in Thread, NEW c \in Caches, CacheAlloc(t, c) PROVE IInv'
<1>1. PICK n, al, kind : n = CacheSize(c) /\ al = c.align /\ kind = IF c.rcu THEN "rcu" ELSE "cache"
  OBVIOUS
<1> USE <1>1
<1>2. /\ n \in Nat \ {0} /\ al \in Nat /\ (al = 1 \/ al % 2 = 0)
      /\ kind \in Kind /\ kind # "kmalloc" /\ (kind = "rcu" => n > RCU_SIZE) /\ PAGE_SIZE \in Int
  <2>1. /\ c.size \in Nat \ {0} /\ c.align \in Nat /\ c.rcu \in BOOLEAN /\ RCU_SIZE \in Nat
        /\ c.align = 1 \/ c.align % 2 = 0
    BY SizeAssumption, LayoutAssumption
  <2>2. PAGE_SIZE \in Int
    BY PageUnitsAssumption, SMTT(20) DEF PAGE_SIZE, SLOB_UNIT
  <2>3. CASE c.rcu
    BY <2>1, <2>2, SMTT(20) DEF CacheSize, Kind
  <2>4. CASE ~c.rcu
    BY <2>1, <2>2, SMTT(20) DEF CacheSize, Kind
  <2> QED BY <2>3, <2>4
<1> USE <1>2
<1>3. CASE n < PAGE_SIZE
  <2>1. AllocBegin(t, n, al, kind)
    BY <1>3 DEF CacheAlloc
  <2>2. PICK b : b = [page |-> NULL, off |-> NoBlock, size |-> n,
                      align |-> al, kind |-> kind, large |-> FALSE]
    BY Zenon
  <2>3. Proper(b) /\ n \in Nat
    BY <1>3, <2>2, RequestIsProper
  <2> QED BY <2>1, <2>2, <2>3, AllocBeginStep
<1>4. CASE ~(n < PAGE_SIZE)
  <2>1. LargeAlloc(t, n, kind)
    BY <1>4 DEF CacheAlloc
  <2> QED BY <2>1, <1>4, LargeAllocStep, SMTT(20)
<1> QED BY <1>3, <1>4

\* The header of a small block has its size.
LEMMA HeaderIsSize ==
  ASSUME IInv, NEW b \in live, b.kind = "kmalloc", ~b.large
  PROVE  page[b.page].words[b.off] = b.size - MINALIGN
<1>1. b \in Block /\ b.size > 0
  BY CallersHold DEF Proper
<1>2. b.off \in Words(b)
  BY <1>1, SmallWords
<1>3. page[b.page].words[b.off] = Content(b, b.off)
  BY <1>2 DEF IInv, Data, DataOK
<1> QED BY <1>3 DEF Content, Header

\* What the calls that give back block b come to: slob_free_pages of a large object,
\* slob_free of a small one with the size it was allocated with, or call_rcu.
GivesBack(t, b) ==
  /\ At(t, "idle") /\ b \in Held /\ b \in Block
  /\ \/ Surrendered(b) /\ b.large /\ LargeFree(b)
     \/ Surrendered(b) /\ ~b.large /\ FreeBegin(t, b, b.size)
     \/ /\ b \in live /\ b.kind = "rcu" /\ live' = live \ {b} /\ rcu' = rcu \cup {b}
        /\ page' = IF b.large THEN page ELSE [page EXCEPT ![b.page].words[Footer(b)] = b.size]
        /\ UNCHANGED <<taken, lists, stat, pc, blk, todo, tmp>>

\* kfree tells small objects from large ones, and finds their size.
LEMMA KfreeGivesBack ==
  ASSUME IInv, NEW t \in Thread, NEW b \in live, b.kind = "kmalloc", Kfree(t, b)
  PROVE  GivesBack(t, b)
<1>1. At(t, "idle") /\ Surrendered(b)
  BY DEF Kfree, Surrendered
<1>2. (page[b.page].slab <=> ~b.large) /\ b \in Held /\ b \in Block
  BY CallersHold DEF Owned
<1> USE <1>2
<1>3. CASE b.large
  <2>1. LargeFree(b)
    BY <1>3 DEF Kfree
  <2> QED BY <1>1, <1>3, <2>1 DEF GivesBack
<1>4. CASE ~b.large
  <2>1. PICK n : n = page[b.page].words[b.off] + MINALIGN
    OBVIOUS
  <2>2. FreeBegin(t, b, n)
    BY <1>4, <2>1 DEF Kfree
  <2>3. b.size \in Int /\ MINALIGN \in Int
    BY SizeAssumption, SMTT(20) DEF Block
  <2>4. n = b.size
    BY <1>4, <2>1, <2>3, HeaderIsSize, SMTT(20)
  <2> QED BY <1>1, <1>4, <2>2, <2>4 DEF GivesBack
<1> QED BY <1>3, <1>4

\* So does __kmem_cache_free, which is told the size.
LEMMA KmemCacheFreeGivesBack ==
  ASSUME IInv, NEW t \in Thread, At(t, "idle"), NEW b, b.kind # "kmalloc", Surrendered(b),
         NEW size, size = b.size, KmemCacheFree(t, b, size)
  PROVE  GivesBack(t, b)
<1>1. Proper(b) /\ b \in Block /\ b \in Held
  BY SurrenderedOnce, CallersHold
<1>2. (b.large <=> b.size >= PAGE_SIZE) /\ b.size \in Int /\ PAGE_SIZE \in Int
  BY <1>1, PageUnitsAssumption, SMTT(20) DEF Proper, Block, PAGE_SIZE, SLOB_UNIT
<1>3. b.large => LargeFree(b)
  BY <1>2, SMTT(20) DEF KmemCacheFree
<1>4. ~b.large => FreeBegin(t, b, b.size)
  BY <1>2, SMTT(20) DEF KmemCacheFree
<1> QED BY <1>1, <1>3, <1>4 DEF GivesBack

\* kfree, kmem_cache_free and kmem_rcu_free.
LEMMA CallsGiveBack ==
  ASSUME IInv, NEW t \in Thread
  PROVE  /\ \A b \in live : (IF b.kind = "kmalloc" THEN Kfree(t, b) ELSE CacheFree(t, b)) => GivesBack(t, b)
         /\ \A b \in rcu : RcuFree(t, b) => GivesBack(t, b)
<1>1. ASSUME NEW b \in live, b.kind = "kmalloc", Kfree(t, b) PROVE GivesBack(t, b)
  BY <1>1, KfreeGivesBack
<1>2. ASSUME NEW b \in live, b.kind # "kmalloc", CacheFree(t, b) PROVE GivesBack(t, b)
  <2>1. CASE b.kind = "rcu"
    <3>1. b \in Held /\ b \in Block
      BY CallersHold
    <3> QED BY <1>2, <2>1, <3>1 DEF CacheFree, GivesBack
  <2>2. CASE b.kind # "rcu"
    <3>1. At(t, "idle") /\ Surrendered(b) /\ KmemCacheFree(t, b, b.size)
      BY <1>2, <2>2 DEF CacheFree, Surrendered
    <3> QED BY <1>2, <3>1, KmemCacheFreeGivesBack
  <2> QED BY <2>1, <2>2
<1>3. ASSUME NEW b \in rcu, RcuFree(t, b) PROVE GivesBack(t, b)
  <2>1. PICK n : n = IF b.large THEN b.size ELSE page[b.page].words[Footer(b)]
    OBVIOUS
  <2>2. At(t, "idle") /\ Surrendered(b) /\ KmemCacheFree(t, b, n)
    BY <1>3, <2>1 DEF RcuFree, Surrendered
  <2>3. n = b.size
    BY <2>1 DEF IInv, Data, DataOK
  <2>4. b.kind # "kmalloc"
    BY DEF IInv, Owners, Callers
  <2> QED BY <2>2, <2>3, <2>4, KmemCacheFreeGivesBack
<1> QED BY <1>1, <1>2, <1>3

\* They keep the invariant.
LEMMA GiveBackStep ==
  ASSUME IInv, NEW t \in Thread, NEW b, GivesBack(t, b) PROVE IInv'
<1>1. At(t, "idle") /\ b \in Block
  BY DEF GivesBack
<1>2. CASE Surrendered(b) /\ b.large /\ LargeFree(b)
  BY <1>2, LargeFreeStep
<1>3. CASE Surrendered(b) /\ ~b.large /\ FreeBegin(t, b, b.size)
  BY <1>1, <1>3, SmallFreeStep
<1>4. CASE /\ b \in live /\ b.kind = "rcu" /\ live' = live \ {b} /\ rcu' = rcu \cup {b}
           /\ page' = IF b.large THEN page ELSE [page EXCEPT ![b.page].words[Footer(b)] = b.size]
           /\ UNCHANGED <<taken, lists, stat, pc, blk, todo, tmp>>
  BY <1>4, RcuQueueStep, Zenon
<1> QED BY <1>2, <1>3, <1>4 DEF GivesBack

\* Every step keeps the invariant.
LEMMA NextIInv ==
  IInv /\ [Next]_vars => IInv'
<1> SUFFICES ASSUME IInv, [Next]_vars PROVE IInv'
  OBVIOUS
<1>1. CASE UNCHANGED vars
  <2>1. Types' /\ Held' = Held /\ HeapPages' = HeapPages
    BY <1>1, Zenon DEF vars, IInv, Types, ListsType, Held, HeapPages
  <2> QED BY <2>1, <1>1, Quiet DEF vars, Holding, Keeping, Asking, IInv, Owners, Askers
<1>2. ASSUME NEW t \in Thread, StatLoad(t) \/ StatStore(t) PROVE IInv'
  BY <1>2, StatLoadStep, StatStoreStep
<1>3. ASSUME NEW t \in Thread, NEW size \in KmallocSizes, Kmalloc(t, size) PROVE IInv'
  BY <1>3, KmallocStep
<1>4. ASSUME NEW t \in Thread, NEW c \in Caches, CacheAlloc(t, c) PROVE IInv'
  BY <1>4, CacheAllocStep
<1>5. ASSUME NEW t \in Thread, Search(t) \/ NewPage(t) \/ NoPage(t) \/ Insert(t) \/ AllocReturn(t)
      PROVE  IInv'
  BY <1>5, SearchStep, NewPageStep, NoPageStep, InsertStep, AllocReturnStep
<1>6. ASSUME NEW t \in Thread, NEW b \in live,
             IF b.kind = "kmalloc" THEN Kfree(t, b) ELSE CacheFree(t, b)
      PROVE  IInv'
  BY <1>6, CallsGiveBack, GiveBackStep
<1>7. ASSUME NEW t \in Thread, NEW b \in rcu, RcuFree(t, b) PROVE IInv'
  BY <1>7, CallsGiveBack, GiveBackStep
<1>8. ASSUME NEW t \in Thread, Free(t) \/ Release(t) PROVE IInv'
  BY <1>8, FreeStep, ReleaseStep
<1> QED BY <1>1, <1>2, <1>3, <1>4, <1>5, <1>6, <1>7, <1>8 DEF Next

\* The invariant of the allocator.
THEOREM HeapInvariant == Spec => []IInv
<1>1. IInv /\ [Next]_vars => IInv'
  BY NextIInv
<1> QED BY <1>1, InitIInv, PTL DEF Spec
=============================================================================
