--------------------------- MODULE SlobPageProofs ---------------------------
(***************************************************************************)
(* Proofs about SlobPage, for pages of any size.  What set_slob writes is  *)
(* what slob_units, slob_next and slob_last read, in no other words than   *)
(* those of the block.  From that, what slob_page_alloc and slob_free do   *)
(* to the set of free words: the free list is a function from its blocks'  *)
(* places to their lengths (Listed), the words of the blocks are the free  *)
(* ones (Covered) and no two blocks touch (Coalesced); FreeIs(pg, F) is    *)
(* all of it.                                                              *)
(***************************************************************************)
EXTENDS SlobPage, WellFoundedInduction, FiniteSetTheorems, TLAPS

\* The provers have more time for a leaf than they take by default.
USE SMTT(20), ZenonT(20)

-----------------------------------------------------------------------------
(* Induction over the natural numbers, and functions defined by recursion  *)
(* over them, stated for sets: the theorems of NaturalsInduction say the   *)
(* same of predicates, which are parameters that the provers cannot        *)
(* instantiate; a set of numbers they can.                                 *)

\* Every set of natural numbers that is not empty has a least element.
LEMMA LeastElement ==
  ASSUME NEW T \in SUBSET Nat, T # {}
  PROVE  \E x \in T : \A y \in T : x <= y
<1>1. PICK x \in T : \A y \in T : ~(<<y, x>> \in OpToRel(<, Nat))
  BY NatLessThanWellFounded, WFMin, Zenon
<1>2. \A y \in T : y < x => <<y, x>> \in OpToRel(<, Nat)
  BY DEF OpToRel
<1>3. \A y \in T : ~(y < x)
  BY <1>1, <1>2, Zenon
<1> QED BY ONLY <1>3, T \in SUBSET Nat, x \in T

\* A set that is bounded has a greatest.
LEMMA GreatestElement ==
  ASSUME NEW n \in Nat, NEW T \in SUBSET (0 .. n), T # {}
  PROVE  \E x \in T : \A y \in T : y <= x
<1> DEFINE U == {m \in Nat : n - m \in T}
<1>1. U # {}
  <2> PICK x \in T : TRUE
    BY Zenon
  <2>1. n - x \in Nat /\ n - (n - x) = x
    OBVIOUS
  <2> QED BY <2>1, Zenon
<1>2. PICK m \in U : \A k \in U : m <= k
  BY <1>1, LeastElement, Zenon
<1>3. \A y \in T : n - y \in U
  OBVIOUS
<1> QED BY <1>2, <1>3

\* A set that contains 0 and the successor of each of its numbers has them all.
LEMMA Induction ==
  ASSUME NEW S, 0 \in S, \A n \in Nat : n \in S => n + 1 \in S
  PROVE  \A n \in Nat : n \in S
<1> SUFFICES ASSUME Nat \ S # {} PROVE FALSE
  OBVIOUS
<1>1. PICK x \in Nat \ S : \A y \in Nat \ S : x <= y
  BY LeastElement, Zenon
<1>2. x - 1 \in Nat /\ x - 1 \in S
  BY <1>1
<1> QED BY <1>1, <1>2

\* f is defined by recursion: f[0] = a, and f[i + 1] is got from f[i] by g.
Iterates(f, a, g, n) ==
  f[0] = a /\ \A i \in 0 .. n - 1 : f[i + 1] = g[f[i]]

\* A function on a set can be iterated.
LEMMA Recursion ==
  ASSUME NEW S, NEW a \in S, NEW g \in [S -> S]
  PROVE  \E f \in [Nat -> S] : f[0] = a /\ \A n \in Nat : f[n + 1] = g[f[n]]
<1> DEFINE Approx(n) == {f \in [0 .. n -> S] : Iterates(f, a, g, n)}
<1>1. \A n \in Nat : Approx(n) # {}
  <2> DEFINE E == {n \in Nat : Approx(n) # {}}
  <2>1. 0 \in E
    <3>1. [i \in 0 .. 0 |-> a] \in Approx(0)
      BY DEF Iterates
    <3> QED BY <3>1
  <2>2. ASSUME NEW n \in Nat, n \in E PROVE n + 1 \in E
    <3> PICK f \in Approx(n) : TRUE
      BY <2>2
    <3> DEFINE h == [i \in 0 .. n + 1 |-> IF i = n + 1 THEN g[f[n]] ELSE f[i]]
    <3>1. h \in [0 .. n + 1 -> S]
      OBVIOUS
    <3>2. h[0] = a /\ \A i \in 0 .. n : h[i + 1] = g[h[i]]
      BY DEF Iterates
    <3>3. Iterates(h, a, g, n + 1)
      BY <3>2 DEF Iterates
    <3> QED BY <3>1, <3>3
  <2> HIDE DEF E
  <2>3. \A n \in Nat : n \in E
    BY <2>1, <2>2, Induction
  <2> QED BY <2>3 DEF E
<1>2. ASSUME NEW n \in Nat, NEW f \in Approx(n), NEW h \in Approx(n + 1)
      PROVE  f[n] = h[n]
  <2> DEFINE E == {i \in Nat : i <= n => f[i] = h[i]}
  <2>1. 0 \in E
    BY DEF Iterates
  <2>2. ASSUME NEW i \in Nat, i \in E PROVE i + 1 \in E
    BY <2>2 DEF Iterates
  <2> HIDE DEF E
  <2>3. n \in E
    BY <2>1, <2>2, Induction
  <2> QED BY <2>3 DEF E
<1> DEFINE p == [n \in Nat |-> CHOOSE f \in Approx(n) : TRUE]
           F == [n \in Nat |-> p[n][n]]
<1>3. \A n \in Nat : p[n] \in Approx(n)
  BY <1>1
<1> HIDE DEF p
<1>4. F \in [Nat -> S]
  BY <1>3
<1>5. F[0] = a
  BY <1>3 DEF Iterates
<1>6. ASSUME NEW n \in Nat PROVE F[n + 1] = g[F[n]]
  <2>1. p[n] \in Approx(n) /\ p[n + 1] \in Approx(n + 1)
    BY <1>3
  <2>2. p[n + 1][n + 1] = g[p[n + 1][n]]
    BY <2>1 DEF Iterates
  <2>3. p[n][n] = p[n + 1][n]
    BY <1>2, <2>1
  <2> QED BY <2>2, <2>3
<1> QED BY <1>4, <1>5, <1>6, Zenon

-----------------------------------------------------------------------------
(* The words of a block. *)

\* A free block of size words at s, followed by the one at next: no list ever
\* leads back to the start of the page, which -0 could not encode.
FreeBlock(s, size, next) ==
  /\ s \in Word /\ size \in 1 .. PageUnits /\ s + size <= PageUnits
  /\ next \in 1 .. PageUnits

\* slob_units and slob_next of a block are the size and the successor that
\* set_slob was given, for blocks of one word and of several.
THEOREM RoundTrip ==
  ASSUME NEW w \in [Word -> Int], NEW s, NEW size, NEW next,
         FreeBlock(s, size, next)
  PROVE  LET v == set_slob(w, s, size, next)
         IN  /\ v \in [Word -> Int]
             /\ slob_units(v, s) = size
             /\ slob_next(v, s) = next
<1> USE PageUnitsAssumption DEF FreeBlock, Word
<1>1. CASE size > 1
  <2>1. s + 1 \in Word /\ s # s + 1 /\ size \in Int /\ next \in Int
    BY <1>1
  <2> QED BY <1>1, <2>1 DEF set_slob, slob_units, slob_next
<1>2. CASE size = 1
  BY <1>2 DEF set_slob, slob_units, slob_next
<1> QED BY <1>1, <1>2

\* slob_last recognises the block whose successor is the start of the next page,
\* and no other.
THEOREM LastIsEnd ==
  ASSUME NEW w \in [Word -> Int], NEW s, NEW size, NEW next,
         FreeBlock(s, size, next)
  PROVE  slob_last(set_slob(w, s, size, next), s) <=> next = PageUnits
<1>1. slob_next(set_slob(w, s, size, next), s) = next
  BY RoundTrip
<1>2. next % PageUnits = 0 <=> next = PageUnits
  <2>1. CASE next = PageUnits
    BY <2>1, PageUnitsAssumption, PageUnits % PageUnits = 0
  <2>2. CASE next \in 1 .. PageUnits - 1
    BY <2>2, PageUnitsAssumption, next % PageUnits = next
  <2> QED BY <2>1, <2>2, PageUnitsAssumption DEF FreeBlock
<1> QED BY <1>1, <1>2 DEF slob_last

\* set_slob changes no word outside the block: neither the data of an allocated
\* neighbour nor another free block.
THEOREM WritesInBlock ==
  ASSUME NEW w \in [Word -> Int], NEW s, NEW size, NEW next,
         FreeBlock(s, size, next)
  PROVE  \A i \in Word \ Extent(s, size) : set_slob(w, s, size, next)[i] = w[i]
BY PageUnitsAssumption DEF FreeBlock, Word, Extent, set_slob

-----------------------------------------------------------------------------
(* Free blocks in the words of a page. *)

\* The words w encode a free block of size words at s whose successor is next.
FreeAt(w, s, size, next) ==
  /\ FreeBlock(s, size, next)
  /\ IF size > 1 THEN w[s] = size /\ w[s + 1] = next ELSE w[s] = -next

\* What the accessors read from an encoded block.
LEMMA ReadBlock ==
  ASSUME NEW w \in [Word -> Int], NEW s, NEW size, NEW next,
         FreeAt(w, s, size, next)
  PROVE  /\ slob_units(w, s) = size
         /\ slob_next(w, s) = next
         /\ slob_last(w, s) <=> next = PageUnits
         /\ Onward(w, s) = IF next = PageUnits THEN s ELSE next
<1>1. slob_units(w, s) = size /\ slob_next(w, s) = next
  BY PageUnitsAssumption DEF FreeAt, FreeBlock, Word, slob_units, slob_next
<1>2. next \in 1 .. PageUnits
  BY DEF FreeAt, FreeBlock
<1>3. next % PageUnits = 0 <=> next = PageUnits
  <2>1. CASE next = PageUnits
    BY <2>1, PageUnitsAssumption, PageUnits % PageUnits = 0
  <2>2. CASE next \in 1 .. PageUnits - 1
    BY <2>2, PageUnitsAssumption, next % PageUnits = next
  <2> QED BY <1>2, <2>1, <2>2, PageUnitsAssumption
<1> QED BY <1>1, <1>3 DEF slob_last, Onward

\* set_slob encodes the block it is given.
LEMMA WriteBlock ==
  ASSUME NEW w \in [Word -> Int], NEW s, NEW size, NEW next,
         FreeBlock(s, size, next)
  PROVE  /\ set_slob(w, s, size, next) \in [Word -> Int]
         /\ FreeAt(set_slob(w, s, size, next), s, size, next)
         /\ \A i \in Word \ Extent(s, size) : set_slob(w, s, size, next)[i] = w[i]
<1>1. set_slob(w, s, size, next) \in [Word -> Int]
  BY RoundTrip
<1>2. FreeAt(set_slob(w, s, size, next), s, size, next)
  BY PageUnitsAssumption DEF FreeAt, FreeBlock, Word, set_slob
<1> QED BY <1>1, <1>2, WritesInBlock

\* A block is encoded in its own words only.
LEMMA SameBlock ==
  ASSUME NEW w \in [Word -> Int], NEW v \in [Word -> Int],
         NEW s, NEW size, NEW next, FreeAt(w, s, size, next),
         \A i \in Extent(s, size) : v[i] = w[i]
  PROVE  FreeAt(v, s, size, next)
<1>1. s \in Extent(s, size) /\ (size > 1 => s + 1 \in Extent(s, size))
  BY PageUnitsAssumption DEF FreeAt, FreeBlock, Word, Extent
<1> QED BY <1>1 DEF FreeAt

\* Writing one block leaves a block that it does not overlap as it is.
LEMMA OtherBlock ==
  ASSUME NEW w \in [Word -> Int], NEW s, NEW size, NEW next,
         FreeBlock(s, size, next),
         NEW c, NEW csize, NEW cnext, FreeAt(w, c, csize, cnext),
         c + csize <= s \/ s + size <= c
  PROVE  FreeAt(set_slob(w, s, size, next), c, csize, cnext)
<1>1. \A i \in Extent(c, csize) : i \in Word \ Extent(s, size)
  BY PageUnitsAssumption DEF FreeAt, FreeBlock, Word, Extent
<1> QED BY <1>1, WriteBlock, SameBlock

\* n follows s in the set B of offsets: it is the next one in B, or the end of the
\* page if there is none.
Follows(B, s, n) ==
  \/ n = PageUnits /\ \A c \in B : c <= s
  \/ n \in B /\ s < n /\ \A c \in B : c <= s \/ n <= c

\* The words w encode the free blocks at the offsets in DOMAIN len, of len[s] words
\* each, every one leading to the one that follows it.
Encoded(w, len) ==
  /\ DOMAIN len \subseteq Word
  /\ \A s \in DOMAIN len :
       \E n \in 1 .. PageUnits : FreeAt(w, s, len[s], n) /\ Follows(DOMAIN len, s, n)
  /\ \A s, c \in DOMAIN len : s < c => s + len[s] <= c

\* They are the free list of the page, which starts with the lowest.
Listed(pg, len) ==
  /\ pg.words \in [Word -> Int]
  /\ Encoded(pg.words, len)
  /\ pg.freelist \in DOMAIN len
  /\ \A s \in DOMAIN len : pg.freelist <= s

\* No two of the blocks touch.
Coalesced(len) == \A s, c \in DOMAIN len : s < c => s + len[s] < c

\* The words of the blocks.
Covered(len) == {i \in Word : \E s \in DOMAIN len : s <= i /\ i < s + len[s]}

-----------------------------------------------------------------------------
(* Loops over the free list. *)

\* What the accessors read from a listed block: its length, and the block that
\* follows it.
LEMMA ReadListed ==
  ASSUME NEW pg, NEW len, Listed(pg, len), NEW s \in DOMAIN len
  PROVE  /\ s \in Word /\ len[s] \in 1 .. PageUnits /\ s + len[s] <= PageUnits
         /\ slob_units(pg.words, s) = len[s]
         /\ slob_next(pg.words, s) \in 1 .. PageUnits
         /\ FreeAt(pg.words, s, len[s], slob_next(pg.words, s))
         /\ Follows(DOMAIN len, s, slob_next(pg.words, s))
         /\ slob_last(pg.words, s) <=> slob_next(pg.words, s) = PageUnits
         /\ Onward(pg.words, s) \in DOMAIN len
         /\ Onward(pg.words, s) = IF slob_last(pg.words, s) THEN s ELSE slob_next(pg.words, s)
         /\ ~slob_last(pg.words, s) => s < slob_next(pg.words, s)
<1>1. PICK n \in 1 .. PageUnits :
        FreeAt(pg.words, s, len[s], n) /\ Follows(DOMAIN len, s, n)
  BY DEF Listed, Encoded
<1>2. pg.words \in [Word -> Int]
  BY DEF Listed
<1>3. /\ slob_units(pg.words, s) = len[s]
      /\ slob_next(pg.words, s) = n
      /\ slob_last(pg.words, s) <=> n = PageUnits
  BY <1>1, <1>2, ReadBlock
<1>4. s \in Word /\ len[s] \in 1 .. PageUnits /\ s + len[s] <= PageUnits
  BY <1>1 DEF FreeAt, FreeBlock
<1>5. n # PageUnits => n \in DOMAIN len /\ s < n
  BY <1>1 DEF Follows
<1> QED BY <1>1, <1>3, <1>4, <1>5 DEF Onward

\* FreeList is the function its recursive definition asks for, and all the blocks
\* it comes to are listed.
LEMMA FreeListListed ==
  ASSUME NEW pg, NEW len, Listed(pg, len)
  PROVE  /\ FreeList(pg) \in [Nat -> DOMAIN len]
         /\ FreeList(pg)[0] = pg.freelist
         /\ \A k \in Nat : FreeList(pg)[k + 1] = Onward(pg.words, FreeList(pg)[k])
<1> DEFINE B == DOMAIN len
           g == [s \in B |-> Onward(pg.words, s)]
           a == pg.freelist
<1>1. a \in B /\ g \in [B -> B]
  BY ReadListed, Zenon DEF Listed
<1>2. \E f \in [Nat -> B] : f[0] = a /\ \A n \in Nat : f[n + 1] = g[f[n]]
  <2> HIDE DEF B, g, a
  <2> QED BY ONLY <1>1, Recursion
<1>3. PICK f \in [Nat -> B] : f[0] = a /\ \A n \in Nat : f[n + 1] = g[f[n]]
  BY <1>2
<1>4. \A n \in Nat : f[n + 1] = Onward(pg.words, f[n])
  BY <1>3, Zenon
<1> DEFINE Step(h) == [k \in Nat |-> IF k = 0 THEN pg.freelist ELSE Onward(pg.words, h[k - 1])]
<1>5. f = Step(f)
  <2>1. ASSUME NEW k \in Nat PROVE f[k] = Step(f)[k]
    <3>1. CASE k = 0
      BY <3>1, <1>3
    <3>2. CASE k # 0
      <4>1. k - 1 \in Nat /\ (k - 1) + 1 = k
        BY <3>2
      <4>2. f[(k - 1) + 1] = Onward(pg.words, f[k - 1])
        BY <4>1, <1>4
      <4> QED BY <3>2, <4>1, <4>2
    <3> QED BY <3>1, <3>2
  <2> QED BY <2>1, <1>3
<1>6. FreeList(pg) = CHOOSE h : h = Step(h)
  BY DEF FreeList
<1> DEFINE at == CHOOSE h : h = Step(h)
<1>7. at = Step(at)
  <2> HIDE DEF Step
  <2> QED BY <1>5
<1>8. DOMAIN at = Nat /\ \A k \in Nat : at[k] = IF k = 0 THEN pg.freelist ELSE Onward(pg.words, at[k - 1])
  <2> HIDE DEF at
  <2> QED BY <1>7
<1> HIDE DEF at
<1>9. at[0] = pg.freelist /\ \A k \in Nat : at[k + 1] = Onward(pg.words, at[k])
  <2>1. ASSUME NEW k \in Nat PROVE at[k + 1] = Onward(pg.words, at[k])
    <3>1. k + 1 \in Nat /\ k + 1 # 0 /\ (k + 1) - 1 = k
      OBVIOUS
    <3> QED BY <3>1, <1>8
  <2> QED BY <2>1, <1>8
<1> DEFINE E == {k \in Nat : at[k] \in B}
<1>10. \A k \in Nat : k \in E
  <2>1. 0 \in E
    BY <1>9, <1>1
  <2>2. \A k \in Nat : k \in E => k + 1 \in E
    BY <1>9, ReadListed
  <2> HIDE DEF E
  <2> QED BY <2>1, <2>2, Induction
<1>11. at \in [Nat -> B]
  <2>1. at = [k \in Nat |-> at[k]]
    BY <1>7 DEF Step
  <2> QED BY <2>1, <1>10
<1> QED BY <1>6, <1>9, <1>11 DEF at

\* The list is followed in address order up to its last block.
LEMMA FreeListClimbs ==
  ASSUME NEW pg, NEW len, Listed(pg, len)
  PROVE  \A k \in Nat : slob_last(pg.words, FreeList(pg)[k]) \/ k <= FreeList(pg)[k]
<1> DEFINE at == FreeList(pg)
           E == {k \in Nat : slob_last(pg.words, at[k]) \/ k <= at[k]}
<1>1. /\ at \in [Nat -> DOMAIN len] /\ at[0] = pg.freelist
      /\ \A k \in Nat : at[k + 1] = Onward(pg.words, at[k])
  BY FreeListListed
<1>2. DOMAIN len \subseteq Word
  BY DEF Listed, Encoded
<1> HIDE DEF at
<1>3. 0 \in E
  BY <1>1, <1>2, PageUnitsAssumption DEF Word
<1>4. ASSUME NEW k \in Nat, k \in E PROVE k + 1 \in E
  <2>1. at[k] \in DOMAIN len /\ at[k] \in Int
    BY <1>1, <1>2, PageUnitsAssumption DEF Word
  <2>2. CASE slob_last(pg.words, at[k])
    BY <2>1, <2>2, <1>1, ReadListed
  <2>3. CASE ~slob_last(pg.words, at[k])
    <3>1. /\ at[k + 1] = slob_next(pg.words, at[k])
          /\ at[k] < slob_next(pg.words, at[k])
          /\ slob_next(pg.words, at[k]) \in 1 .. PageUnits
      BY <2>1, <2>3, <1>1, ReadListed
    <3>2. k <= at[k]
      BY <2>3, <1>4
    <3> QED BY <3>1, <3>2, <2>1, PageUnitsAssumption
  <2> QED BY <2>2, <2>3
<1>5. \A k \in Nat : k \in E
  <2> HIDE DEF E
  <2> QED BY <1>3, <1>4, Induction
<1> QED BY <1>5 DEF at

\* So a loop over the list is at its last block in time.
LEMMA FreeListEnds ==
  ASSUME NEW pg, NEW len, Listed(pg, len)
  PROVE  \E k \in ListIndex : slob_last(pg.words, FreeList(pg)[k])
<1> DEFINE at == FreeList(pg)
<1>1. /\ at \in [Nat -> DOMAIN len]
      /\ \A k \in Nat : at[k + 1] = Onward(pg.words, at[k])
      /\ \A k \in Nat : slob_last(pg.words, at[k]) \/ k <= at[k]
  BY FreeListListed, FreeListClimbs
<1>2. DOMAIN len \subseteq Word
  BY DEF Listed, Encoded
<1> HIDE DEF at
<1>3. SUFFICES ASSUME ~slob_last(pg.words, at[PageUnits - 1]) PROVE FALSE
  BY PageUnitsAssumption DEF at, ListIndex
<1>4. PageUnits - 1 \in Nat /\ PageUnits \in Nat /\ (PageUnits - 1) + 1 = PageUnits
  BY PageUnitsAssumption
<1>5. PageUnits - 1 <= at[PageUnits - 1] /\ at[PageUnits - 1] \in DOMAIN len
  BY <1>1, <1>3, <1>4
<1>6. /\ at[PageUnits - 1] < slob_next(pg.words, at[PageUnits - 1])
      /\ at[(PageUnits - 1) + 1] = slob_next(pg.words, at[PageUnits - 1])
      /\ slob_next(pg.words, at[PageUnits - 1]) \in 1 .. PageUnits
  BY <1>1, <1>3, <1>4, <1>5, ReadListed
<1>7. at[PageUnits] \in Word
  BY <1>1, <1>2, <1>4
<1>8. at[PageUnits] > PageUnits - 1 /\ at[PageUnits - 1] \in Word
  BY <1>2, <1>4, <1>5, <1>6 DEF Word
<1> QED BY <1>7, <1>8, <1>4 DEF Word

\* And it has come to every block of the list.
LEMMA FreeListReaches ==
  ASSUME NEW pg, NEW len, Listed(pg, len), NEW s \in DOMAIN len
  PROVE  \E k \in ListIndex : FreeList(pg)[k] = s
<1> DEFINE at == FreeList(pg)
           Missed == {c \in DOMAIN len : \A k \in ListIndex : at[k] # c}
<1>1. /\ at \in [Nat -> DOMAIN len] /\ at[0] = pg.freelist
      /\ \A k \in Nat : at[k + 1] = Onward(pg.words, at[k])
      /\ \A k \in Nat : slob_last(pg.words, at[k]) \/ k <= at[k]
  BY FreeListListed, FreeListClimbs
<1>2. DOMAIN len \subseteq Word /\ pg.freelist \in DOMAIN len
  BY DEF Listed, Encoded
<1> SUFFICES ASSUME Missed # {} PROVE FALSE
  OBVIOUS
<1> HIDE DEF at
<1>3. PICK m \in Missed : \A c \in Missed : m <= c
  <2>1. Missed \in SUBSET Nat
    BY <1>2, PageUnitsAssumption DEF Word
  <2> HIDE DEF Missed
  <2> QED BY <2>1, LeastElement
<1>4. m \in DOMAIN len /\ m \in Word /\ m # pg.freelist
  <2>1. 0 \in ListIndex
    BY PageUnitsAssumption DEF ListIndex
  <2> QED BY <2>1, <1>1, <1>2
<1> DEFINE Before == {c \in DOMAIN len : c < m}
<1>5. PICK c \in Before : \A d \in Before : d <= c
  <2>1. pg.freelist \in Before
    <3>1. pg.freelist <= m /\ pg.freelist \in Int /\ m \in Int
      BY <1>2, <1>4, PageUnitsAssumption DEF Listed, Word
    <3> QED BY <3>1, <1>2, <1>4
  <2>2. Before \in SUBSET (0 .. PageUnits - 1) /\ PageUnits - 1 \in Nat
    BY <1>2, PageUnitsAssumption DEF Word
  <2> HIDE DEF Before
  <2> QED BY <2>1, <2>2, GreatestElement, Zenon
<1>6. c \in DOMAIN len /\ c < m /\ c \in Int /\ m \in Int
  BY <1>2, <1>4, PageUnitsAssumption DEF Word
<1>7. PICK k \in ListIndex : at[k] = c
  BY <1>3, <1>6
<1> DEFINE n == slob_next(pg.words, c)
<1>8. /\ Follows(DOMAIN len, c, n) /\ n \in 1 .. PageUnits
      /\ slob_last(pg.words, c) <=> n = PageUnits
      /\ Onward(pg.words, c) = IF slob_last(pg.words, c) THEN c ELSE n
  BY <1>6, ReadListed
<1> HIDE DEF n
<1>9. n \in DOMAIN len /\ c < n /\ n <= m /\ n # PageUnits
  BY <1>2, <1>4, <1>6, <1>8, PageUnitsAssumption DEF Follows, Word
<1>10. n = m
  BY <1>5, <1>6, <1>8, <1>9, PageUnitsAssumption
<1>11. k \in Nat /\ k <= c /\ at[k + 1] = m
  BY <1>1, <1>7, <1>8, <1>9, <1>10, PageUnitsAssumption DEF ListIndex
<1>12. k + 1 \in ListIndex
  BY <1>4, <1>6, <1>11, PageUnitsAssumption DEF Word, ListIndex
<1> QED BY <1>11, <1>12

\* The words on the free list are those of the listed blocks.
LEMMA FreeWordsListed ==
  ASSUME NEW pg, NEW len, Listed(pg, len), pg.units # 0
  PROVE  FreeWords(pg) = Covered(len)
<1> DEFINE at == FreeList(pg)
           Ext(k) == Extent(at[k], slob_units(pg.words, at[k]))
<1>1. at \in [Nat -> DOMAIN len]
  BY FreeListListed
<1>2. FreeWords(pg) = UNION {Ext(k) : k \in ListIndex}
  BY DEF FreeWords
<1>3. ASSUME NEW k \in ListIndex
      PROVE  /\ at[k] \in DOMAIN len
             /\ \A i : i \in Ext(k) <=> i \in Word /\ at[k] <= i /\ i < at[k] + len[at[k]]
  <2> HIDE DEF at
  <2>1. at[k] \in DOMAIN len
    BY <1>1, PageUnitsAssumption DEF ListIndex
  <2>2. /\ at[k] \in Word /\ len[at[k]] \in 1 .. PageUnits /\ at[k] + len[at[k]] <= PageUnits
        /\ slob_units(pg.words, at[k]) = len[at[k]]
    BY <2>1, ReadListed
  <2> QED BY <2>1, <2>2, PageUnitsAssumption DEF Extent, Word
<1>4. \A s \in DOMAIN len : \E k \in ListIndex : at[k] = s
  BY FreeListReaches
<1> HIDE DEF at, Ext
<1> QED BY <1>2, <1>3, <1>4 DEF Covered

\* On a page whose list is coalesced, a free block and its successor do not touch.
LEMMA FreeListApart ==
  ASSUME NEW pg, NEW len, Listed(pg, len), Coalesced(len), NEW k \in ListIndex
  PROVE  LET s == FreeList(pg)[k]
         IN  slob_last(pg.words, s) \/ s + slob_units(pg.words, s) < slob_next(pg.words, s)
<1> DEFINE s == FreeList(pg)[k]
<1>1. s \in DOMAIN len
  BY FreeListListed, PageUnitsAssumption DEF ListIndex
<1> HIDE DEF s
<1>2. /\ slob_units(pg.words, s) = len[s]
      /\ Follows(DOMAIN len, s, slob_next(pg.words, s))
      /\ slob_last(pg.words, s) <=> slob_next(pg.words, s) = PageUnits
  BY <1>1, ReadListed
<1>3. slob_last(pg.words, s) \/ s + slob_units(pg.words, s) < slob_next(pg.words, s)
  BY <1>1, <1>2 DEF Follows, Coalesced
<1> QED BY <1>3 DEF s

\* The loop of slob_page_alloc ends with a listed block that has room, and with its
\* predecessor; or there is none with room.
LEMMA FirstFitListed ==
  ASSUME NEW pg, NEW len, Listed(pg, len), NEW units \in Int, NEW align \in Int,
         NEW r, r = FirstFit(pg, units, align), r.cur # NoBlock
  PROVE  /\ r.cur \in DOMAIN len
         /\ Fits(pg.words, r.cur, units, align)
         /\ \/ r.prev = NoBlock /\ r.cur = pg.freelist
            \/ r.prev \in DOMAIN len /\ slob_next(pg.words, r.prev) = r.cur
<1> DEFINE at == FreeList(pg)
           w == pg.words
           Stop(k) == Fits(w, at[k], units, align) \/ slob_last(w, at[k])
           First(k) == Stop(k) /\ \A j \in 0 .. k - 1 : ~Stop(j)
           end == CHOOSE k \in ListIndex : First(k)
<1>1. /\ at \in [Nat -> DOMAIN len] /\ at[0] = pg.freelist
      /\ \A k \in Nat : at[k + 1] = Onward(w, at[k])
  BY FreeListListed
<1>2. \E k \in ListIndex : First(k)
  <2> DEFINE T == {k \in ListIndex : Stop(k)}
  <2>1. T # {} /\ T \in SUBSET Nat
    BY FreeListEnds, PageUnitsAssumption DEF ListIndex
  <2>2. PICK k \in T : \A j \in T : k <= j
    <3> HIDE DEF T
    <3> QED BY <2>1, LeastElement
  <2>3. \A j \in 0 .. k - 1 : j \in ListIndex /\ ~(k <= j)
    BY PageUnitsAssumption DEF ListIndex
  <2>4. First(k)
    BY <2>2, <2>3
  <2> QED BY <2>4
<1>3. end \in ListIndex /\ First(end)
  <2> HIDE DEF First
  <2> QED BY <1>2
<1>4. r = [prev |-> IF end = 0 THEN NoBlock ELSE at[end - 1],
           cur  |-> IF Fits(w, at[end], units, align) THEN at[end] ELSE NoBlock]
  BY DEF FirstFit
<1> HIDE DEF end, at
<1>5. r.cur = at[end] /\ Fits(w, at[end], units, align)
  BY <1>4
<1>6. end \in Nat
  BY <1>3, PageUnitsAssumption DEF ListIndex
<1>7. at[end] \in DOMAIN len
  BY <1>1, <1>6
<1>8. CASE end = 0
  BY <1>1, <1>4, <1>5, <1>7, <1>8
<1>9. CASE end # 0
  <2>1. end - 1 \in Nat /\ (end - 1) + 1 = end /\ end - 1 \in 0 .. end - 1
    BY <1>6, <1>9
  <2>2. ~slob_last(w, at[end - 1]) /\ at[end - 1] \in DOMAIN len
    BY <1>1, <1>3, <2>1
  <2>3. at[(end - 1) + 1] = slob_next(w, at[end - 1])
    BY <2>1, <2>2, <1>1, ReadListed
  <2> QED BY <1>4, <1>5, <1>7, <1>9, <2>1, <2>2, <2>3
<1> QED BY <1>8, <1>9

\* The reinsertion point of slob_free for a block that is not free is the listed
\* block between which and its successor it belongs.
LEMMA PredecessorListed ==
  ASSUME NEW pg, NEW len, Listed(pg, len), NEW b \in Word, b \notin DOMAIN len,
         pg.freelist <= b
  PROVE  /\ Predecessor(pg, b) \in DOMAIN len
         /\ Predecessor(pg, b) < b
         /\ b <= slob_next(pg.words, Predecessor(pg, b))
<1> DEFINE at == FreeList(pg)
           w == pg.words
           Stop(k) == b <= slob_next(w, at[k])
           First(k) == Stop(k) /\ \A j \in 0 .. k - 1 : ~Stop(j)
           end == CHOOSE k \in ListIndex : First(k)
<1>1. /\ at \in [Nat -> DOMAIN len] /\ at[0] = pg.freelist
      /\ \A k \in Nat : at[k + 1] = Onward(w, at[k])
  BY FreeListListed
<1>2. \A k \in Nat : slob_last(w, at[k]) => Stop(k)
  <2> TAKE k \in Nat
  <2>1. at[k] \in DOMAIN len
    BY <1>1
  <2>2. slob_last(w, at[k]) <=> slob_next(w, at[k]) = PageUnits
    BY <2>1, ReadListed
  <2> QED BY <2>2, PageUnitsAssumption DEF Word
<1>3. \E k \in ListIndex : First(k)
  <2> DEFINE T == {k \in ListIndex : Stop(k)}
  <2>1. T # {} /\ T \in SUBSET Nat
    BY <1>2, FreeListEnds, PageUnitsAssumption DEF ListIndex
  <2>2. PICK k \in T : \A j \in T : k <= j
    <3> HIDE DEF T
    <3> QED BY <2>1, LeastElement
  <2>3. \A j \in 0 .. k - 1 : j \in ListIndex /\ ~(k <= j)
    BY PageUnitsAssumption DEF ListIndex
  <2>4. First(k)
    BY <2>2, <2>3
  <2> QED BY <2>4
<1>4. end \in ListIndex /\ First(end)
  <2> HIDE DEF First
  <2> QED BY <1>3
<1>5. Predecessor(pg, b) = at[end]
  BY DEF Predecessor
<1> HIDE DEF end, at
<1>6. end \in Nat
  BY <1>4, PageUnitsAssumption DEF ListIndex
<1>7. at[end] \in DOMAIN len /\ b <= slob_next(w, at[end])
  BY <1>1, <1>4, <1>6
<1>8. at[end] <= b
  <2>1. CASE end = 0
    BY <2>1, <1>1
  <2>2. CASE end # 0
    <3>1. end - 1 \in Nat /\ (end - 1) + 1 = end /\ end - 1 \in 0 .. end - 1
      BY <1>6, <2>2
    <3>2. ~Stop(end - 1) /\ at[end - 1] \in DOMAIN len
      BY <1>1, <1>4, <3>1
    <3>3. ~slob_last(w, at[end - 1])
      BY <1>2, <3>1, <3>2
    <3>4. at[(end - 1) + 1] = slob_next(w, at[end - 1])
          /\ slob_next(w, at[end - 1]) \in 1 .. PageUnits
      BY <3>1, <3>2, <3>3, <1>1, ReadListed
    <3> QED BY <3>1, <3>2, <3>4, PageUnitsAssumption DEF Word
  <2> QED BY <2>1, <2>2
<1>9. at[end] \in Word /\ at[end] # b
  BY <1>7 DEF Listed, Encoded
<1> QED BY <1>5, <1>7, <1>8, <1>9, PageUnitsAssumption DEF Word

-----------------------------------------------------------------------------
(* slob_page_alloc. *)

\* The blocks after the first units words of the block at c have been taken.
Taken(len, c, units) ==
  [s \in (DOMAIN len \ {c}) \cup (IF len[c] > units THEN {c + units} ELSE {}) |->
     IF s = c + units /\ len[c] > units THEN len[c] - units ELSE len[s]]

\* TakeUnits takes the first words of a block off the list, and writes to words of
\* the listed blocks only.
LEMMA TakeUnitsListed ==
  ASSUME NEW pg \in SlobPageType, NEW len, Listed(pg, len),
         NEW c \in DOMAIN len, NEW units \in 1 .. len[c], NEW prev,
         \/ prev = NoBlock /\ c = pg.freelist
         \/ prev \in DOMAIN len /\ slob_next(pg.words, prev) = c,
         NEW r, r = TakeUnits(pg, prev, c, units)
  PROVE  /\ r.words \in [Word -> Int] /\ r.freelist \in 0 .. PageUnits
         /\ DOMAIN Taken(len, c, units) # {} => Listed(r, Taken(len, c, units))
         /\ \A i \in Word \ Covered(len) : r.words[i] = pg.words[i]
<1> DEFINE w == pg.words
           B == DOMAIN len
           n == slob_next(w, c)
           rest == IF len[c] = units THEN n ELSE c + units
           w1 == IF prev = NoBlock THEN w ELSE set_slob(w, prev, len[prev], rest)
           w2 == IF len[c] = units THEN w1 ELSE set_slob(w1, rest, len[c] - units, n)
           len2 == Taken(len, c, units)
           B2 == DOMAIN len2
<1>1. w \in [Word -> Int] /\ B \subseteq Word /\ NoBlock \notin Word /\ PageUnits \in Nat
  BY PageUnitsAssumption DEF Listed, Encoded, NoBlock, Word
<1>2. \A s \in B : /\ s \in Word /\ len[s] \in 1 .. PageUnits /\ s + len[s] <= PageUnits
                   /\ slob_units(w, s) = len[s]
                   /\ slob_next(w, s) \in 1 .. PageUnits
                   /\ FreeAt(w, s, len[s], slob_next(w, s))
                   /\ Follows(B, s, slob_next(w, s))
  BY ReadListed
<1>3. \A s, d \in B : s < d => s + len[s] <= d
  BY DEF Listed, Encoded
<1>4. \A s \in B : pg.freelist <= s
  BY DEF Listed
<1>5. /\ r.words = w2
      /\ r.freelist = IF prev = NoBlock THEN rest ELSE pg.freelist
  <2>1. slob_units(w, c) = len[c] /\ (prev # NoBlock => slob_units(w, prev) = len[prev])
    BY <1>2
  <2> QED BY <2>1 DEF TakeUnits, SlobPageType
<1>6. n \in 1 .. PageUnits /\ FreeAt(w, c, len[c], n) /\ Follows(B, c, n)
  BY <1>2
<1>7. rest \in 1 .. PageUnits /\ units \in 1 .. PageUnits /\ len[c] \in 1 .. PageUnits /\ c \in Nat
      /\ c + len[c] <= PageUnits
  BY <1>1, <1>2, <1>6 DEF Word
<1>0. /\ PageUnits \in Int /\ c \in Int /\ units \in Int /\ 1 <= units /\ units <= len[c]
      /\ c \in B /\ \A s \in B : s \in Int /\ 0 <= s /\ len[s] \in Int /\ 1 <= len[s] /\ s + len[s] <= PageUnits
  BY <1>1, <1>2, <1>7 DEF Word
<1> HIDE DEF n, w
<1>8. prev # NoBlock => prev \in B /\ prev < c /\ prev + len[prev] <= c /\ slob_next(w, prev) = c
  <2> SUFFICES ASSUME prev # NoBlock PROVE prev \in B /\ prev < c /\ prev + len[prev] <= c /\ slob_next(w, prev) = c
    OBVIOUS
  <2>1. prev \in B /\ slob_next(w, prev) = c
    BY DEF w
  <2>2. Follows(B, prev, c) /\ c # PageUnits
    BY <1>1, <1>2, <2>1 DEF Word
  <2> QED BY <2>1, <2>2, <1>3 DEF Follows
<1>9. /\ w1 \in [Word -> Int]
      /\ prev # NoBlock => FreeAt(w1, prev, len[prev], rest)
      /\ \A s \in B \ {prev} : FreeAt(w1, s, len[s], slob_next(w, s))
      /\ \A i \in Word \ Covered(len) : w1[i] = w[i]
  <2>1. CASE prev = NoBlock
    BY <1>1, <1>2, <2>1
  <2>2. CASE prev # NoBlock
    <3>1. FreeBlock(prev, len[prev], rest)
      BY <1>2, <1>7, <1>8, <2>2 DEF FreeBlock
    <3>2. w1 = set_slob(w, prev, len[prev], rest)
      BY <2>2
    <3>3. \A s \in B \ {prev} : s + len[s] <= prev \/ prev + len[prev] <= s
      BY <1>1, <1>2, <1>3, <1>8, <2>2 DEF Word
    <3>4. \A i \in Word \ Covered(len) : i \notin Extent(prev, len[prev])
      BY <1>1, <1>2, <1>8, <2>2 DEF Covered, Extent, Word
    <3> HIDE DEF w1, rest
    <3>5. \A s \in B \ {prev} : FreeAt(w1, s, len[s], slob_next(w, s))
      BY <1>1, <1>2, <3>1, <3>2, <3>3, OtherBlock
    <3>6. /\ w1 \in [Word -> Int] /\ FreeAt(w1, prev, len[prev], rest)
          /\ \A i \in Word \ Extent(prev, len[prev]) : w1[i] = w[i]
      BY <1>1, <3>1, <3>2, WriteBlock
    <3> QED BY <3>4, <3>5, <3>6
  <2> QED BY <2>1, <2>2
<1> HIDE DEF w1
<1>10. /\ w2 \in [Word -> Int]
       /\ prev # NoBlock => FreeAt(w2, prev, len[prev], rest)
       /\ \A s \in B \ {prev, c} : FreeAt(w2, s, len[s], slob_next(w, s))
       /\ len[c] # units => FreeAt(w2, rest, len[c] - units, n)
       /\ \A i \in Word \ Covered(len) : w2[i] = w[i]
  <2>1. CASE len[c] = units
    BY <1>9, <2>1
  <2>2. CASE len[c] # units
    <3>1. FreeBlock(rest, len[c] - units, n)
      BY <1>1, <1>6, <1>7, <2>2 DEF FreeBlock, Word
    <3>2. w2 = set_slob(w1, rest, len[c] - units, n)
      BY <2>2
    <3>a. rest = c + units
      BY <2>2
    <3> HIDE DEF rest, B
    <3>3. \A s \in B \ {c} : s + len[s] <= rest \/ rest + (len[c] - units) <= s
      BY ONLY <1>0, <1>3, <3>a
    <3>4. \A i \in Word \ Covered(len) : i \notin Extent(rest, len[c] - units)
      BY ONLY <1>0, <3>a DEF B, Covered, Extent, Word
    <3> HIDE DEF w2, rest
    <3>5. \A s \in B \ {prev, c} : FreeAt(w2, s, len[s], slob_next(w, s))
      BY <1>9, <3>1, <3>2, <3>3, OtherBlock
    <3>6. /\ w2 \in [Word -> Int] /\ FreeAt(w2, rest, len[c] - units, n)
          /\ \A i \in Word \ Extent(rest, len[c] - units) : w2[i] = w1[i]
      BY <1>9, <3>1, <3>2, WriteBlock
    <3>7. prev # NoBlock => FreeAt(w2, prev, len[prev], rest)
      <4> SUFFICES ASSUME prev # NoBlock PROVE FreeAt(w2, prev, len[prev], rest)
        OBVIOUS
      <4>1. prev \in B \ {c}
        BY ONLY <1>0, <1>8, prev # NoBlock
      <4>2. FreeAt(w1, prev, len[prev], rest) /\ w1 \in [Word -> Int]
        BY <1>9
      <4>3. prev + len[prev] <= rest \/ rest + (len[c] - units) <= prev
        BY <3>3, <4>1
      <4> QED BY ONLY <3>1, <3>2, <4>2, <4>3, OtherBlock
    <3> QED BY <1>9, <3>4, <3>5, <3>6, <3>7
  <2> QED BY <2>1, <2>2
<1> HIDE DEF w2
<1>11. /\ B2 = (B \ {c}) \cup (IF len[c] > units THEN {c + units} ELSE {})
       /\ \A s \in B2 : len2[s] = IF s = c + units /\ len[c] > units THEN len[c] - units ELSE len[s]
  BY DEF Taken
<1>12. \A s \in B \ {c} : s # c + units \/ ~(len[c] > units)
  BY <1>1, <1>2, <1>3, <1>7 DEF Word
<1> HIDE DEF len2, B2
<1>13. /\ \A s \in B \ {c} : s \in B2 /\ len2[s] = len[s]
       /\ len[c] > units => rest \in B2 /\ len2[rest] = len[c] - units /\ rest = c + units
       /\ \A s \in B2 : s \in B \ {c} \/ (len[c] > units /\ s = rest)
       /\ B2 \subseteq Word
       /\ len[c] # units <=> len[c] > units
       /\ len[c] = units => rest = n
       /\ B2 # {} /\ prev = NoBlock => rest # PageUnits
  <2>1. len[c] # units <=> len[c] > units
    BY <1>7
  <2>2. B2 # {} /\ prev = NoBlock => rest # PageUnits
    BY <1>1, <1>2, <1>4, <1>6, <1>7, <1>11 DEF Word, Follows
  <2>3. len[c] > units => rest = c + units /\ rest \in Word
    BY <1>0, <2>1 DEF Word
  <2>4. B2 \subseteq Word
    BY <1>1, <1>11, <2>3
  <2>5. len[c] = units => rest = n
    OBVIOUS
  <2> HIDE DEF rest, B
  <2> QED BY <1>11, <1>12, <2>1, <2>2, <2>3, <2>4, <2>5
<1> HIDE DEF rest, B
<1>a. c < n /\ n \in Int /\ c < rest /\ rest \in Int /\ rest <= n /\ n <= PageUnits
      /\ (n # PageUnits => n \in B) /\ \A s \in B : s <= c \/ n <= s
  BY ONLY <1>0, <1>6, <1>7, <1>13, <1>3, PageUnits \in Nat DEF Follows
<1>b. prev # NoBlock => /\ prev \in B /\ prev < c /\ prev + len[prev] <= c
                        /\ \A s \in B : s <= prev \/ c <= s
  BY ONLY <1>0, <1>2, <1>8 DEF Follows
<1>14. prev # NoBlock => Follows(B2, prev, rest)
  BY ONLY <1>0, <1>3, <1>13, <1>a, <1>b DEF Follows
<1>15. len[c] > units => Follows(B2, rest, n)
  BY ONLY <1>0, <1>3, <1>13, <1>a DEF Follows
<1>16. \A s \in B \ {prev, c} : Follows(B2, s, slob_next(w, s))
  <2> TAKE s \in B \ {prev, c}
  <2>1. slob_next(w, s) # c
    <3>1. CASE prev = NoBlock
      <4>1. c <= s
        BY <3>1, <1>1, <1>4 DEF B
      <4> QED BY ONLY <4>1, <1>0, <1>2, s \in B \ {prev, c} DEF Follows
    <3>2. CASE prev # NoBlock
      BY ONLY <3>2, <1>0, <1>2, <1>b, s \in B \ {prev, c} DEF Follows
    <3> QED BY <3>1, <3>2
  <2>2. Follows(B, s, slob_next(w, s)) /\ slob_next(w, s) \in Int
    BY <1>0, <1>2
  <2> QED BY ONLY <1>0, <1>3, <1>13, <2>1, <2>2, s \in B \ {prev, c} DEF Follows
<1>17. Encoded(w2, len2)
  <2>1. ASSUME NEW s \in B2
        PROVE  \E x \in 1 .. PageUnits : FreeAt(w2, s, len2[s], x) /\ Follows(B2, s, x)
    <3>1. CASE len[c] > units /\ s = rest
      BY <3>1, <1>6, <1>10, <1>13, <1>15
    <3>2. CASE s \in B \ {c} /\ s = prev
      BY <3>2, <1>1, <1>7, <1>10, <1>13, <1>14
    <3>3. CASE s \in B \ {prev, c}
      BY <3>3, <1>2, <1>10, <1>13, <1>16
    <3> QED BY <1>13, <3>1, <3>2, <3>3
  <2>2. \A s, d \in B2 : s < d => s + len2[s] <= d
    BY ONLY <1>0, <1>3, <1>13
  <2> QED BY <1>13, <2>1, <2>2 DEF Encoded, B2
<1>18. B2 # {} => r.freelist \in B2 /\ \A s \in B2 : r.freelist <= s
  <2> SUFFICES ASSUME B2 # {} PROVE r.freelist \in B2 /\ \A s \in B2 : r.freelist <= s
    OBVIOUS
  <2>1. CASE prev = NoBlock
    <3>1. r.freelist = rest /\ rest # PageUnits /\ c = pg.freelist
      BY <2>1, <1>1, <1>5, <1>13 DEF B
    <3>2. \A s \in B \ {c} : c + len[c] <= s
      BY ONLY <3>1, <1>0, <1>3, <1>4
    <3> QED BY ONLY <3>1, <3>2, <1>0, <1>13, <1>a
  <2>2. CASE prev # NoBlock
    <3>1. r.freelist = pg.freelist /\ pg.freelist \in B /\ pg.freelist <= prev
      BY <2>2, <1>4, <1>5, <1>8 DEF Listed, B
    <3>2. pg.freelist < c
      BY ONLY <3>1, <2>2, <1>0, <1>b
    <3>3. \A s \in B : pg.freelist <= s
      BY <1>4
    <3> QED BY ONLY <3>1, <3>2, <3>3, <1>0, <1>13, <1>a
  <2> QED BY <2>1, <2>2
<1>19. r.freelist \in 0 .. PageUnits
  BY <1>5, <1>7 DEF SlobPageType
<1> QED BY <1>5, <1>10, <1>17, <1>18, <1>19 DEF Listed, w, B2, len2

\* The words taken were free, and the others stay free.
LEMMA CoveredTaken ==
  ASSUME NEW pg, NEW len, Listed(pg, len), NEW c \in DOMAIN len, NEW units \in 1 .. len[c]
  PROVE  /\ Extent(c, units) \subseteq Covered(len)
         /\ Covered(Taken(len, c, units)) = Covered(len) \ Extent(c, units)
         /\ DOMAIN Taken(len, c, units) = {} => Covered(len) = Extent(c, units)
<1> DEFINE B == DOMAIN len
           len2 == Taken(len, c, units)
           B2 == DOMAIN len2
<1>1. \A s \in B : s \in Word /\ len[s] \in 1 .. PageUnits /\ s + len[s] <= PageUnits
  BY ReadListed
<1>2. \A s, d \in B : s < d => s + len[s] <= d
  BY DEF Listed, Encoded
<1>3. /\ PageUnits \in Int /\ c \in Int /\ units \in Int /\ 1 <= units /\ units <= len[c]
      /\ c \in B /\ \A s \in B : s \in Int /\ 0 <= s /\ len[s] \in Int /\ 1 <= len[s] /\ s + len[s] <= PageUnits
  BY <1>1, PageUnitsAssumption DEF Word
<1>4. /\ B2 = (B \ {c}) \cup (IF len[c] > units THEN {c + units} ELSE {})
      /\ \A s \in B2 : len2[s] = IF s = c + units /\ len[c] > units THEN len[c] - units ELSE len[s]
  BY DEF Taken
<1>5. \A i : i \in Covered(len) <=> i \in Word /\ \E s \in B : s <= i /\ i < s + len[s]
  BY DEF Covered
<1>6. \A i : i \in Covered(len2) <=> i \in Word /\ \E s \in B2 : s <= i /\ i < s + len2[s]
  BY DEF Covered
<1>7. \A i : i \in Extent(c, units) <=> i \in Word /\ c <= i /\ i < c + units
  BY ONLY <1>3 DEF Extent, Word
<1>8. \A i \in Word : i \in Int
  BY PageUnitsAssumption DEF Word
<1> HIDE DEF len2, B2, B
<1>9. \A s \in B \ {c} : s # c + units \/ ~(len[c] > units)
  BY ONLY <1>2, <1>3
<1>10. /\ \A s \in B \ {c} : s \in B2 /\ len2[s] = len[s]
       /\ len[c] > units => c + units \in B2 /\ len2[c + units] = len[c] - units
       /\ \A s \in B2 : s \in B \ {c} \/ (len[c] > units /\ s = c + units)
  BY ONLY <1>4, <1>9
<1>11. Extent(c, units) \subseteq Covered(len)
  BY ONLY <1>3, <1>5, <1>7, <1>8
<1>12. ASSUME NEW i \in Covered(len) \ Extent(c, units) PROVE i \in Covered(len2)
  <2>1. i \in Word /\ i \in Int /\ ~(c <= i /\ i < c + units)
    BY ONLY <1>5, <1>7, <1>8, <1>12
  <2>2. PICK s \in B : s <= i /\ i < s + len[s]
    BY <1>5
  <2>3. CASE s = c
    <3>1. len[c] > units /\ c + units <= i /\ i < (c + units) + (len[c] - units)
      BY ONLY <2>1, <2>2, <2>3, <1>3
    <3> QED BY ONLY <2>1, <3>1, <1>6, <1>10
  <2>4. CASE s # c
    BY ONLY <2>1, <2>2, <2>4, <1>6, <1>10
  <2> QED BY <2>3, <2>4
<1>13. ASSUME NEW i \in Covered(len2) PROVE i \in Covered(len) \ Extent(c, units)
  <2>1. i \in Word /\ i \in Int
    BY ONLY <1>6, <1>8, <1>13
  <2>2. PICK s \in B2 : s <= i /\ i < s + len2[s]
    BY <1>6
  <2>3. CASE s \in B \ {c}
    <3>1. len2[s] = len[s] /\ (s + len[s] <= c \/ c + len[c] <= s)
      BY ONLY <2>3, <1>2, <1>3, <1>10
    <3>2. i \in Covered(len)
      BY ONLY <2>1, <2>2, <2>3, <3>1, <1>5
    <3>3. ~(c <= i /\ i < c + units)
      BY ONLY <2>1, <2>2, <2>3, <3>1, <1>3
    <3> QED BY <3>2, <3>3, <1>7
  <2>4. CASE len[c] > units /\ s = c + units
    <3>1. c <= i /\ i < c + len[c] /\ ~(i < c + units)
      BY ONLY <2>1, <2>2, <2>4, <1>3, <1>10
    <3> QED BY ONLY <2>1, <3>1, <1>3, <1>5, <1>7
  <2> QED BY <1>10, <2>3, <2>4
<1>14. Covered(len2) = Covered(len) \ Extent(c, units)
  BY <1>12, <1>13
<1>15. B2 = {} => Covered(len2) = {}
  BY <1>6
<1> QED BY <1>11, <1>14, <1>15, Zenon DEF len2, B2

\* The blocks after the one at c has been cut in two after d words.
Split(len, c, d) ==
  [s \in DOMAIN len \cup {c + d} |->
     IF s = c THEN d ELSE IF s = c + d THEN len[c] - d ELSE len[s]]

\* SplitHead cuts a block of the list in two.
LEMMA SplitHeadListed ==
  ASSUME NEW pg \in SlobPageType, NEW len, Listed(pg, len),
         NEW c \in DOMAIN len, NEW d \in 1 .. len[c] - 1,
         NEW r, r.words = SplitHead(pg.words, c, d), r.freelist = pg.freelist
  PROVE  /\ Listed(r, Split(len, c, d))
         /\ slob_next(r.words, c) = c + d
         /\ \A i \in Word \ Covered(len) : r.words[i] = pg.words[i]
<1> DEFINE w == pg.words
           B == DOMAIN len
           n == slob_next(w, c)
           w1 == set_slob(w, c + d, len[c] - d, n)
           w2 == set_slob(w1, c, d, c + d)
           len2 == Split(len, c, d)
           B2 == DOMAIN len2
<1>1. w \in [Word -> Int] /\ B \subseteq Word
  BY DEF Listed, Encoded
<1>2. \A s \in B : /\ s \in Word /\ len[s] \in 1 .. PageUnits /\ s + len[s] <= PageUnits
                   /\ slob_units(w, s) = len[s]
                   /\ slob_next(w, s) \in 1 .. PageUnits
                   /\ FreeAt(w, s, len[s], slob_next(w, s))
                   /\ Follows(B, s, slob_next(w, s))
  BY ReadListed
<1>3. \A s, e \in B : s < e => s + len[s] <= e
  BY DEF Listed, Encoded
<1>4. /\ PageUnits \in Int /\ c \in Int /\ d \in Int /\ 1 <= d /\ d < len[c]
      /\ c \in B /\ \A s \in B : s \in Int /\ 0 <= s /\ len[s] \in Int /\ 1 <= len[s] /\ s + len[s] <= PageUnits
  BY <1>2, PageUnitsAssumption DEF Word
<1>5. r.words = w2
  BY <1>2, <1>4 DEF SplitHead
<1>6. FreeBlock(c + d, len[c] - d, n) /\ FreeBlock(c, d, c + d)
  BY <1>2, <1>4 DEF FreeBlock, Word
<1>7. \A s \in B \ {c} : s + len[s] <= c \/ c + len[c] <= s
  BY ONLY <1>3, <1>4
<1>8. \A i \in Word \ Covered(len) : i \notin Extent(c + d, len[c] - d) /\ i \notin Extent(c, d)
  BY <1>4 DEF Covered, Extent, Word
<1>9. B2 = B \cup {c + d}
      /\ \A s \in B2 : len2[s] = IF s = c THEN d ELSE IF s = c + d THEN len[c] - d ELSE len[s]
  BY DEF Split
<1> HIDE DEF w, n, w1, w2, B, len2, B2
<1>10. /\ w1 \in [Word -> Int] /\ FreeAt(w1, c + d, len[c] - d, n)
       /\ \A i \in Word \ Extent(c + d, len[c] - d) : w1[i] = w[i]
  BY <1>1, <1>6, WriteBlock DEF w1
<1>11. \A s \in B \ {c} : FreeAt(w1, s, len[s], slob_next(w, s))
  <2> TAKE s \in B \ {c}
  <2>1. s + len[s] <= c + d \/ c + d + (len[c] - d) <= s
    BY ONLY <1>4, <1>7, s \in B \ {c}
  <2> QED BY <2>1, <1>1, <1>2, <1>6, OtherBlock DEF w1
<1>12. /\ w2 \in [Word -> Int] /\ FreeAt(w2, c, d, c + d)
       /\ \A i \in Word \ Extent(c, d) : w2[i] = w1[i]
  BY <1>10, <1>6, WriteBlock DEF w2
<1>13. FreeAt(w2, c + d, len[c] - d, n)
  BY <1>4, <1>6, <1>10, OtherBlock DEF w2
<1>14. \A s \in B \ {c} : FreeAt(w2, s, len[s], slob_next(w, s))
  <2> TAKE s \in B \ {c}
  <2>1. s + len[s] <= c \/ c + d <= s
    BY ONLY <1>4, <1>7, s \in B \ {c}
  <2> QED BY <2>1, <1>6, <1>10, <1>11, OtherBlock DEF w2
<1>15. /\ \A s \in B \ {c} : s \in B2 /\ len2[s] = len[s] /\ s # c + d
       /\ c \in B2 /\ len2[c] = d /\ c + d \in B2 /\ len2[c + d] = len[c] - d
       /\ \A s \in B2 : s \in B \ {c} \/ s = c \/ s = c + d
  <2>1. \A s \in B \ {c} : s # c + d
    BY ONLY <1>4, <1>7
  <2> QED BY ONLY <2>1, <1>4, <1>9
<1>16. n \in 1 .. PageUnits /\ Follows(B, c, n)
  BY <1>2, <1>4 DEF n
<1>17. Follows(B2, c, c + d)
  BY ONLY <1>4, <1>7, <1>15 DEF Follows
<1>18. Follows(B2, c + d, n)
  <2>1. c + d < n
    BY ONLY <1>3, <1>4, <1>16 DEF Follows
  <2> QED BY ONLY <2>1, <1>4, <1>7, <1>15, <1>16 DEF Follows
<1>19. ASSUME NEW s \in B \ {c} PROVE Follows(B2, s, slob_next(w, s))
  <2>1. Follows(B, s, slob_next(w, s)) /\ slob_next(w, s) \in Int
    BY <1>2
  <2> QED BY ONLY <2>1, <1>4, <1>7, <1>15, s \in B \ {c} DEF Follows
<1>20. Encoded(w2, len2)
  <2>1. ASSUME NEW s \in B2
        PROVE  \E x \in 1 .. PageUnits : FreeAt(w2, s, len2[s], x) /\ Follows(B2, s, x)
    <3>1. CASE s = c
      <4>1. c + d \in 1 .. PageUnits
        BY ONLY <1>4
      <4> QED BY <4>1, <3>1, <1>12, <1>15, <1>17
    <3>2. CASE s = c + d
      BY <3>2, <1>13, <1>15, <1>16, <1>18
    <3>3. CASE s \in B \ {c}
      BY <3>3, <1>2, <1>14, <1>15, <1>19
    <3> QED BY <1>15, <3>1, <3>2, <3>3
  <2>2. \A s, e \in B2 : s < e => s + len2[s] <= e
    BY ONLY <1>4, <1>7, <1>3, <1>15
  <2>3. B2 \subseteq Word
    <3>1. c + d \in Word
      BY ONLY <1>4 DEF Word
    <3> QED BY ONLY <3>1, <1>1, <1>4, <1>15
  <2> QED BY <2>1, <2>2, <2>3 DEF Encoded, B2
<1>21. r.words = w2 /\ r.freelist = pg.freelist
  BY <1>5
<1>22. pg.freelist \in B2 /\ \A s \in B2 : pg.freelist <= s
  <2>1. pg.freelist \in B /\ \A s \in B : pg.freelist <= s
    BY DEF Listed, B
  <2> QED BY ONLY <2>1, <1>4, <1>15
<1>23. slob_next(w2, c) = c + d
  BY <1>12, ReadBlock
<1> QED BY <1>8, <1>10, <1>12, <1>20, <1>21, <1>22, <1>23 DEF Listed, w, B2, len2

\* Cutting a block in two changes nothing of what is free.
LEMMA CoveredSplit ==
  ASSUME NEW pg, NEW len, Listed(pg, len), NEW c \in DOMAIN len, NEW d \in 1 .. len[c] - 1
  PROVE  Covered(Split(len, c, d)) = Covered(len)
<1> DEFINE B == DOMAIN len
           len2 == Split(len, c, d)
           B2 == DOMAIN len2
<1>1. \A s \in B : s \in Word /\ len[s] \in 1 .. PageUnits /\ s + len[s] <= PageUnits
  BY ReadListed
<1>2. \A s, e \in B : s < e => s + len[s] <= e
  BY DEF Listed, Encoded
<1>3. /\ PageUnits \in Int /\ c \in Int /\ d \in Int /\ 1 <= d /\ d < len[c]
      /\ c \in B /\ \A s \in B : s \in Int /\ 0 <= s /\ len[s] \in Int /\ 1 <= len[s] /\ s + len[s] <= PageUnits
  BY <1>1, PageUnitsAssumption DEF Word
<1>4. B2 = B \cup {c + d}
      /\ \A s \in B2 : len2[s] = IF s = c THEN d ELSE IF s = c + d THEN len[c] - d ELSE len[s]
  BY DEF Split
<1>5. \A i : i \in Covered(len) <=> i \in Word /\ \E s \in B : s <= i /\ i < s + len[s]
  BY DEF Covered
<1>6. \A i : i \in Covered(len2) <=> i \in Word /\ \E s \in B2 : s <= i /\ i < s + len2[s]
  BY DEF Covered
<1>7. \A i \in Word : i \in Int
  BY PageUnitsAssumption DEF Word
<1> HIDE DEF len2, B2, B
<1>8. /\ \A s \in B \ {c} : s \in B2 /\ len2[s] = len[s]
      /\ c \in B2 /\ len2[c] = d /\ c + d \in B2 /\ len2[c + d] = len[c] - d
      /\ \A s \in B2 : s \in B \ {c} \/ s = c \/ s = c + d
  <2>1. \A s \in B \ {c} : s # c + d
    BY ONLY <1>2, <1>3
  <2> QED BY ONLY <2>1, <1>3, <1>4
<1>9. ASSUME NEW i \in Covered(len) PROVE i \in Covered(len2)
  <2>1. i \in Word /\ i \in Int
    BY ONLY <1>5, <1>7, <1>9
  <2>2. PICK s \in B : s <= i /\ i < s + len[s]
    BY <1>5
  <2>3. CASE s = c
    <3>1. (c <= i /\ i < c + d) \/ (c + d <= i /\ i < (c + d) + (len[c] - d))
      BY ONLY <2>1, <2>2, <2>3, <1>3
    <3> QED BY ONLY <2>1, <3>1, <1>6, <1>8
  <2>4. CASE s # c
    BY ONLY <2>1, <2>2, <2>4, <1>6, <1>8
  <2> QED BY <2>3, <2>4
<1>10. ASSUME NEW i \in Covered(len2) PROVE i \in Covered(len)
  <2>1. i \in Word /\ i \in Int
    BY ONLY <1>6, <1>7, <1>10
  <2>2. PICK s \in B2 : s <= i /\ i < s + len2[s]
    BY <1>6
  <2>3. CASE s \in B \ {c}
    BY ONLY <2>1, <2>2, <2>3, <1>5, <1>8
  <2>4. CASE s = c \/ s = c + d
    <3>1. c <= i /\ i < c + len[c]
      BY ONLY <2>1, <2>2, <2>4, <1>3, <1>8
    <3> QED BY ONLY <2>1, <3>1, <1>3, <1>5
  <2> QED BY <1>8, <2>3, <2>4
<1>11. Covered(len2) = Covered(len)
  BY <1>9, <1>10
<1> QED BY <1>11 DEF len2

\* The blocks that are left do not touch, whether the words were taken from the
\* start of a block or from behind the first d of them.
LEMMA CoalescedTaken ==
  ASSUME NEW pg, NEW len, Listed(pg, len), Coalesced(len), NEW c \in DOMAIN len,
         NEW d \in 0 .. len[c] - 1, NEW units \in 1 .. len[c] - d
  PROVE  Coalesced(IF d = 0 THEN Taken(len, c, units)
                            ELSE Taken(Split(len, c, d), c + d, units))
<1> DEFINE B == DOMAIN len
<1>1. \A s \in B : s \in Word /\ len[s] \in 1 .. PageUnits /\ s + len[s] <= PageUnits
  BY ReadListed
<1>2. \A s, e \in B : s < e => s + len[s] < e
  BY DEF Coalesced
<1>3. /\ PageUnits \in Int /\ c \in Int /\ d \in Int /\ 0 <= d /\ d < len[c]
      /\ units \in Int /\ 1 <= units /\ units <= len[c] - d
      /\ c \in B /\ \A s \in B : s \in Int /\ 0 <= s /\ len[s] \in Int /\ 1 <= len[s] /\ s + len[s] <= PageUnits
  BY <1>1, PageUnitsAssumption DEF Word
<1>4. CASE d = 0
  <2> DEFINE len2 == Taken(len, c, units)
             B2 == DOMAIN len2
  <2>1. /\ B2 = (B \ {c}) \cup (IF len[c] > units THEN {c + units} ELSE {})
        /\ \A s \in B2 : len2[s] = IF s = c + units /\ len[c] > units THEN len[c] - units ELSE len[s]
    BY DEF Taken
  <2> HIDE DEF len2, B2, B
  <2>2. \A s, e \in B2 : s < e => s + len2[s] < e
    BY ONLY <1>2, <1>3, <2>1
  <2> QED BY <1>4, <2>2 DEF Coalesced, len2, B2
<1>5. CASE d # 0
  <2> DEFINE len1 == Split(len, c, d)
             B1 == DOMAIN len1
             len2 == Taken(len1, c + d, units)
             B2 == DOMAIN len2
  <2>1. B1 = B \cup {c + d}
        /\ \A s \in B1 : len1[s] = IF s = c THEN d ELSE IF s = c + d THEN len[c] - d ELSE len[s]
    BY DEF Split
  <2>2. /\ B2 = (B1 \ {c + d}) \cup (IF len1[c + d] > units THEN {c + d + units} ELSE {})
        /\ \A s \in B2 : len2[s] = IF s = c + d + units /\ len1[c + d] > units
                                   THEN len1[c + d] - units ELSE len1[s]
    BY DEF Taken
  <2> HIDE DEF len1, B1, len2, B2, B
  <2>3. len1[c + d] = len[c] - d /\ \A s \in B \ {c} : s # c + d
    BY ONLY <1>2, <1>3, <1>5, <2>1
  <2>4. ASSUME NEW s \in B2
        PROVE  \/ s \in B \ {c} /\ len2[s] = len[s]
               \/ s = c /\ len2[s] = d
               \/ s = c + d + units /\ len[c] - d > units /\ len2[s] = len[c] - d - units
    <3>1. CASE s = c + d + units /\ len1[c + d] > units
      BY ONLY <3>1, <1>3, <2>2, <2>3, s \in B2
    <3>2. CASE s \in B1 \ {c + d} /\ ~(s = c + d + units /\ len1[c + d] > units)
      BY ONLY <3>2, <1>3, <2>1, <2>2, <2>3, s \in B2
    <3> QED BY <3>1, <3>2, <2>2
  <2>5. \A s, e \in B2 : s < e => s + len2[s] < e
    BY ONLY <1>2, <1>3, <1>5, <2>4
  <2>6. Coalesced(len2)
    BY <2>5 DEF Coalesced, B2
  <2> QED BY <1>5, <2>6 DEF len2, len1
<1> QED BY <1>4, <1>5

\* The words F are free in the page: they are counted in its units, and its free
\* list has them, as blocks that do not touch.
FreeIs(pg, F) ==
  /\ pg \in SlobPageType
  /\ F \subseteq Word
  /\ pg.units = Cardinality(F)
  /\ F # {} => \E len : Listed(pg, len) /\ Coalesced(len) /\ Covered(len) = F

\* How many words there are in an extent, and in a page.
LEMMA CountWords ==
  ASSUME NEW off \in Int, NEW n \in Nat
  PROVE  /\ IsFiniteSet(Extent(off, n)) /\ Cardinality(Extent(off, n)) = n
         /\ IsFiniteSet(Word) /\ Cardinality(Word) = PageUnits
         /\ \A S \in SUBSET Word : IsFiniteSet(S) /\ Cardinality(S) \in 0 .. PageUnits
<1>1. IsFiniteSet(Extent(off, n)) /\ Cardinality(Extent(off, n)) = n
  BY FS_Interval, off + n - 1 \in Int DEF Extent
<1>2. IsFiniteSet(Word) /\ Cardinality(Word) = PageUnits
  BY FS_Interval, PageUnitsAssumption, PageUnits - 1 \in Int DEF Word
<1>3. \A S \in SUBSET Word : IsFiniteSet(S) /\ Cardinality(S) \in Nat /\ Cardinality(S) <= PageUnits
  BY <1>2, FS_Subset, FS_CardinalityType
<1> QED BY <1>1, <1>2, <1>3, PageUnitsAssumption

\* The number of units for some bytes.
LEMMA UnitsOfBytes ==
  ASSUME NEW size \in Nat
  PROVE  /\ SLOB_UNITS(size) \in Nat
         /\ size > 0 => SLOB_UNITS(size) > 0
         /\ size <= SLOB_UNITS(size) * SLOB_UNIT /\ SLOB_UNITS(size) * SLOB_UNIT <= size + 1
         /\ size % 2 = 0 => SLOB_UNITS(size) * SLOB_UNIT = size
         /\ SLOB_UNITS(size) <= PageUnits <=> size <= PageUnits * SLOB_UNIT
BY PageUnitsAssumption DEF SLOB_UNITS, SLOB_UNIT

\* AlignDelta skips to a multiple of the alignment, and nothing at the start of
\* the page.
LEMMA DeltaAligns ==
  ASSUME NEW cur \in Nat, NEW align \in Nat
  PROVE  /\ AlignDelta(cur, align) \in Nat
         /\ AlignDelta(0, align) = 0
         /\ align > 0 /\ align % 2 = 0 => ((cur + AlignDelta(cur, align)) * SLOB_UNIT) % align = 0
<1>1. CASE align = 0
  BY <1>1 DEF AlignDelta
<1>2. CASE align > 0
  <2> DEFINE a == SLOB_UNITS(align)
             q == (cur + a - 1) \div a
  <2>1. a \in Nat /\ a > 0
    BY <1>2, UnitsOfBytes
  <2>2. AlignDelta(cur, align) = q * a - cur /\ AlignDelta(0, align) = ((0 + a - 1) \div a) * a - 0
    BY <1>2 DEF AlignDelta
  <2> HIDE DEF a
  <2>3. q \in Int /\ q * a \in Int /\ q * a >= cur
    BY <2>1
  <2>4. (0 + a - 1) \div a = 0
    BY <2>1
  <2>5. AlignDelta(cur, align) \in Nat /\ AlignDelta(0, align) = 0
    BY <2>1, <2>2, <2>3, <2>4
  <2> HIDE DEF q
  <2>6. ASSUME align % 2 = 0 PROVE ((cur + AlignDelta(cur, align)) * SLOB_UNIT) % align = 0
    <3>1. cur + AlignDelta(cur, align) = q * a
      BY <2>2, <2>3
    <3>2. a * 2 = align
      BY <2>6, UnitsOfBytes, Zenon DEF a, SLOB_UNIT
    <3>3. (q * a) * 2 = q * align
      <4>1. \A x \in Nat : x * 2 = align => (q * x) * 2 = q * align
        BY <2>3
      <4> QED BY <4>1, <3>2, <2>1
    <3>4. (q * align) % align = 0
      BY <1>2, <2>3
    <3> QED BY <3>1, <3>3, <3>4 DEF SLOB_UNIT
  <2> QED BY <2>5, <2>6
<1> QED BY <1>1, <1>2

\* The word off is at a multiple of align bytes, if align is even.
AlignedTo(off, align) == align > 0 /\ align % 2 = 0 => (off * SLOB_UNIT) % align = 0

\* Of the page pg only the words F, the units and the list are changed in q.
OnlyIn(F, pg, q) ==
  /\ \A i \in Word \ F : q.words[i] = pg.words[i]
  /\ q.slab = pg.slab /\ q.free = pg.free

\* slob_page_alloc hands out words that were free and makes them not free, keeps
\* the free list coalesced and the units exact, writes to free words only, and
\* the block it returns is aligned.
THEOREM AllocFromPage ==
  ASSUME NEW pg, NEW F, FreeIs(pg, F), F # {},
         NEW size \in Nat \ {0}, NEW align \in Nat,
         NEW r, r = slob_page_alloc(pg, size, align), r.block # NoBlock
  PROVE  /\ r.block \in Word
         /\ Extent(r.block, SLOB_UNITS(size)) \subseteq F
         /\ FreeIs(r.page, F \ Extent(r.block, SLOB_UNITS(size)))
         /\ OnlyIn(F, pg, r.page)
         /\ AlignedTo(r.block, align)
<1> DEFINE units == SLOB_UNITS(size)
           fit == FirstFit(pg, units, align)
           c == fit.cur
           d == AlignDelta(c, align)
           split == [pg EXCEPT !.words = SplitHead(@, c, d)]
           prev == IF d = 0 THEN fit.prev ELSE c
           off == c + d
           G == F \ Extent(off, units)
<1>1. PICK len : Listed(pg, len) /\ Coalesced(len) /\ Covered(len) = F
  BY DEF FreeIs
<1>2. pg \in SlobPageType /\ F \subseteq Word /\ pg.units = Cardinality(F)
  BY DEF FreeIs
<1>3. units \in Nat /\ units > 0
  BY UnitsOfBytes
<1> HIDE DEF units
<1>4. /\ c # NoBlock
      /\ r.block = off
      /\ r.page = TakeUnits(split, prev, off, units)
  BY DEF slob_page_alloc, units
<1>5. /\ c \in DOMAIN len
      /\ Fits(pg.words, c, units, align)
      /\ \/ fit.prev = NoBlock /\ c = pg.freelist
         \/ fit.prev \in DOMAIN len /\ slob_next(pg.words, fit.prev) = c
  BY <1>1, <1>3, <1>4, FirstFitListed
<1> HIDE DEF fit
<1>6. c \in Nat /\ c \in Word /\ len[c] \in 1 .. PageUnits /\ slob_units(pg.words, c) = len[c]
      /\ c + len[c] <= PageUnits
  BY <1>1, <1>5, ReadListed, PageUnitsAssumption DEF Word
<1> HIDE DEF c
<1>7. d \in Nat /\ AlignedTo(off, align)
  BY <1>6, DeltaAligns DEF AlignedTo
<1>8. len[c] >= units + d
  BY <1>5, <1>6 DEF Fits
<1> HIDE DEF d
<1> DEFINE len1 == IF d = 0 THEN len ELSE Split(len, c, d)
           len2 == Taken(len1, off, units)
<1>9. /\ split \in SlobPageType /\ Listed(split, len1) /\ Covered(len1) = F
      /\ off \in DOMAIN len1 /\ units \in 1 .. len1[off]
      /\ \/ prev = NoBlock /\ off = split.freelist
         \/ prev \in DOMAIN len1 /\ slob_next(split.words, prev) = off
      /\ \A i \in Word \ F : split.words[i] = pg.words[i]
  <2>1. CASE d = 0
    <3>1. split = pg
      BY <2>1, <1>2 DEF SplitHead, SlobPageType
    <3>2. off = c /\ prev = fit.prev /\ len1 = len
      BY <2>1, <1>6
    <3> HIDE DEF split, off, prev, len1
    <3> QED BY <2>1, <3>1, <3>2, <1>1, <1>2, <1>3, <1>5, <1>6, <1>8
  <2>2. CASE d # 0
    <3>1. d \in 1 .. len[c] - 1
      BY <2>2, <1>3, <1>6, <1>7, <1>8
    <3>2. /\ split \in SlobPageType
          /\ Listed(split, Split(len, c, d))
          /\ slob_next(split.words, c) = c + d
          /\ \A i \in Word \ Covered(len) : split.words[i] = pg.words[i]
      <4>1. split.words = SplitHead(pg.words, c, d) /\ split.freelist = pg.freelist
        BY <1>2 DEF SlobPageType
      <4>2. pg \in SlobPageType /\ Listed(pg, len) /\ c \in DOMAIN len
        BY <1>1, <1>2, <1>5
      <4>3. split \in SlobPageType
        <5>1. split.words \in [Word -> Int]
          <6> HIDE DEF split
          <6> QED BY ONLY <3>1, <4>1, <4>2, SplitHeadListed DEF Listed
        <5> QED BY <4>1, <4>2, <5>1 DEF SlobPageType
      <4> HIDE DEF split
      <4> QED BY ONLY <3>1, <4>1, <4>2, <4>3, SplitHeadListed
    <3>3. Covered(Split(len, c, d)) = Covered(len)
      BY <3>1, <1>1, <1>5, CoveredSplit
    <3>4. /\ DOMAIN Split(len, c, d) = DOMAIN len \cup {c + d}
          /\ c + d # c => Split(len, c, d)[c + d] = len[c] - d
      BY DEF Split
    <3>5. c + d # c /\ units \in 1 .. len[c] - d
      BY <3>1, <1>3, <1>6, <1>8
    <3>6. prev = c /\ len1 = Split(len, c, d)
      BY <2>2
    <3> HIDE DEF split, prev, len1
    <3> QED BY <3>2, <3>3, <3>4, <3>5, <3>6, <1>1, <1>5
  <2> QED BY <2>1, <2>2
<1>10. Coalesced(len2)
  <2>1. d \in 0 .. len[c] - 1 /\ units \in 1 .. len[c] - d
    BY <1>3, <1>6, <1>7, <1>8
  <2>2. Coalesced(IF d = 0 THEN Taken(len, c, units) ELSE Taken(Split(len, c, d), c + d, units))
    BY <2>1, <1>1, <1>5, CoalescedTaken
  <2>3. d = 0 => c + d = c
    BY <1>6
  <2> QED BY <2>2, <2>3
<1> HIDE DEF split, prev, len1
<1>11. /\ r.page.words \in [Word -> Int] /\ r.page.freelist \in 0 .. PageUnits
       /\ DOMAIN len2 # {} => Listed(r.page, len2)
       /\ \A i \in Word \ F : r.page.words[i] = split.words[i]
  <2> HIDE DEF off
  <2> QED BY <1>4, <1>9, TakeUnitsListed
<1>12. /\ Extent(off, units) \subseteq F
       /\ Covered(len2) = G
       /\ DOMAIN len2 = {} => F = Extent(off, units)
  <2> HIDE DEF off
  <2> QED BY <1>9, CoveredTaken
<1> HIDE DEF len2
<1>13. off \in Word
  BY <1>3, <1>6, <1>7, <1>8, PageUnitsAssumption DEF Word
<1>14. Cardinality(G) = pg.units - units /\ Cardinality(G) \in 0 .. PageUnits
  <2>1. IsFiniteSet(F) /\ Cardinality(Extent(off, units)) = units
    BY <1>2, <1>3, <1>13, CountWords, PageUnitsAssumption DEF Word
  <2>2. F \cap Extent(off, units) = Extent(off, units)
    BY <1>12
  <2>3. Cardinality(G) \in 0 .. PageUnits
    BY <1>2, CountWords, 0 \in Int, 0 \in Nat
  <2>4. Cardinality(G) = Cardinality(F) - Cardinality(F \cap Extent(off, units))
    <3> HIDE DEF off
    <3> QED BY ONLY <2>1, FS_Difference, Zenon DEF G
  <2> HIDE DEF G, off
  <2> QED BY ONLY <2>1, <2>2, <2>3, <2>4, <1>2, Zenon
<1>15. /\ r.page = [split EXCEPT !.words = r.page.words, !.freelist = r.page.freelist,
                                 !.units = pg.units - units]
       /\ split.slab = pg.slab /\ split.free = pg.free
  <2>1. split.units = pg.units /\ split.slab = pg.slab /\ split.free = pg.free
    BY <1>2 DEF split, SlobPageType
  <2> QED BY <1>4, <1>9, <2>1 DEF TakeUnits, SlobPageType
<1>16. r.page \in SlobPageType /\ r.page.units = Cardinality(G)
       /\ r.page.slab = pg.slab /\ r.page.free = pg.free
  <2>1. split \in SlobPageType /\ pg.units - units \in 0 .. PageUnits
    BY <1>9, <1>14
  <2> HIDE DEF off, G
  <2> QED BY ONLY <2>1, <1>11, <1>14, <1>15, Zenon DEF SlobPageType
<1>17. FreeIs(r.page, G)
  <2>1. G # {} => DOMAIN len2 # {}
    BY <1>12, Zenon
  <2>2. G \subseteq Word
    BY <1>2
  <2> QED BY <2>1, <2>2, <1>10, <1>11, <1>12, <1>16 DEF FreeIs
<1>18. OnlyIn(F, pg, r.page)
  BY <1>9, <1>11, <1>16 DEF OnlyIn
<1> QED BY <1>4, <1>7, <1>12, <1>13, <1>17, <1>18 DEF units

-----------------------------------------------------------------------------
(* slob_free, inside the page. *)

\* The words from b on, units of them, are in no block of the list.
Outside(len, b, units) ==
  /\ b \in Word /\ units \in 1 .. PageUnits /\ b + units <= PageUnits
  /\ \A s \in DOMAIN len : s + len[s] <= b \/ b + units <= s

\* The blocks after those words have been returned: joined with the block that
\* starts behind them and with the one that ends before them, if there are such.
Returned(len, b, units) ==
  LET e == IF b + units \in DOMAIN len THEN units + len[b + units] ELSE units
  IN  [s \in (DOMAIN len \ {b + units}) \cup
             (IF \E p \in DOMAIN len : p + len[p] = b THEN {} ELSE {b}) |->
         IF s = b THEN e ELSE IF s + len[s] = b THEN len[s] + e ELSE len[s]]

\* The words are then free, with those that were, and no two blocks touch.
LEMMA CoveredReturned ==
  ASSUME NEW pg, NEW len, Listed(pg, len), Coalesced(len), NEW b, NEW units,
         Outside(len, b, units)
  PROVE  /\ Covered(Returned(len, b, units)) = Covered(len) \cup Extent(b, units)
         /\ Coalesced(Returned(len, b, units))
<1> DEFINE B == DOMAIN len
           e == IF b + units \in B THEN units + len[b + units] ELSE units
           len2 == Returned(len, b, units)
           B2 == DOMAIN len2
<1>1. \A s \in B : s \in Word /\ len[s] \in 1 .. PageUnits /\ s + len[s] <= PageUnits
  BY ReadListed
<1>2. \A s, c \in B : s < c => s + len[s] < c
  BY DEF Coalesced
<1>3. /\ PageUnits \in Int /\ b \in Int /\ 0 <= b /\ units \in Int /\ 1 <= units /\ b + units <= PageUnits
      /\ \A s \in B : s \in Int /\ 0 <= s /\ len[s] \in Int /\ 1 <= len[s] /\ s + len[s] <= PageUnits
      /\ \A s \in B : s + len[s] <= b \/ b + units <= s
  BY <1>1, PageUnitsAssumption DEF Word, Outside
<1>4. /\ B2 = (B \ {b + units}) \cup (IF \E p \in B : p + len[p] = b THEN {} ELSE {b})
      /\ \A s \in B2 : len2[s] = IF s = b THEN e ELSE IF s + len[s] = b THEN len[s] + e ELSE len[s]
  BY DEF Returned
<1>5. \A i : i \in Covered(len) <=> i \in Word /\ \E s \in B : s <= i /\ i < s + len[s]
  BY DEF Covered
<1>6. \A i : i \in Covered(len2) <=> i \in Word /\ \E s \in B2 : s <= i /\ i < s + len2[s]
  BY DEF Covered
<1>7. \A i \in Word : i \in Int
  BY PageUnitsAssumption DEF Word
<1>8. \A i : i \in Extent(b, units) <=> i \in Word /\ b <= i /\ i < b + units
  BY ONLY <1>3 DEF Extent, Word
<1>9. /\ b + units \in B => e = units + len[b + units]
      /\ b + units \notin B => e = units
      /\ e \in Int /\ units <= e /\ b + e <= PageUnits
  BY <1>3
<1> HIDE DEF len2, B2, B, e
<1>10. b \notin B /\ \A s \in B : b < s => b + units <= s
  BY ONLY <1>3
<1>11. /\ \A s \in B \ {b + units} : s \in B2 /\ len2[s] = IF s + len[s] = b THEN len[s] + e ELSE len[s]
       /\ \A s \in B2 : s \in B \ {b + units} \/ (s = b /\ len2[b] = e /\ \A p \in B : p + len[p] # b)
       /\ (\A p \in B : p + len[p] # b) => b \in B2 /\ len2[b] = e
  BY ONLY <1>4, <1>10
<1>12. \A s \in B : s + len[s] = b => s \in B \ {b + units}
  BY ONLY <1>3
<1>13. \A i \in Word : b <= i /\ i < b + e => i \in Covered(len2)
  <2> SUFFICES ASSUME NEW i \in Word, b <= i, i < b + e PROVE i \in Covered(len2)
    OBVIOUS
  <2>1. CASE \A p \in B : p + len[p] # b
    BY <2>1, <1>6, <1>11
  <2>2. CASE \E p \in B : p + len[p] = b
    <3>1. PICK p \in B : p + len[p] = b
      BY <2>2
    <3>2. p \in B2 /\ len2[p] = len[p] + e
      BY <3>1, <1>11, <1>12
    <3>3. p <= i /\ i < p + len2[p]
      BY ONLY <3>1, <3>2, <1>3, <1>7, <1>9, b <= i, i < b + e, i \in Word
    <3> QED BY <3>2, <3>3, <1>6
  <2> QED BY <2>1, <2>2
<1>14. ASSUME NEW i \in Covered(len) PROVE i \in Covered(len2)
  <2>1. i \in Word /\ i \in Int
    BY ONLY <1>5, <1>7, <1>14
  <2>2. PICK s \in B : s <= i /\ i < s + len[s]
    BY <1>5
  <2>3. CASE s = b + units
    <3>1. b <= i /\ i < b + e
      BY ONLY <2>1, <2>2, <2>3, <1>3, <1>9
    <3> QED BY <2>1, <3>1, <1>13
  <2>4. CASE s # b + units
    <3>1. s \in B2 /\ len[s] <= len2[s] /\ len2[s] \in Int
      BY ONLY <2>4, <1>3, <1>9, <1>11, s \in B
    <3>2. s <= i /\ i < s + len2[s]
      BY ONLY <3>1, <2>1, <2>2, <1>3, s \in B
    <3> QED BY <2>1, <3>1, <3>2, <1>6
  <2> QED BY <2>3, <2>4
<1>15. Extent(b, units) \subseteq Covered(len2)
  BY ONLY <1>3, <1>7, <1>8, <1>9, <1>13
<1>16. \A i \in Word : b <= i /\ i < b + e => i \in Covered(len) \cup Extent(b, units)
  <2> SUFFICES ASSUME NEW i \in Word, b <= i, i < b + e PROVE i \in Covered(len) \cup Extent(b, units)
    OBVIOUS
  <2>1. CASE i < b + units
    BY <2>1, <1>8
  <2>2. CASE ~(i < b + units)
    <3>1. b + units \in B /\ b + units <= i /\ i < (b + units) + len[b + units]
      BY ONLY <2>2, <1>3, <1>7, <1>9, b <= i, i < b + e, i \in Word
    <3> QED BY <3>1, <1>5
  <2> QED BY <2>1, <2>2
<1>17. ASSUME NEW i \in Covered(len2) PROVE i \in Covered(len) \cup Extent(b, units)
  <2>1. i \in Word /\ i \in Int
    BY ONLY <1>6, <1>7, <1>17
  <2>2. PICK s \in B2 : s <= i /\ i < s + len2[s]
    BY <1>6
  <2>3. CASE s = b /\ len2[b] = e
    BY <2>1, <2>2, <2>3, <1>16
  <2>4. CASE s \in B \ {b + units}
    <3>1. CASE i < s + len[s]
      BY <3>1, <2>1, <2>2, <2>4, <1>5
    <3>2. CASE ~(i < s + len[s])
      <4>1. s + len[s] = b /\ b <= i /\ i < b + e
        BY ONLY <3>2, <2>1, <2>2, <2>4, <1>3, <1>9, <1>11
      <4> QED BY <4>1, <2>1, <1>16
    <3> QED BY <3>1, <3>2
  <2> QED BY <1>11, <2>3, <2>4
<1>18. \A s, c \in B2 : s < c => s + len2[s] < c
  <2>1. \A s \in B \ {b + units} : s < b \/ b + e < s
    BY ONLY <1>2, <1>3, <1>9, <1>10
  <2> SUFFICES ASSUME NEW s \in B2, NEW c \in B2, s < c PROVE s + len2[s] < c
    OBVIOUS
  <2>2. CASE s \in B /\ c \in B
    BY ONLY <2>1, <2>2, <1>2, <1>3, <1>9, <1>11, s \in B2, c \in B2, s < c
  <2>3. CASE s = b /\ len2[b] = e /\ c \in B
    BY ONLY <2>1, <2>3, <1>3, <1>9, <1>11, s \in B2, c \in B2, s < c
  <2>4. CASE s \in B /\ c = b /\ \A p \in B : p + len[p] # b
    BY ONLY <2>1, <2>4, <1>3, <1>9, <1>11, s \in B2, c \in B2, s < c
  <2> QED BY <1>3, <1>11, <2>2, <2>3, <2>4
<1>19. Covered(len2) = Covered(len) \cup Extent(b, units)
  BY <1>14, <1>15, <1>17
<1> QED BY <1>18, <1>19 DEF Coalesced, len2, B2

\* InsertFirst returns the words before all the blocks of the list.
LEMMA InsertFirstListed ==
  ASSUME NEW pg \in SlobPageType, NEW len, Listed(pg, len), NEW b, NEW units,
         Outside(len, b, units), b < pg.freelist,
         NEW r, r = InsertFirst(pg, b, units)
  PROVE  /\ r.freelist = b
         /\ Listed(r, Returned(len, b, units))
         /\ \A i \in Word \ (Covered(len) \cup Extent(b, units)) : r.words[i] = pg.words[i]
<1> DEFINE w == pg.words
           B == DOMAIN len
           f == pg.freelist
           e == IF b + units = f THEN units + len[f] ELSE units
           n == IF b + units = f THEN slob_next(w, f) ELSE f
           v == set_slob(w, b, e, n)
           len2 == Returned(len, b, units)
           B2 == DOMAIN len2
<1>1. w \in [Word -> Int] /\ B \subseteq Word /\ f \in B /\ \A s \in B : f <= s
  BY DEF Listed, Encoded
<1>2. \A s \in B : /\ s \in Word /\ len[s] \in 1 .. PageUnits /\ s + len[s] <= PageUnits
                   /\ slob_units(w, s) = len[s]
                   /\ slob_next(w, s) \in 1 .. PageUnits
                   /\ FreeAt(w, s, len[s], slob_next(w, s))
                   /\ Follows(B, s, slob_next(w, s))
  BY ReadListed
<1>3. \A s, c \in B : s < c => s + len[s] <= c
  BY DEF Listed, Encoded
<1>4. /\ PageUnits \in Int /\ b \in Int /\ 0 <= b /\ units \in Int /\ 1 <= units /\ b + units <= PageUnits
      /\ \A s \in B : s \in Int /\ 0 <= s /\ len[s] \in Int /\ 1 <= len[s] /\ s + len[s] <= PageUnits
      /\ \A s \in B : s + len[s] <= b \/ b + units <= s
  BY <1>2, PageUnitsAssumption DEF Word, Outside
<1>5. r.words = v /\ r.freelist = b
  BY <1>1, <1>2 DEF InsertFirst, SlobPageType
<1>6. \A s \in B : b < s /\ b + units <= s
  <2>1. b < f
    OBVIOUS
  <2> HIDE DEF f, B
  <2> QED BY ONLY <2>1, <1>1, <1>4
<1>7. /\ B2 = (B \ {b + units}) \cup (IF \E p \in B : p + len[p] = b THEN {} ELSE {b})
      /\ \A s \in B2 : len2[s] = IF s = b THEN (IF b + units \in B THEN units + len[b + units] ELSE units)
                                 ELSE IF s + len[s] = b THEN len[s] + (IF b + units \in B THEN units + len[b + units] ELSE units)
                                 ELSE len[s]
  BY DEF Returned
<1>8. /\ b + units = f => e = units + len[f] /\ n = slob_next(w, f)
      /\ b + units # f => e = units /\ n = f
      /\ n \in 1 .. PageUnits /\ b + e <= PageUnits /\ e \in Int /\ 1 <= e
  <2>1. slob_next(w, f) \in 1 .. PageUnits
    BY <1>1, <1>2
  <2> QED BY <2>1, <1>1, <1>4, <1>6
<1> HIDE DEF f, w, B, len2, B2, e, n
<1>9. b + units \in B => b + units = f
  BY ONLY <1>1, <1>4, <1>6
<1>10. \A p \in B : p + len[p] # b
  BY ONLY <1>4, <1>6
<1>11. B2 = (B \ {b + units}) \cup {b}
  BY ONLY <1>7, <1>10
<1>12. len2[b] = e /\ \A s \in B \ {b + units} : len2[s] = len[s]
  BY ONLY <1>1, <1>6, <1>7, <1>8, <1>9, <1>10, <1>11, <1>4
<1>13. FreeBlock(b, e, n)
  BY <1>4, <1>8 DEF FreeBlock, Word
<1>14. /\ \A s \in B \ {b + units} : b + e <= s
       /\ Follows(B2, b, n)
  <2>1. CASE b + units = f
    <3>1. Follows(B, f, n) /\ n \in Int
      BY <2>1, <1>1, <1>2, <1>8
    <3> QED BY ONLY <2>1, <3>1, <1>1, <1>3, <1>4, <1>6, <1>8, <1>11 DEF Follows
  <2>2. CASE b + units # f
    BY ONLY <2>2, <1>1, <1>4, <1>6, <1>8, <1>9, <1>11 DEF Follows
  <2> QED BY <2>1, <2>2
<1>15. v \in [Word -> Int] /\ FreeAt(v, b, e, n)
       /\ \A i \in Word \ Extent(b, e) : v[i] = w[i]
  BY <1>1, <1>13, WriteBlock
<1>16. \A s \in B \ {b + units} : FreeAt(v, s, len[s], slob_next(w, s))
  BY <1>1, <1>2, <1>13, <1>14, OtherBlock
<1>17. ASSUME NEW s \in B \ {b + units} PROVE Follows(B2, s, slob_next(w, s))
  <2>1. Follows(B, s, slob_next(w, s)) /\ slob_next(w, s) \in Int
    BY <1>2
  <2>2. slob_next(w, s) # b + units
    BY ONLY <2>1, <1>1, <1>4, <1>6, <1>9, s \in B DEF Follows
  <2> QED BY ONLY <2>1, <2>2, <1>4, <1>6, <1>11, s \in B \ {b + units} DEF Follows
<1>18. Encoded(v, len2)
  <2>1. ASSUME NEW s \in B2
        PROVE  \E x \in 1 .. PageUnits : FreeAt(v, s, len2[s], x) /\ Follows(B2, s, x)
    <3>1. CASE s = b
      BY <3>1, <1>8, <1>12, <1>14, <1>15
    <3>2. CASE s \in B \ {b + units}
      BY <3>2, <1>2, <1>12, <1>16, <1>17
    <3> QED BY <1>11, <3>1, <3>2
  <2>2. \A s, c \in B2 : s < c => s + len2[s] <= c
    BY ONLY <1>3, <1>4, <1>6, <1>8, <1>11, <1>12, <1>14
  <2>3. B2 \subseteq Word
    BY <1>1, <1>11 DEF Outside
  <2> QED BY <2>1, <2>2, <2>3 DEF Encoded, B2
<1>19. \A i \in Extent(b, e) : i \in Covered(len) \cup Extent(b, units)
  <2> SUFFICES ASSUME NEW i \in Extent(b, e), i \notin Extent(b, units) PROVE i \in Covered(len)
    OBVIOUS
  <2>1. i \in Int /\ b <= i /\ i < b + e /\ ~(i < b + units)
    BY ONLY <1>4, <1>8, i \in Extent(b, e), i \notin Extent(b, units) DEF Extent
  <2>2. b + units = f /\ f <= i /\ i < f + len[f] /\ i \in Word
    BY ONLY <2>1, <1>1, <1>4, <1>8 DEF Word
  <2> QED BY ONLY <2>2, <1>1 DEF Covered, B
<1>20. b \in B2 /\ \A s \in B2 : b <= s
  BY ONLY <1>4, <1>6, <1>11
<1> HIDE DEF v
<1>21. Listed(r, len2)
  BY <1>5, <1>15, <1>18, <1>20 DEF Listed, B2
<1>22. \A i \in Word \ (Covered(len) \cup Extent(b, units)) : r.words[i] = pg.words[i]
  BY <1>5, <1>15, <1>19 DEF w
<1> QED BY <1>5, <1>21, <1>22 DEF len2

\* InsertAfter returns the words behind a block of the list.
LEMMA InsertAfterListed ==
  ASSUME NEW pg \in SlobPageType, NEW len, Listed(pg, len), NEW b, NEW units,
         Outside(len, b, units), ~(b < pg.freelist),
         NEW r, r = InsertAfter(pg, b, units)
  PROVE  /\ r.freelist = pg.freelist
         /\ Listed(r, Returned(len, b, units))
         /\ \A i \in Word \ (Covered(len) \cup Extent(b, units)) : r.words[i] = pg.words[i]
<1> DEFINE w == pg.words
           B == DOMAIN len
           prev == Predecessor(pg, b)
           x == slob_next(w, prev)
           J == x # PageUnits /\ b + units = x
           e == IF J THEN units + len[x] ELSE units
           n == IF J THEN slob_next(w, x) ELSE x
           v == set_slob(w, b, e, n)
           touch == prev + len[prev] = b
           u == IF touch THEN set_slob(v, prev, e + len[prev], n)
                         ELSE set_slob(v, prev, len[prev], b)
           M == B \ {b + units}
           len2 == Returned(len, b, units)
           B2 == DOMAIN len2
<1>1. w \in [Word -> Int] /\ B \subseteq Word /\ pg.freelist \in B /\ \A s \in B : pg.freelist <= s
  BY DEF Listed, Encoded
<1>2. \A s \in B : /\ s \in Word /\ len[s] \in 1 .. PageUnits /\ s + len[s] <= PageUnits
                   /\ slob_units(w, s) = len[s]
                   /\ slob_next(w, s) \in 1 .. PageUnits
                   /\ FreeAt(w, s, len[s], slob_next(w, s))
                   /\ Follows(B, s, slob_next(w, s))
                   /\ slob_last(w, s) <=> slob_next(w, s) = PageUnits
  BY ReadListed
<1>3. \A s, c \in B : s < c => s + len[s] <= c
  BY DEF Listed, Encoded
<1>4. /\ PageUnits \in Int /\ b \in Int /\ 0 <= b /\ units \in Int /\ 1 <= units /\ b + units <= PageUnits
      /\ \A s \in B : s \in Int /\ 0 <= s /\ len[s] \in Int /\ 1 <= len[s] /\ s + len[s] <= PageUnits
      /\ \A s \in B : s + len[s] <= b \/ b + units <= s
  BY <1>2, PageUnitsAssumption DEF Word, Outside
<1>5. prev \in B /\ prev < b /\ b <= x
  <2>1. b \notin B
    BY ONLY <1>4
  <2>2. b \in Word /\ pg.freelist <= b
    BY <1>1, <1>4 DEF Outside
  <2> QED BY <2>1, <2>2, PredecessorListed
<1>6. r = [pg EXCEPT !.words =
             LET w1 == IF ~slob_last(w, prev) /\ b + units = x
                       THEN set_slob(w, b, units + slob_units(w, x), slob_next(w, x))
                       ELSE set_slob(w, b, units, x)
             IN  IF prev + slob_units(w1, prev) = b
                 THEN set_slob(w1, prev, slob_units(w1, b) + slob_units(w1, prev), slob_next(w1, b))
                 ELSE set_slob(w1, prev, slob_units(w1, prev), b)]
  BY DEF InsertAfter
<1>7. x \in 1 .. PageUnits /\ Follows(B, prev, x) /\ (slob_last(w, prev) <=> x = PageUnits)
  BY <1>2, <1>5
<1> HIDE DEF w, prev, x
<1>8. x # PageUnits => x \in B /\ slob_units(w, x) = len[x] /\ slob_next(w, x) \in 1 .. PageUnits /\ Follows(B, x, slob_next(w, x))
  BY <1>2, <1>7 DEF Follows
<1>9. /\ J => e = units + len[x] /\ n = slob_next(w, x)
      /\ ~J => e = units /\ n = x
      /\ n \in 1 .. PageUnits /\ b + e <= PageUnits /\ e \in Int /\ 1 <= e
  BY <1>4, <1>7, <1>8
<1>10. v = IF ~slob_last(w, prev) /\ b + units = x
           THEN set_slob(w, b, units + slob_units(w, x), slob_next(w, x))
           ELSE set_slob(w, b, units, x)
  BY <1>7, <1>8
<1>11. J <=> b + units \in B
  <2>1. x # PageUnits => b + units <= x
    BY ONLY <1>4, <1>5, <1>7, <1>8
  <2> HIDE DEF B
  <2> QED BY ONLY <2>1, <1>4, <1>5, <1>7, <1>8 DEF Follows, J
<1>12. /\ B2 = (B \ {b + units}) \cup (IF \E p \in B : p + len[p] = b THEN {} ELSE {b})
       /\ \A s \in B2 : len2[s] = IF s = b THEN (IF b + units \in B THEN units + len[b + units] ELSE units)
                                  ELSE IF s + len[s] = b THEN len[s] + (IF b + units \in B THEN units + len[b + units] ELSE units)
                                  ELSE len[s]
  BY DEF Returned
<1>13. e = IF b + units \in B THEN units + len[b + units] ELSE units
  BY <1>9, <1>11
<1>14. FreeBlock(b, e, n)
  BY <1>4, <1>9 DEF FreeBlock, Word
<1>15. prev \in M /\ prev + len[prev] <= b
  BY ONLY <1>4, <1>5
<1>16. b < n /\ (n # PageUnits => n \in M) /\ \A s \in M : s <= prev \/ n <= s
  <2>1. CASE J
    <3>1. n = slob_next(w, x) /\ x \in B /\ Follows(B, x, n) /\ x = b + units
      BY <2>1, <1>8, <1>9
    <3> HIDE DEF B, J, n
    <3> QED BY ONLY <3>1, <1>3, <1>4, <1>5, <1>7, <1>9 DEF Follows, M
  <2>2. CASE ~J
    <3>1. n = x /\ b + units \notin B
      BY <2>2, <1>9, <1>11
    <3>2. b # x
      BY ONLY <1>4, <1>7, <1>5 DEF Follows
    <3> HIDE DEF B, J, n
    <3> QED BY ONLY <3>1, <3>2, <1>4, <1>5, <1>7 DEF Follows, M
  <2> QED BY <2>1, <2>2
<1>17. \A s \in M : s <= prev \/ b + e <= s
  <2>1. CASE J
    <3>1. e = units + len[x] /\ x \in B /\ x = b + units
      BY <2>1, <1>8, <1>9
    <3> HIDE DEF J, e
    <3> QED BY ONLY <3>1, <1>3, <1>4, <1>5, <1>7 DEF Follows
  <2>2. CASE ~J
    <3>1. e = units
      BY <2>2, <1>9
    <3> HIDE DEF J, e
    <3> QED BY ONLY <3>1, <1>3, <1>4, <1>5, <1>7 DEF Follows
  <2> QED BY <2>1, <2>2
<1> HIDE DEF B, J, e, n, v, len2, B2
<1>18. v \in [Word -> Int] /\ FreeAt(v, b, e, n)
       /\ \A i \in Word \ Extent(b, e) : v[i] = w[i]
  BY <1>1, <1>14, WriteBlock DEF v
<1>19. \A s \in M : FreeAt(v, s, len[s], slob_next(w, s))
  <2> TAKE s \in M
  <2>1. s + len[s] <= b \/ b + e <= s
    BY ONLY <1>3, <1>4, <1>15, <1>17, <1>5, s \in M
  <2> QED BY <2>1, <1>1, <1>2, <1>14, OtherBlock DEF v
<1>20. slob_units(v, b) = e /\ slob_next(v, b) = n /\ slob_units(v, prev) = len[prev]
  <2>1. slob_units(v, b) = e /\ slob_next(v, b) = n
    BY <1>18, ReadBlock
  <2>2. slob_units(v, prev) = len[prev]
    BY <1>15, <1>18, <1>19, ReadBlock
  <2> QED BY <2>1, <2>2
<1>21. r.words = u /\ r.freelist = pg.freelist
  BY <1>6, <1>10, <1>20 DEF SlobPageType
<1>22. \A p \in B : p + len[p] = b <=> p = prev /\ touch
  BY ONLY <1>3, <1>4, <1>5, <1>15, <1>7 DEF Follows
<1>23. B2 = M \cup (IF touch THEN {} ELSE {b})
  BY ONLY <1>5, <1>12, <1>22
<1>24. /\ ~touch => len2[b] = e
       /\ len2[prev] = IF touch THEN len[prev] + e ELSE len[prev]
       /\ \A s \in M \ {prev} : len2[s] = len[s]
  <2>1. b \notin B
    BY ONLY <1>4
  <2> QED BY ONLY <2>1, <1>5, <1>12, <1>13, <1>15, <1>22, <1>23
<1>25. ASSUME NEW s \in M \ {prev} PROVE Follows(B2, s, slob_next(w, s))
  <2>1. Follows(B, s, slob_next(w, s)) /\ slob_next(w, s) \in Int
    BY <1>2
  <2>2. slob_next(w, s) # b + units
    BY ONLY <2>1, <1>4, <1>5, <1>7, <1>11, s \in M \ {prev} DEF Follows, J
  <2>3. s < prev \/ b < s
    BY ONLY <1>4, <1>5, <1>9, <1>17, s \in M \ {prev}
  <2> QED BY ONLY <2>1, <2>2, <2>3, <1>4, <1>5, <1>23, s \in M \ {prev} DEF Follows
<1>26. prev \in Int /\ prev < b /\ M \subseteq B /\ M \subseteq Word /\ b \in Word
       /\ len[prev] \in Int /\ 1 <= len[prev] /\ prev \in Word
  BY <1>1, <1>4, <1>5 DEF Outside
<1>27. /\ u \in [Word -> Int]
       /\ \A s \in M \ {prev} : FreeAt(u, s, len[s], slob_next(w, s))
       /\ FreeAt(u, prev, len2[prev], IF touch THEN n ELSE b)
       /\ ~touch => FreeAt(u, b, e, n)
       /\ \A i \in Word \ (Extent(prev, len[prev]) \cup Extent(b, e)) : u[i] = w[i]
  <2>1. CASE touch
    <3>1. FreeBlock(prev, e + len[prev], n)
      <4>1. e + len[prev] \in 1 .. PageUnits /\ prev + (e + len[prev]) <= PageUnits
        BY ONLY <2>1, <1>4, <1>5, <1>9, <1>26
      <4> QED BY ONLY <4>1, <1>9, <1>26 DEF FreeBlock
    <3>2. u = set_slob(v, prev, e + len[prev], n) /\ len2[prev] = e + len[prev]
      BY <2>1, <1>9, <1>24, <1>26
    <3> HIDE DEF u
    <3>3. /\ u \in [Word -> Int] /\ FreeAt(u, prev, e + len[prev], n)
          /\ \A i \in Word \ Extent(prev, e + len[prev]) : u[i] = v[i]
      BY <3>1, <3>2, <1>18, WriteBlock
    <3>4. ASSUME NEW s \in M \ {prev} PROVE FreeAt(u, s, len[s], slob_next(w, s))
      <4>1. s + len[s] <= prev \/ prev + (e + len[prev]) <= s
        BY ONLY <2>1, <1>3, <1>4, <1>5, <1>9, <1>17, <1>26, s \in M \ {prev}
      <4> QED BY <4>1, <3>1, <3>2, <1>18, <1>19, OtherBlock
    <3>5. \A i \in Word \ (Extent(prev, len[prev]) \cup Extent(b, e)) : i \notin Extent(prev, e + len[prev])
      BY ONLY <2>1, <1>4, <1>9, <1>26 DEF Extent
    <3> QED BY <2>1, <3>2, <3>3, <3>4, <3>5, <1>18
  <2>2. CASE ~touch
    <3>1. FreeBlock(prev, len[prev], b)
      BY ONLY <2>2, <1>4, <1>26, <1>15 DEF FreeBlock
    <3>2. u = set_slob(v, prev, len[prev], b) /\ len2[prev] = len[prev]
      BY <2>2, <1>24
    <3> HIDE DEF u
    <3>3. /\ u \in [Word -> Int] /\ FreeAt(u, prev, len[prev], b)
          /\ \A i \in Word \ Extent(prev, len[prev]) : u[i] = v[i]
      BY <3>1, <3>2, <1>18, WriteBlock
    <3>4. ASSUME NEW s \in M \ {prev} PROVE FreeAt(u, s, len[s], slob_next(w, s))
      <4>1. s + len[s] <= prev \/ prev + len[prev] <= s
        BY ONLY <1>3, <1>4, <1>5, <1>26, s \in M \ {prev}
      <4> QED BY <4>1, <3>1, <3>2, <1>18, <1>19, OtherBlock
    <3>5. FreeAt(u, b, e, n)
      BY <3>1, <3>2, <1>15, <1>18, OtherBlock
    <3> QED BY <2>2, <3>2, <3>3, <3>4, <3>5, <1>18
  <2> QED BY <2>1, <2>2
<1> HIDE DEF u
<1>28. Follows(B2, prev, IF touch THEN n ELSE b)
  BY ONLY <1>4, <1>5, <1>9, <1>16, <1>23, <1>26 DEF Follows
<1>29. ~touch => Follows(B2, b, n)
  BY ONLY <1>4, <1>5, <1>9, <1>16, <1>23, <1>26 DEF Follows
<1>30. Encoded(u, len2)
  <2>1. ASSUME NEW s \in B2
        PROVE  \E y \in 1 .. PageUnits : FreeAt(u, s, len2[s], y) /\ Follows(B2, s, y)
    <3>1. CASE s = prev
      <4>1. (IF touch THEN n ELSE b) \in 1 .. PageUnits
        BY ONLY <1>4, <1>9, <1>26, <1>15
      <4> QED BY <4>1, <3>1, <1>27, <1>28
    <3>2. CASE s = b /\ ~touch
      BY <3>2, <1>9, <1>24, <1>27, <1>29
    <3>3. CASE s \in M \ {prev}
      BY <3>3, <1>2, <1>24, <1>25, <1>26, <1>27
    <3> QED BY <1>23, <3>1, <3>2, <3>3
  <2>2. \A s, c \in B2 : s < c => s + len2[s] <= c
    <3> SUFFICES ASSUME NEW s \in B2, NEW c \in B2, s < c PROVE s + len2[s] <= c
      OBVIOUS
    <3>1. CASE s \in M \ {prev} /\ c \in M
      BY ONLY <3>1, <1>3, <1>24, <1>26, s < c
    <3>2. CASE s \in M \ {prev} /\ c = b
      BY ONLY <3>2, <1>4, <1>17, <1>15, <1>24, <1>26, <1>9, <1>3, s < c
    <3>3. CASE s = prev /\ c \in M
      <4>1. CASE touch
        BY ONLY <3>3, <4>1, <1>4, <1>9, <1>17, <1>24, <1>26, s < c
      <4>2. CASE ~touch
        <5>1. prev + len[prev] <= c
          BY ONLY <3>3, <1>3, <1>5, <1>26, s < c, Zenon
        <5> QED BY ONLY <5>1, <3>3, <4>2, <1>24
      <4> QED BY <4>1, <4>2
    <3>4. CASE s = prev /\ c = b
      BY ONLY <3>4, <1>15, <1>23, <1>24, <1>26, <1>4, s < c, c \in B2
    <3>5. CASE s = b /\ ~touch /\ c \in M
      BY ONLY <3>5, <1>4, <1>9, <1>17, <1>24, <1>26, s < c
    <3> QED BY ONLY <1>23, <1>4, s \in B2, c \in B2, s < c, <3>1, <3>2, <3>3, <3>4, <3>5
  <2>3. B2 \subseteq Word
    BY ONLY <1>23, <1>26
  <2> QED BY <2>1, <2>2, <2>3 DEF Encoded, B2
<1>31. pg.freelist \in B2 /\ \A s \in B2 : pg.freelist <= s
  <2>1. pg.freelist <= prev
    BY <1>1, <1>5
  <2>2. pg.freelist \in Int /\ pg.freelist # b + units
    <3>1. pg.freelist \in Int
      BY <1>1, <1>4
    <3> QED BY ONLY <2>1, <3>1, <1>4, <1>26
  <2> QED BY ONLY <2>1, <2>2, <1>1, <1>4, <1>23, <1>26
<1>32. \A i \in Extent(prev, len[prev]) \cup Extent(b, e) : i \in Covered(len) \cup Extent(b, units)
  <2>1. \A i \in Extent(prev, len[prev]) : i \in Covered(len)
    BY ONLY <1>4, <1>5, <1>26 DEF Extent, Covered, Word, B
  <2>2. ASSUME NEW i \in Extent(b, e), i \notin Extent(b, units) PROVE i \in Covered(len)
    <3>1. i \in Int /\ b <= i /\ i < b + e /\ ~(i < b + units)
      BY ONLY <1>4, <1>9, i \in Extent(b, e), i \notin Extent(b, units) DEF Extent
    <3>2. b + units \in B /\ b + units <= i /\ i < (b + units) + len[b + units] /\ i \in Word
      BY ONLY <3>1, <1>4, <1>9, <1>11, <1>13 DEF Word
    <3> QED BY ONLY <3>2 DEF Covered, B
  <2> QED BY <2>1, <2>2
<1>33. Listed(r, len2)
  BY <1>21, <1>27, <1>30, <1>31 DEF Listed, B2
<1>34. \A i \in Word \ (Covered(len) \cup Extent(b, units)) : r.words[i] = pg.words[i]
  BY <1>21, <1>27, <1>32 DEF w
<1> QED BY <1>21, <1>33, <1>34 DEF len2

\* The block taken by slob_free is not on the list, if none of its words is free.
LEMMA NotFreeOutside ==
  ASSUME NEW pg, NEW len, Listed(pg, len), NEW b \in Int, NEW units \in Nat \ {0},
         Extent(b, units) \subseteq Word \ Covered(len)
  PROVE  Outside(len, b, units)
<1>1. /\ b \in Word /\ b + units - 1 \in Word
      /\ \A i \in Int : b <= i /\ i < b + units => i \in Word /\ i \notin Covered(len)
  <2>1. b \in Extent(b, units) /\ b + units - 1 \in Extent(b, units)
        /\ \A i \in Int : b <= i /\ i < b + units => i \in Extent(b, units)
    BY DEF Extent
  <2> QED BY <2>1
<1>2. units \in 1 .. PageUnits /\ b + units <= PageUnits
  BY <1>1, PageUnitsAssumption DEF Word
<1>3. ASSUME NEW s \in DOMAIN len PROVE s + len[s] <= b \/ b + units <= s
  <2>1. s \in Word /\ len[s] \in 1 .. PageUnits /\ s + len[s] <= PageUnits
    BY ReadListed
  <2>2. s \in Int /\ s >= 0 /\ len[s] \in Int /\ len[s] >= 1
    BY <2>1, PageUnitsAssumption DEF Word
  <2>3. s \notin Extent(b, units)
    BY <2>1, <2>2 DEF Covered
  <2>4. b \in Word => ~(s <= b /\ b < s + len[s])
    BY <1>1 DEF Covered
  <2>5. s < b \/ b + units <= s
    BY <2>2, <2>3 DEF Extent
  <2> QED BY <1>1, <2>2, <2>4, <2>5
<1> QED BY <1>1, <1>2, <1>3 DEF Outside

\* slob_free makes the words of the block free, joins them with their neighbours,
\* keeps the units exact and writes to words that are free then.
THEOREM ReturnToPage ==
  ASSUME NEW pg, NEW F, FreeIs(pg, F), F # {}, NEW b \in Int, NEW units \in Nat \ {0},
         Extent(b, units) \subseteq Word \ F,
         NEW r, r = Reinsert(pg, b, units)
  PROVE  /\ FreeIs(r, F \cup Extent(b, units))
         /\ OnlyIn(F \cup Extent(b, units), pg, r)
<1> DEFINE G == F \cup Extent(b, units)
           more == [pg EXCEPT !.units = @ + units]
<1>1. PICK len : Listed(pg, len) /\ Coalesced(len) /\ Covered(len) = F
  BY DEF FreeIs
<1>2. pg \in SlobPageType /\ F \subseteq Word /\ pg.units = Cardinality(F)
  BY DEF FreeIs
<1>3. Cardinality(G) = pg.units + units /\ Cardinality(G) \in 0 .. PageUnits /\ G \subseteq Word
  <2>1. IsFiniteSet(F) /\ IsFiniteSet(Extent(b, units)) /\ Cardinality(Extent(b, units)) = units
    BY <1>2, CountWords
  <2>2. Cardinality(F \cap Extent(b, units)) = 0
    <3>1. F \cap Extent(b, units) = {}
      OBVIOUS
    <3> QED BY <3>1, FS_EmptySet
  <2>3. Cardinality(G) = Cardinality(F) + Cardinality(Extent(b, units)) - Cardinality(F \cap Extent(b, units))
    BY ONLY <2>1, FS_Union DEF G
  <2>4. G \subseteq Word
    BY <1>2
  <2>5. Cardinality(G) \in 0 .. PageUnits /\ Cardinality(F) \in 0 .. PageUnits
    BY <1>2, <2>4, CountWords
  <2>6. pg.units = Cardinality(F)
    BY <1>2
  <2> HIDE DEF G
  <2> QED BY ONLY <2>1, <2>2, <2>3, <2>4, <2>5, <2>6, units \in Nat \ {0}
<1>4. more \in SlobPageType /\ more.words = pg.words /\ more.freelist = pg.freelist
      /\ more.units = pg.units + units /\ more.slab = pg.slab /\ more.free = pg.free
  BY <1>2, <1>3 DEF SlobPageType
<1>5. Listed(more, len)
  BY <1>1, <1>4 DEF Listed
<1>6. Outside(len, b, units)
  BY <1>1, NotFreeOutside
<1>7. r = IF b < more.freelist THEN InsertFirst(more, b, units) ELSE InsertAfter(more, b, units)
  BY <1>4 DEF Reinsert
<1> HIDE DEF more, G
<1>8. /\ r.freelist \in 0 .. PageUnits
      /\ Listed(r, Returned(len, b, units))
      /\ \A i \in Word \ (Covered(len) \cup Extent(b, units)) : r.words[i] = more.words[i]
  <2>1. b \in 0 .. PageUnits /\ more.freelist \in 0 .. PageUnits
    BY <1>4, <1>6, PageUnitsAssumption DEF Outside, Word, SlobPageType
  <2>2. CASE b < more.freelist
    BY <1>4, <1>5, <1>6, <1>7, <2>1, <2>2, InsertFirstListed
  <2>3. CASE ~(b < more.freelist)
    BY <1>4, <1>5, <1>6, <1>7, <2>1, <2>3, InsertAfterListed
  <2> QED BY <2>2, <2>3
<1>9. Covered(Returned(len, b, units)) = G /\ Coalesced(Returned(len, b, units))
  BY <1>1, <1>6, CoveredReturned DEF G
<1>10. r = [more EXCEPT !.words = r.words, !.freelist = r.freelist]
  <2>1. CASE b < more.freelist
    BY <2>1, <1>4, <1>7 DEF InsertFirst, SlobPageType
  <2>2. CASE ~(b < more.freelist)
    BY <2>2, <1>4, <1>7, Zenon DEF InsertAfter, SlobPageType
  <2> QED BY <2>1, <2>2
<1>11. r \in SlobPageType /\ r.units = more.units /\ r.slab = pg.slab /\ r.free = pg.free
  <2>1. r.words \in [Word -> Int]
    BY <1>8 DEF Listed
  <2> QED BY ONLY <2>1, <1>4, <1>8, <1>10, Zenon DEF SlobPageType
<1>12. FreeIs(r, G)
  BY <1>3, <1>4, <1>8, <1>9, <1>11 DEF FreeIs
<1>13. OnlyIn(G, pg, r)
  BY <1>1, <1>4, <1>8, <1>11 DEF OnlyIn, G
<1> QED BY <1>12, <1>13 DEF G

\* A page with one free block, which set_slob has written.
LEMMA OneBlock ==
  ASSUME NEW w \in [Word -> Int], NEW b, NEW units, FreeBlock(b, units, PageUnits),
         NEW r \in SlobPageType, r.words = set_slob(w, b, units, PageUnits),
         r.units = units, r.freelist = b
  PROVE  /\ FreeIs(r, Extent(b, units))
         /\ \A i \in Word \ Extent(b, units) : r.words[i] = w[i]
         /\ FreeList(r)[0] = b /\ slob_units(r.words, b) = units
<1> DEFINE len == [s \in {b} |-> units]
<1>1. b \in Word /\ b \in Int /\ 0 <= b /\ units \in Int /\ 1 <= units /\ b + units <= PageUnits
      /\ PageUnits \in 1 .. PageUnits
  BY PageUnitsAssumption DEF FreeBlock, Word
<1>2. r.words \in [Word -> Int] /\ FreeAt(r.words, b, units, PageUnits)
      /\ \A i \in Word \ Extent(b, units) : r.words[i] = w[i]
  BY WriteBlock
<1>3. DOMAIN len = {b} /\ len[b] = units
  OBVIOUS
<1> HIDE DEF len
<1>4. Follows({b}, b, PageUnits)
  BY <1>1 DEF Follows
<1>5. Encoded(r.words, len)
  BY <1>1, <1>2, <1>3, <1>4 DEF Encoded
<1>6. Listed(r, len)
  BY <1>1, <1>2, <1>3, <1>5 DEF Listed
<1>7. Coalesced(len)
  BY <1>1, <1>3 DEF Coalesced
<1>8. Covered(len) = Extent(b, units)
  BY <1>1, <1>3, PageUnitsAssumption DEF Covered, Extent, Word
<1>9. Cardinality(Extent(b, units)) = units /\ Extent(b, units) \subseteq Word
  <2>1. Cardinality(Extent(b, units)) = units
    BY <1>1, CountWords
  <2> QED BY <2>1, <1>1, PageUnitsAssumption DEF Extent, Word
<1>10. FreeList(r)[0] = b /\ slob_units(r.words, b) = units
  BY <1>2, <1>6, FreeListListed, ReadBlock
<1> QED BY <1>2, <1>6, <1>7, <1>8, <1>9, <1>10 DEF FreeIs

\* slob_page_alloc finds room in a page that is one free block.
LEMMA WholePageFits ==
  ASSUME NEW pg, FreeList(pg)[0] = 0, slob_units(pg.words, 0) = PageUnits,
         NEW size \in Nat, SLOB_UNITS(size) <= PageUnits, NEW align \in Nat
  PROVE  slob_page_alloc(pg, size, align).block # NoBlock
<1> DEFINE units == SLOB_UNITS(size)
           at == FreeList(pg)
           w == pg.words
           Stop(k) == Fits(w, at[k], units, align) \/ slob_last(w, at[k])
           First(k) == Stop(k) /\ \A j \in 0 .. k - 1 : ~Stop(j)
           end == CHOOSE k \in ListIndex : First(k)
           fit == FirstFit(pg, units, align)
<1>1. AlignDelta(0, align) = 0 /\ units \in Nat
  BY DeltaAligns, UnitsOfBytes
<1>2. Fits(w, at[0], units, align)
  BY <1>1, PageUnitsAssumption DEF Fits
<1>3. First(0) /\ 0 \in ListIndex
  BY <1>2, PageUnitsAssumption DEF ListIndex
<1>4. end \in ListIndex /\ First(end)
  <2> HIDE DEF First
  <2> QED BY <1>3
<1>5. fit.cur = IF Fits(w, at[end], units, align) THEN at[end] ELSE NoBlock
  BY DEF FirstFit
<1> HIDE DEF end, at, fit
<1>6. end = 0
  <2>1. end \in Nat
    BY <1>4, PageUnitsAssumption DEF ListIndex
  <2>2. end # 0 => 0 \in 0 .. end - 1
    BY <2>1
  <2> QED BY <1>2, <1>4, <2>2
<1>7. fit.cur = 0
  BY <1>2, <1>5, <1>6 DEF at
<1> QED BY <1>1, <1>7 DEF slob_page_alloc, fit, NoBlock

\* What is free in a page is what its free list has.
THEOREM FreeIsFreeWords ==
  ASSUME NEW pg, NEW F, FreeIs(pg, F)
  PROVE  /\ FreeWords(pg) = F
         /\ pg.units > 0 <=> F # {}
         /\ pg.units > 0 => \A k \in ListIndex :
              LET s == FreeList(pg)[k]
              IN  slob_last(pg.words, s) \/ s + slob_units(pg.words, s) < slob_next(pg.words, s)
<1>1. F \subseteq Word /\ pg.units = Cardinality(F) /\ IsFiniteSet(F) /\ Cardinality(F) \in Nat
  BY CountWords, FS_CardinalityType, 0 \in Int, 0 \in Nat DEF FreeIs
<1>2. pg.units = 0 <=> F = {}
  BY <1>1, FS_EmptySet
<1>3. CASE F = {}
  BY <1>2, <1>3, <1>1 DEF FreeWords
<1>4. CASE F # {}
  <2>1. PICK len : Listed(pg, len) /\ Coalesced(len) /\ Covered(len) = F
    BY <1>4 DEF FreeIs
  <2>2. FreeWords(pg) = F
    BY <1>2, <1>4, <2>1, FreeWordsListed
  <2>3. \A k \in ListIndex :
              LET s == FreeList(pg)[k]
              IN  slob_last(pg.words, s) \/ s + slob_units(pg.words, s) < slob_next(pg.words, s)
    BY <2>1, FreeListApart
  <2> QED BY <1>1, <1>2, <1>4, <2>2, <2>3
<1> QED BY <1>3, <1>4

\* Nothing is free or listed differently after words that are not free have been
\* written.
LEMMA FreeIsKept ==
  ASSUME NEW pg, NEW F, FreeIs(pg, F), NEW r \in SlobPageType,
         r.units = pg.units, r.freelist = pg.freelist,
         \A i \in F : r.words[i] = pg.words[i]
  PROVE  FreeIs(r, F)
<1>1. SUFFICES ASSUME F # {}
               PROVE  \E len : Listed(r, len) /\ Coalesced(len) /\ Covered(len) = F
  BY DEF FreeIs
<1>2. PICK len : Listed(pg, len) /\ Coalesced(len) /\ Covered(len) = F
  BY <1>1 DEF FreeIs
<1>3. pg.words \in [Word -> Int] /\ r.words \in [Word -> Int]
  BY <1>2 DEF Listed, SlobPageType
<1>4. ASSUME NEW s \in DOMAIN len, NEW n, FreeAt(pg.words, s, len[s], n)
      PROVE  FreeAt(r.words, s, len[s], n)
  <2>1. s \in Word /\ len[s] \in 1 .. PageUnits /\ s + len[s] <= PageUnits
    BY <1>2, ReadListed
  <2>2. \A i \in Extent(s, len[s]) : i \in Covered(len)
    BY <2>1, PageUnitsAssumption DEF Extent, Word, Covered
  <2>3. \A i \in Extent(s, len[s]) : r.words[i] = pg.words[i]
    BY <2>2, <1>2
  <2> QED BY <1>3, <1>4, <2>3, SameBlock
<1>5. Encoded(r.words, len)
  BY <1>2, <1>4, Zenon DEF Listed, Encoded
<1>6. Listed(r, len)
  BY <1>2, <1>3, <1>5 DEF Listed
<1> QED BY <1>2, <1>6
=============================================================================
