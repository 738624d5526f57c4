--------------------------- MODULE SlobHeapProofs ---------------------------
(***************************************************************************)
(* What follows from the invariant of SlobHeap: the properties, and that   *)
(* it implements BlockAllocator.                                           *)
(***************************************************************************)
EXTENDS SlobHeapInvariant

\* The prover of the leaves that name no other.
USE ZenonT(20)

-----------------------------------------------------------------------------
(* What the invariant says of each of the properties.  All of it is for any  *)
(* page of the lists that sp_alt may have been left with.                    *)

\* The state of the allocator has its types.
THEOREM TypeCorrect == Spec => []TypeOK
<1>1. IInv => TypeOK
  BY Zenon DEF IInv, Types, TypeOK, ListsType
<1>2. Spec => []IInv
  BY HeapInvariant
<1> QED BY <1>1, <1>2, PTL

\* The pages of the heap are sound.
LEMMA HeapPageSound ==
  ASSUME IInv, NEW p \in HeapPages
  PROVE  SoundPage(page[p], HeldIn(p)) /\ page[p] \in SlobPageType
<1>1. HeldIn(p) = BlocksOf(Held, p)
  BY DEF HeldIn, BlocksOf
<1>2. SoundPage(page[p], BlocksOf(Held, p))
  BY DEF IInv, Heap, HeapOK
<1> QED BY <1>1, <1>2, HeapPageFacts, Zenon DEF IInv, Types

\* No two blocks of slob_alloc overlap, and every word of a page is free or in one
\* of them: none is handed out twice and none is lost.
THEOREM PagesPartitioned == Spec => []PagePartitioned
<1>1. IInv => PagePartitioned
  <2> SUFFICES ASSUME IInv, NEW p \in HeapPages
               PROVE  /\ \A b, d \in HeldIn(p) : b # d => Words(b) \cap Words(d) = {}
                      /\ UNION {Words(b) : b \in HeldIn(p)} = Word \ FreeWords(page[p])
    BY DEF PagePartitioned
  <2>1. SoundPage(page[p], HeldIn(p))
    BY HeapPageSound
  <2> QED BY <2>1, SMTT(20) DEF SoundPage
<1>2. Spec => []IInv
  BY HeapInvariant
<1> QED BY <1>1, <1>2, PTL

\* slob_free keeps the free list of a page in address order and joins the blocks
\* that touch.
THEOREM FreeListsCoalesced == Spec => []FreeListCoalesced
<1>1. ASSUME NEW pg, NEW Bs, SoundPage(pg, Bs), pg.units > 0, NEW k \in ListIndex
      PROVE  LET s == FreeList(pg)[k]
             IN  slob_last(pg.words, s) \/ s + slob_units(pg.words, s) < slob_next(pg.words, s)
  <2>1. FreeIs(pg, FreeWords(pg))
    BY <1>1 DEF SoundPage
  <2> QED BY <2>1, <1>1, FreeIsFreeWords
<1>2. IInv => FreeListCoalesced
  <2> SUFFICES ASSUME IInv, NEW p \in HeapPages, page[p].units > 0, NEW k \in ListIndex
               PROVE  LET w == page[p].words
                          s == FreeList(page[p])[k]
                      IN  slob_last(w, s) \/ s + slob_units(w, s) < slob_next(w, s)
    BY DEF FreeListCoalesced
  <2>1. PICK g, Bs : g = page[p] /\ Bs = HeldIn(p)
    OBVIOUS
  <2>2. SoundPage(g, Bs) /\ g.units > 0
    BY <2>1, HeapPageSound
  <2>3. LET s == FreeList(g)[k]
        IN  slob_last(g.words, s) \/ s + slob_units(g.words, s) < slob_next(g.words, s)
    BY <2>2, <1>1
  <2> QED BY <2>1, <2>3
<1>3. Spec => []IInv
  BY HeapInvariant
<1> QED BY <1>2, <1>3, PTL

\* Where a page is on the lists.
LEMMA ListPlaces ==
  ASSUME NEW p, NEW S, S = UNION {{c} \X Occurs(p, c) : c \in Class}
  PROVE  /\ Unlisted(lists, p) => S = {}
         /\ ListedOnce(lists, p) => \E x : S = {x}
<1>1. \A x : x \in S <=> \E c \in Class : \E i \in DOMAIN lists[c] : lists[c][i] = p /\ x = <<c, i>>
  BY SMTT(20) DEF Occurs
<1>2. Unlisted(lists, p) => S = {}
  BY <1>1 DEF Unlisted, InClass
<1>3. ASSUME ListedOnce(lists, p) PROVE \E x : S = {x}
  <2>1. PICK c \in Class : \E i \in DOMAIN lists[c] :
          /\ lists[c][i] = p
          /\ \A d \in Class : \A j \in DOMAIN lists[d] : lists[d][j] = p => d = c /\ j = i
    BY <1>3 DEF ListedOnce
  <2>2. PICK i \in DOMAIN lists[c] :
          /\ lists[c][i] = p
          /\ \A d \in Class : \A j \in DOMAIN lists[d] : lists[d][j] = p => d = c /\ j = i
    BY <2>1
  <2>3. \A x : x \in S <=> x = <<c, i>>
    BY <1>1, <2>2
  <2>4. S = {<<c, i>>}
    BY <2>3
  <2> QED BY <2>4, Zenon
<1> QED BY <1>2, <1>3

\* sp->units is the number of free words, and a page is on one of the lists, once,
\* exactly when it has any.
THEOREM UnitsAreExact == Spec => []UnitsExact
<1>1. IInv => UnitsExact
  <2> SUFFICES ASSUME IInv, NEW p \in Page, NEW S, S = UNION {{c} \X Occurs(p, c) : c \in Class}
               PROVE  IF p \in HeapPages
                      THEN /\ page[p].units = Cardinality(FreeWords(page[p]))
                           /\ page[p].free <=> page[p].units > 0
                           /\ Cardinality(S) = IF page[p].free THEN 1 ELSE 0
                      ELSE S = {}
    BY DEF UnitsExact
  <2>1. /\ Unlisted(lists, p) => S = {}
        /\ ListedOnce(lists, p) => \E x : S = {x}
    BY ListPlaces, Zenon
  <2>2. IF p \in HeapPages /\ page[p].free THEN ListedOnce(lists, p) ELSE Unlisted(lists, p)
    BY DEF IInv, Heap, HeapOK
  <2> USE <2>1, <2>2
  <2>3. CASE p \notin HeapPages
    BY <2>3
  <2>4. CASE p \in HeapPages
    <3>1. SoundPage(page[p], HeldIn(p)) /\ page[p] \in SlobPageType
      BY <2>4, HeapPageSound
    <3>2. page[p].units = Cardinality(FreeWords(page[p])) /\ (page[p].free <=> page[p].units > 0)
      BY <3>1 DEF SoundPage, FreeIs
    <3>3. CASE page[p].free
      <4>1. PICK x : S = {x}
        BY <2>4, <3>3, Zenon
      <4>2. Cardinality(S) = 1
        BY <4>1, FS_Singleton, Zenon
      <4> QED BY <2>4, <3>2, <3>3, <4>2
    <3>4. CASE ~page[p].free
      <4>1. Cardinality(S) = 0
        BY <3>4, FS_EmptySet, Zenon
      <4> QED BY <2>4, <3>2, <3>4, <4>1
    <3> QED BY <3>3, <3>4
  <2> QED BY <2>3, <2>4
<1>2. Spec => []IInv
  BY HeapInvariant
<1> QED BY <1>1, <1>2, PTL

\* What an owner has put in a block is there until it is freed, and so are the
\* header and the footer from which the size is read then.
THEOREM DataIsIntact == Spec => []DataIntact
<1>1. IInv => DataIntact
  <2> SUFFICES ASSUME IInv PROVE DataIntact
    OBVIOUS
  <2>1. ASSUME NEW b \in live, NEW i \in Words(b)
        PROVE  page[b.page].words[i] = Fill(page[b.page].words, b)[i]
    <3>1. i \in Word
      BY HeldWords, CallersHold
    <3>2. page[b.page].words[i] = Content(b, i)
      BY DEF IInv, Data, DataOK
    <3>3. Fill(page[b.page].words, b)[i] = Content(b, i)
      BY <3>1, FillContent
    <3> QED BY <3>2, <3>3
  <2> QED BY <2>1 DEF DataIntact, IInv, Data, DataOK
<1>2. Spec => []IInv
  BY HeapInvariant
<1> QED BY <1>1, <1>2, PTL

\* A block has the alignment its caller asked for.
THEOREM BlocksAligned == Spec => []Aligned
<1>1. IInv => Aligned
  <2> SUFFICES ASSUME IInv, NEW b \in Held, b.align > 0 PROVE (b.off * SLOB_UNIT) % b.align = 0
    BY DEF Aligned
  <2>1. /\ b.align = 1 \/ b.align % 2 = 0
        /\ AlignedTo(b.off, b.align) /\ b.off \in Int
    BY CallersHold DEF Owned, Proper, Block
  <2> USE <2>1
  <2>2. CASE b.align = 1
    BY <2>2, SMTT(20) DEF SLOB_UNIT
  <2>3. CASE b.align % 2 = 0
    BY <2>3 DEF AlignedTo
  <2> QED BY <2>2, <2>3
<1>2. Spec => []IInv
  BY HeapInvariant
<1> QED BY <1>1, <1>2, PTL

\* kfree and kmem_cache_free find the way a block was allocated.
THEOREM FreePathsMatch == Spec => []FreePathMatches
<1>1. IInv => FreePathMatches
  BY CallersHold DEF FreePathMatches, Owned, Proper, HeldIn
<1>2. Spec => []IInv
  BY HeapInvariant
<1> QED BY <1>1, <1>2, PTL

\* ksize of a kmalloc block is at least what was asked for and within the block.
THEOREM KsizeIsWithin == Spec => []KsizeFits
<1>1. IInv => KsizeFits
  <2> SUFFICES ASSUME IInv, NEW b \in live, b.kind = "kmalloc", ~b.large
               PROVE  /\ ksize(b) >= b.size - MINALIGN
                      /\ MINALIGN + ksize(b) <= SLOB_UNIT * Cardinality(Words(b))
    BY DEF KsizeFits
  <2>1. b \in Block /\ b.size > MINALIGN /\ page[b.page].slab /\ b.size > 0
    BY CallersHold DEF Owned, Proper
  <2>2. PICK s, m : s = b.size /\ m = MINALIGN
    OBVIOUS
  <2> USE <2>1, <2>2
  <2>3. s \in Nat /\ m \in Nat /\ m % 2 = 0 /\ s > m
    BY SizeAssumption, LayoutAssumption, SMTT(20) DEF Block
  <2>4. ksize(b) = SLOB_UNITS(s - m) * SLOB_UNIT
    BY HeaderIsSize DEF ksize
  <2>5. Cardinality(Words(b)) = SLOB_UNITS(s)
    BY SmallWords
  <2>6. /\ SLOB_UNITS(s - m) * SLOB_UNIT >= s - m
        /\ m + SLOB_UNITS(s - m) * SLOB_UNIT <= SLOB_UNIT * SLOB_UNITS(s)
    BY ONLY <2>3 DEF SLOB_UNITS, SLOB_UNIT
  <2> QED BY <2>4, <2>5, <2>6
<1>2. Spec => []IInv
  BY HeapInvariant
<1> QED BY <1>1, <1>2, PTL

\* The BUG_ON of slob_alloc never fires: a fresh page has room for any block that is
\* asked of it.
THEOREM NoBugOn == Spec => []NoBug
<1>1. IInv => NoBug
  <2> SUFFICES ASSUME IInv, NEW t \in Thread, pc[t] = "insert"
               PROVE  CanTake(FreshPage(page[blk[t].page]), blk[t])
    BY DEF NoBug
  <2>1. blk[t] \in Block /\ blk[t].size < PAGE_SIZE
    BY DEF IInv, Owners, Askers, Asking, Proper
  <2>2. Keeping(t)
    BY DEF Keeping
  <2>3. page[blk[t].page] \in SlobPageType
    BY <2>2, KeptIsEmpty, Zenon DEF IInv, Types
  <2> QED BY <2>1, <2>3, FreshSound
<1>2. Spec => []IInv
  BY HeapInvariant
<1> QED BY <1>1, <1>2, PTL

-----------------------------------------------------------------------------
(* The allocator implements BlockAllocator: every step hands out one block    *)
(* that overlaps none, takes one back, or does neither.                       *)

\* What a step does to the allocated blocks.
HeldMoves ==
  \/ Held' = Held
  \/ \E b : Held' = Held \cup {b}
  \/ \E b \in Held : Held' = Held \ {b}

\* The allocated blocks are those of callers and of threads, t being at m with b.
HeldAs(t, m, b) ==
  \A d : d \in Held' <=> \/ d \in live' \/ d \in rcu'
                         \/ m \in {"return", "free"} /\ d = b
                         \/ \E u \in Thread \ {t} : Holding(u) /\ d = blk[u]

\* The blocks allocated after a step in which thread t goes to m with block b.
LEMMA HeldMoved ==
  ASSUME IInv, NEW t \in Thread, NEW m, pc' = [pc EXCEPT ![t] = m],
         NEW b, blk' = [blk EXCEPT ![t] = b]
  PROVE  HeldAs(t, m, b)
<1>1. ASSUME NEW d
      PROVE  d \in Held' <=> d \in live' \/ d \in rcu' \/ \E u \in Thread : Holding(u)' /\ d = blk'[u]
  BY DEF Held, Holding
<1>2. /\ pc'[t] = m /\ blk'[t] = b
      /\ \A u \in Thread \ {t} : blk'[u] = blk[u] /\ (Holding(u)' <=> Holding(u))
  BY OneMoves, Zenon DEF IInv
<1>3. Holding(t)' <=> m \in {"return", "free"}
  BY <1>2 DEF Holding
<1> QED BY <1>1, <1>2, <1>3, SMTT(20) DEF HeldAs

\* A thread that has no block moves, and has none then.
LEMMA NoneMoved ==
  ASSUME IInv, NEW t \in Thread, ~Holding(t), NEW m \in {"idle", "search", "newpage", "insert"},
         pc' = [pc EXCEPT ![t] = m], NEW b, blk' = [blk EXCEPT ![t] = b], UNCHANGED <<live, rcu>>
  PROVE  HeldMoves
<1>1. ASSUME NEW d PROVE d \in Held' <=> d \in Held
  <2>1. HeldAs(t, m, b)
    BY HeldMoved, Zenon
  <2>2. d \in Held' <=> \/ d \in live \/ d \in rcu
                        \/ \E u \in Thread \ {t} : Holding(u) /\ d = blk[u]
    BY <2>1 DEF HeldAs
  <2> QED BY <2>2, HeldBy
<1>2. Held' = Held
  BY <1>1, Zenon
<1> QED BY <1>2 DEF HeldMoves

\* A thread takes a block.
LEMMA TakeMoves ==
  ASSUME IInv, NEW t \in Thread, ~Holding(t), NEW p, NEW pg, NEW ls, NEW more,
         TakeFrom(t, p, pg, ls, more), UNCHANGED <<live, rcu>>
  PROVE  HeldMoves
<1>1. pc' = [pc EXCEPT ![t] = "return"]
  BY DEF TakeFrom, Goto
<1>2. PICK b : blk' = [blk EXCEPT ![t] = b]
  <2>1. PICK o : blk' = [blk EXCEPT ![t].page = p, ![t].off = o]
    BY Zenon DEF TakeFrom
  <2>2. blk' = [blk EXCEPT ![t] = [blk[t] EXCEPT !.page = p, !.off = o]]
    BY <2>1, Zenon DEF IInv, Types
  <2> QED BY <2>2, Zenon
<1>3. ASSUME NEW d PROVE d \in Held' <=> d \in Held \/ d = b
  <2>1. HeldAs(t, "return", b)
    BY <1>1, <1>2, HeldMoved, Zenon
  <2>2. d \in Held' <=> \/ d \in live \/ d \in rcu \/ d = b
                        \/ \E u \in Thread \ {t} : Holding(u) /\ d = blk[u]
    BY <2>1 DEF HeldAs
  <2> QED BY <2>2, HeldBy
<1>4. Held' = Held \cup {b}
  BY <1>3
<1> QED BY <1>4 DEF HeldMoves

\* slob_alloc and its caller return: the block changes hands.
LEMMA ReturnMoves ==
  ASSUME IInv, NEW t \in Thread, AllocReturn(t) PROVE HeldMoves
<1>1. /\ pc[t] = "return" /\ pc' = [pc EXCEPT ![t] = "idle"] /\ blk' = [blk EXCEPT ![t] = NULL]
      /\ live' = live \cup {blk[t]} /\ UNCHANGED rcu
  BY DEF AllocReturn, At, Goto
<1> USE <1>1
<1>2. Holding(t)
  BY DEF Holding
<1>3. ASSUME NEW d PROVE d \in Held' <=> d \in Held
  <2>1. HeldAs(t, "idle", NULL)
    BY HeldMoved, Zenon
  <2>2. d \in Held' <=> \/ d \in live \/ d = blk[t] \/ d \in rcu
                        \/ \E u \in Thread \ {t} : Holding(u) /\ d = blk[u]
    BY <2>1 DEF HeldAs
  <2> QED BY <2>2, <1>2, HeldBy
<1>4. Held' = Held
  BY <1>3
<1> QED BY <1>4 DEF HeldMoves

\* slob_free up to the lock: the block changes hands.
LEMMA FreeBeginMoves ==
  ASSUME IInv, NEW t \in Thread, At(t, "idle"), NEW b, Surrendered(b),
         NEW size, size = b.size, FreeBegin(t, b, size)
  PROVE  HeldMoves
<1>1. /\ b \in Held /\ b \notin live' \cup rcu'
      /\ \A d : d # b => (d \in live' <=> d \in live) /\ (d \in rcu' <=> d \in rcu)
  BY SurrenderedOnce
<1>2. b \in Block
  BY <1>1, CallersHold
<1>3. [b EXCEPT !.size = b.size] = b
  BY <1>2 DEF Block
<1>4. pc[t] = "idle" /\ pc' = [pc EXCEPT ![t] = "free"] /\ blk' = [blk EXCEPT ![t] = b]
  BY <1>3, Zenon DEF FreeBegin, At, Goto
<1>5. ~Holding(t)
  BY <1>4 DEF Holding
<1>6. ASSUME NEW d PROVE d \in Held' <=> d \in Held
  <2>1. HeldAs(t, "free", b)
    BY <1>4, HeldMoved, Zenon
  <2>2. d \in Held' <=> \/ d \in live' \/ d \in rcu' \/ d = b
                        \/ \E u \in Thread \ {t} : Holding(u) /\ d = blk[u]
    BY <2>1 DEF HeldAs
  <2> QED BY <2>2, <1>1, <1>5, HeldBy
<1>7. Held' = Held
  BY <1>6
<1> QED BY <1>7 DEF HeldMoves

\* slob_free, under the lock: the block is free.
LEMMA FreeMoves ==
  ASSUME IInv, NEW t \in Thread, Free(t) PROVE HeldMoves
<1>1. pc[t] = "free" /\ UNCHANGED <<live, rcu>>
  BY DEF Free, At
<1>2. Holding(t)
  BY <1>1 DEF Holding
<1>3. PICK m \in {"release", "idle"} : pc' = [pc EXCEPT ![t] = m]
  BY DEF Free, Goto
<1>4. PICK e : blk' = [blk EXCEPT ![t] = e]
  <2>1. blk' = blk \/ blk' = [blk EXCEPT ![t] = NULL]
    BY DEF Free
  <2>2. blk = [blk EXCEPT ![t] = blk[t]]
    BY DEF IInv, Types
  <2> QED BY <2>1, <2>2
<1>5. PICK b : b = blk[t]
  OBVIOUS
<1>6. b \in Held /\ b \notin live \cup rcu /\ \A u \in Thread : Holding(u) /\ blk[u] = b => u = t
  BY <1>2, <1>5, HeldBy DEF IInv, Owners, Holders
<1>7. ASSUME NEW d PROVE d \in Held' <=> d \in Held /\ d # b
  <2>1. HeldAs(t, m, e)
    BY <1>3, <1>4, HeldMoved, Zenon
  <2>2. d \in Held' <=> \/ d \in live \/ d \in rcu
                        \/ \E u \in Thread \ {t} : Holding(u) /\ d = blk[u]
    BY <1>1, <2>1 DEF HeldAs
  <2> QED BY <2>2, <1>6, HeldBy, SMTT(20)
<1>8. Held' = Held \ {b}
  BY <1>7
<1> QED BY <1>8 DEF HeldMoves

\* A large object is a block from slob_new_pages to slob_free_pages.
LEMMA LargeMoves ==
  ASSUME IInv, UNCHANGED <<pc, blk>>, NEW b,
         (live' = live \cup {b} /\ rcu' = rcu) \/ Surrendered(b)
  PROVE  HeldMoves
<1>1. ASSUME NEW d
      PROVE  d \in Held' <=> d \in live' \/ d \in rcu' \/ \E u \in Thread : Holding(u) /\ d = blk[u]
  BY DEF Held, Holding
<1>2. CASE live' = live \cup {b} /\ rcu' = rcu
  <2>1. ASSUME NEW d PROVE d \in Held' <=> d \in Held \/ d = b
    BY <1>1, <1>2, HeldBy
  <2>2. Held' = Held \cup {b}
    BY <2>1
  <2> QED BY <2>2 DEF HeldMoves
<1>3. CASE Surrendered(b)
  <2>1. /\ b \in Held /\ b \notin live' \cup rcu' /\ \A u \in Thread : Holding(u) => blk[u] # b
        /\ \A d : d # b => (d \in live' <=> d \in live) /\ (d \in rcu' <=> d \in rcu)
    BY <1>3, SurrenderedOnce
  <2>2. ASSUME NEW d PROVE d \in Held' <=> d \in Held /\ d # b
    BY <1>1, <2>1, HeldBy
  <2>3. Held' = Held \ {b}
    BY <2>2
  <2> QED BY <2>3 DEF HeldMoves
<1> QED BY <1>2, <1>3

\* The calls that begin and end without the lock.
LEMMA CallMoves ==
  ASSUME IInv, NEW t \in Thread
  PROVE  /\ \A size \in KmallocSizes : Kmalloc(t, size) => HeldMoves
         /\ \A c \in Caches : CacheAlloc(t, c) => HeldMoves
<1>1. ASSUME NEW size, NEW align, NEW kind, AllocBegin(t, size, align, kind) PROVE HeldMoves
  <2>1. /\ pc[t] = "idle" /\ pc' = [pc EXCEPT ![t] = "search"] /\ UNCHANGED <<live, rcu>>
        /\ \E b : blk' = [blk EXCEPT ![t] = b]
    BY <1>1, Zenon DEF AllocBegin, At, Goto
  <2>2. ~Holding(t)
    BY <2>1 DEF Holding
  <2> QED BY <2>1, <2>2, NoneMoved, Zenon
<1>2. ASSUME NEW size, NEW kind, LargeAlloc(t, size, kind) PROVE HeldMoves
  <2>1. UNCHANGED <<pc, blk, rcu>> /\ \E b : live' = live \cup {b}
    BY <1>2, Zenon DEF LargeAlloc
  <2> QED BY <2>1, LargeMoves
<1>3. ASSUME NEW size \in KmallocSizes, Kmalloc(t, size) PROVE HeldMoves
  BY <1>1, <1>2, <1>3 DEF Kmalloc
<1>4. ASSUME NEW c \in Caches, CacheAlloc(t, c) PROVE HeldMoves
  BY <1>1, <1>2, <1>4 DEF CacheAlloc
<1> QED BY <1>3, <1>4

\* slob_alloc, under the lock and for a new page, and slob_free_pages.
LEMMA SectionMoves ==
  ASSUME IInv, NEW t \in Thread,
         Search(t) \/ NewPage(t) \/ NoPage(t) \/ Insert(t) \/ Release(t)
  PROVE  HeldMoves
<1>1. CASE Search(t)
  <2>1. pc[t] = "search" /\ UNCHANGED <<live, rcu>>
    BY <1>1 DEF Search, At
  <2> USE <2>1
  <2>2. ~Holding(t)
    BY DEF Holding
  <2>3. \/ \E sp : TakeFrom(t, sp, page[sp], lists, <<>>)
        \/ pc' = [pc EXCEPT ![t] = "newpage"] /\ UNCHANGED blk
    BY <1>1 DEF Search, Goto
  <2>4. blk = [blk EXCEPT ![t] = blk[t]]
    BY DEF IInv, Types
  <2>5. CASE \E sp : TakeFrom(t, sp, page[sp], lists, <<>>)
    BY <2>2, <2>5, TakeMoves
  <2>6. CASE pc' = [pc EXCEPT ![t] = "newpage"] /\ UNCHANGED blk
    <3>1. \E b : blk' = [blk EXCEPT ![t] = b]
      BY <2>4, <2>6
    <3> QED BY <2>2, <2>6, <3>1, NoneMoved, Zenon
  <2> QED BY <2>3, <2>5, <2>6
<1>2. CASE NewPage(t)
  <2>1. pc[t] = "newpage" /\ pc' = [pc EXCEPT ![t] = "insert"] /\ UNCHANGED <<live, rcu>>
    BY <1>2 DEF NewPage, At, Goto
  <2>2. \E b : blk' = [blk EXCEPT ![t] = b]
    <3>1. PICK p : blk' = [blk EXCEPT ![t].page = p]
      BY <1>2, Zenon DEF NewPage
    <3>2. blk' = [blk EXCEPT ![t] = [blk[t] EXCEPT !.page = p]]
      BY <3>1 DEF IInv, Types
    <3> QED BY <3>2, Zenon
  <2>3. ~Holding(t)
    BY <2>1 DEF Holding
  <2> QED BY <2>1, <2>2, <2>3, NoneMoved, Zenon
<1>3. CASE NoPage(t) \/ Release(t)
  <2>1. /\ pc[t] \in {"newpage", "release"} /\ pc' = [pc EXCEPT ![t] = "idle"]
        /\ blk' = [blk EXCEPT ![t] = NULL] /\ UNCHANGED <<live, rcu>>
    BY <1>3 DEF NoPage, Release, At, Goto
  <2>2. ~Holding(t)
    BY <2>1 DEF Holding
  <2> QED BY <2>1, <2>2, NoneMoved, Zenon
<1>4. CASE Insert(t)
  <2>1. pc[t] = "insert" /\ UNCHANGED <<live, rcu>>
    BY <1>4 DEF Insert, At
  <2>2. \E p, pg, ls, more : TakeFrom(t, p, pg, ls, more)
    BY <1>4 DEF Insert
  <2>3. ~Holding(t)
    BY <2>1 DEF Holding
  <2> QED BY <2>1, <2>2, <2>3, TakeMoves
<1> QED BY <1>1, <1>2, <1>3, <1>4

\* kfree, kmem_cache_free and kmem_rcu_free.
LEMMA GiveBackMoves ==
  ASSUME IInv, NEW t \in Thread, NEW b, GivesBack(t, b) PROVE HeldMoves
<1>1. At(t, "idle")
  BY DEF GivesBack
<1>2. CASE Surrendered(b) /\ b.large /\ LargeFree(b)
  <2>1. UNCHANGED <<pc, blk>>
    BY <1>2 DEF LargeFree
  <2> QED BY <1>2, <2>1, LargeMoves
<1>3. CASE Surrendered(b) /\ ~b.large /\ FreeBegin(t, b, b.size)
  BY <1>1, <1>3, FreeBeginMoves
<1>4. CASE b \in live /\ live' = live \ {b} /\ rcu' = rcu \cup {b} /\ UNCHANGED <<pc, blk>>
  <2>1. Held' = Held
    BY <1>4 DEF Held
  <2> QED BY <2>1 DEF HeldMoves
<1> QED BY <1>2, <1>3, <1>4 DEF GivesBack

\* Every step.
LEMMA NextMoves ==
  ASSUME IInv, [Next]_vars PROVE HeldMoves
<1>1. CASE UNCHANGED vars
  BY <1>1 DEF vars, Held, HeldMoves
<1>2. ASSUME NEW t \in Thread, StatLoad(t) \/ StatStore(t) PROVE HeldMoves
  <2>1. Held' = Held
    BY <1>2 DEF StatLoad, StatStore, Held
  <2> QED BY <2>1 DEF HeldMoves
<1>3. ASSUME NEW t \in Thread, NEW size \in KmallocSizes, Kmalloc(t, size) PROVE HeldMoves
  BY <1>3, CallMoves
<1>4. ASSUME NEW t \in Thread, NEW c \in Caches, CacheAlloc(t, c) PROVE HeldMoves
  BY <1>4, CallMoves
<1>5. ASSUME NEW t \in Thread,
             Search(t) \/ NewPage(t) \/ NoPage(t) \/ Insert(t) \/ AllocReturn(t) \/ Free(t) \/ Release(t)
      PROVE  HeldMoves
  BY <1>5, SectionMoves, ReturnMoves, FreeMoves
<1>6. ASSUME NEW t \in Thread, NEW b \in live,
             IF b.kind = "kmalloc" THEN Kfree(t, b) ELSE CacheFree(t, b)
      PROVE  HeldMoves
  BY <1>6, CallsGiveBack, GiveBackMoves
<1>7. ASSUME NEW t \in Thread, NEW b \in rcu, RcuFree(t, b) PROVE HeldMoves
  BY <1>7, CallsGiveBack, GiveBackMoves
<1> QED BY <1>1, <1>2, <1>3, <1>4, <1>5, <1>6, <1>7 DEF Next

\* The memory of a block.
Memory(b) == [page |-> b.page, words |-> Words(b)]

\* The memory of an allocated block is a run of words of a frame, and two of them
\* overlap nowhere.
Apart ==
  /\ \A b \in Held : b.page \in Page /\ Words(b) \in Runs /\ Words(b) # {}
  /\ \A b, d \in Held : b # d /\ b.page = d.page => Words(b) \cap Words(d) = {}

\* They are apart in every state of the invariant.
LEMMA HeldApart == IInv => Apart
<1> SUFFICES ASSUME IInv PROVE Apart
  OBVIOUS
<1>1. ASSUME NEW b \in Held PROVE b.page \in Page /\ Words(b) \in Runs /\ Words(b) # {}
  <2>1. b \in Block /\ Proper(b) /\ b.page \in Page /\ Words(b) \subseteq Word
    BY CallersHold, HeldWords
  <2>2. PageUnits \in Nat \ {0}
    BY PageUnitsAssumption, SMTT(20)
  <2>3. \A o \in Word, n \in 1 .. PageUnits : Extent(o, n) \subseteq Word => Extent(o, n) \in Runs
    BY SMTT(20) DEF Runs
  <2> USE <2>1
  <2>4. CASE b.large
    <3>1. Words(b) = Word
      BY <2>4 DEF Words
    <3>2. Word = Extent(0, PageUnits) /\ 0 \in Word /\ PageUnits \in 1 .. PageUnits
      BY <2>2, SMTT(20) DEF Word, Extent
    <3> QED BY <2>3, <3>1, <3>2
  <2>5. CASE ~b.large
    <3>1. PICK s : s = b.size
      OBVIOUS
    <3>2. s \in Nat /\ s > 0 /\ s < PAGE_SIZE
      BY <2>5, <3>1 DEF Proper, Block
    <3>3. /\ Words(b) = Extent(b.off, SLOB_UNITS(s)) /\ SLOB_UNITS(s) \in Nat \ {0}
          /\ b.off \in Words(b)
      BY <2>5, <3>1, <3>2, SmallWords
    <3>4. SLOB_UNITS(s) \in 1 .. PageUnits
      BY ONLY <2>2, <3>2 DEF SLOB_UNITS, SLOB_UNIT, PAGE_SIZE
    <3> QED BY <2>3, <3>3, <3>4
  <2> QED BY <2>4, <2>5
<1>2. ASSUME NEW b \in Held, NEW d \in Held, b # d, b.page = d.page PROVE Words(b) \cap Words(d) = {}
  <2>1. Owned(b) /\ Owned(d)
    BY CallersHold
  <2>2. ~b.large /\ b.page \in HeapPages
    BY <1>2, <2>1 DEF Owned
  <2>3. SoundPage(page[b.page], HeldIn(b.page)) /\ b \in HeldIn(b.page) /\ d \in HeldIn(b.page)
    BY <1>2, <2>2, HeapPageSound DEF HeldIn
  <2> QED BY <1>2, <2>3 DEF SoundPage
<1> QED BY <1>1, <1>2 DEF Apart

\* A step hands out a block that overlaps none, takes one back whole, or does neither.
LEMMA StepAllocates ==
  ASSUME Apart, Apart', HeldMoves PROVE [Allocator!Next]_Handed
<1>1. Handed = {Memory(b) : b \in Held} /\ Handed' = {Memory(b) : b \in Held'}
  BY DEF Handed, Memory
<1> USE <1>1
<1>2. CASE Held' = Held
  BY <1>2
<1>3. ASSUME NEW b, b \notin Held, Held' = Held \cup {b} PROVE [Allocator!Next]_Handed
  <2>1. /\ \A d \in Held' : d.page \in Page /\ Words(d) \in Runs
        /\ \A e, d \in Held' : e # d /\ e.page = d.page => Words(e) \cap Words(d) = {}
    BY DEF Apart
  <2>2. Memory(b) \in Allocator!Extent
    BY <1>3, <2>1 DEF Allocator!Extent, Memory
  <2>3. Handed' = Handed \cup {Memory(b)}
    BY <1>3
  <2>4. \A y \in Handed : ~Allocator!Overlap(Memory(b), y)
    BY <1>3, <2>1, SMTT(20) DEF Allocator!Overlap, Memory
  <2> QED BY <2>2, <2>3, <2>4 DEF Allocator!Next, Allocator!Alloc
<1>4. ASSUME NEW b \in Held, Held' = Held \ {b} PROVE [Allocator!Next]_Handed
  <2>1. \A d \in Held : d # b => Memory(d) # Memory(b)
    BY DEF Apart, Memory
  <2>2. Handed' = Handed \ {Memory(b)} /\ Memory(b) \in Handed
    BY <1>4, <2>1
  <2> QED BY <2>2 DEF Allocator!Next, Allocator!Free
<1>5. ASSUME NEW b, b \in Held, Held' = Held \cup {b} PROVE [Allocator!Next]_Handed
  BY <1>2, <1>5
<1> QED BY <1>2, <1>3, <1>4 DEF HeldMoves

\* kmalloc, the caches and the lists, pages, headers and footers behind them are an
\* allocator: a block that is handed out overlaps no other, and slob_free, which is
\* told its size anew, gives back exactly the words that were handed out.
THEOREM HeapAllocates == Spec => ImplementsAllocator
<1>1. Init => Allocator!Init
  BY DEF Init, Allocator!Init, Handed, Held
<1>2. IInv /\ Apart /\ Apart' /\ [Next]_vars => [Allocator!Next]_Handed
  BY NextMoves, StepAllocates
<1>3. Spec => []IInv
  BY HeapInvariant
<1> QED BY <1>1, <1>2, <1>3, HeldApart, PTL DEF Spec, ImplementsAllocator, Allocator!Spec
=============================================================================
