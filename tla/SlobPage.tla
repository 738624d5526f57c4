------------------------------ MODULE SlobPage ------------------------------
(***************************************************************************)
(* What slob.c (kernel/project4/code/slob.c) does inside one page: the     *)
(* encoding of the free blocks in the memory they occupy, allocation from  *)
(* the page and the return of a block to it.                               *)
(*                                                                         *)
(* A page is a record of its memory, in words of SLOB_UNIT bytes, and of   *)
(* the fields of struct page that SLOB uses.  Pointers are word offsets    *)
(* from the start of the page, so masking with PAGE_MASK is taking them    *)
(* modulo the page; the offset PageUnits is the start of the next page,    *)
(* with which the free list ends.  Allocated words hold what their owner   *)
(* has put there.                                                          *)
(***************************************************************************)
EXTENDS Integers, Sequences

CONSTANT PageUnits    \* SLOB_UNITS(PAGE_SIZE)

ASSUME PageUnitsAssumption == PageUnits \in Nat /\ PageUnits >= 2

SLOB_UNIT == 2        \* sizeof(slob_t), for pages of up to 64 kB

SLOB_UNITS(size) == (size + SLOB_UNIT - 1) \div SLOB_UNIT

\* The NULL of prev in slob_page_alloc, and of a failed allocation.
NoBlock == -1

Word == 0 .. PageUnits - 1

SlobPageType ==
  [words : [Word -> Int], units : 0 .. PageUnits, freelist : 0 .. PageUnits,
   slab : BOOLEAN, free : BOOLEAN]

-----------------------------------------------------------------------------
(* The encoding of a free block s in the words w. *)

\* A free block of one word has no room for a size: it holds the offset of
\* the next free block, negated.
set_slob(w, s, size, next) ==
  IF size > 1 THEN [w EXCEPT ![s] = size, ![s + 1] = next]
              ELSE [w EXCEPT ![s] = -next]

slob_units(w, s) == IF w[s] > 0 THEN w[s] ELSE 1

slob_next(w, s) == IF w[s] < 0 THEN -w[s] ELSE w[s + 1]

slob_last(w, s) == slob_next(w, s) % PageUnits = 0

\* One step of a loop over the free list, which ends with its last block.
Onward(w, s) == IF slob_last(w, s) THEN s ELSE slob_next(w, s)

\* The blocks a loop over the free list comes to, the first of them being 0.
FreeList(pg) ==
  LET at[k \in Nat] == IF k = 0 THEN pg.freelist ELSE Onward(pg.words, at[k - 1])
  IN  at

\* The list has no more blocks than the page has words.
ListIndex == 0 .. PageUnits - 1

-----------------------------------------------------------------------------
(* slob_page_alloc. *)

\* Mutant of AlignDelta: the alignment is ignored.
NoDelta(cur, align) == 0

\* The words to skip from cur to the next multiple of align bytes.
AlignDelta(cur, align) ==
  IF align = 0 THEN 0
  ELSE LET a == SLOB_UNITS(align) IN ((cur + a - 1) \div a) * a - cur

\* There is room for units words in the free block s.
Fits(w, s, units, align) == slob_units(w, s) >= units + AlignDelta(s, align)

\* The first free block with room enough, or NoBlock, and its predecessor in the
\* list: the loop ends when there is room, or at the last block.
FirstFit(pg, units, align) ==
  LET w  == pg.words
      at == FreeList(pg)
      Stop(k) == Fits(w, at[k], units, align) \/ slob_last(w, at[k])
      end == CHOOSE k \in ListIndex : Stop(k) /\ \A j \in 0 .. k - 1 : ~Stop(j)
  IN  [prev |-> IF end = 0 THEN NoBlock ELSE at[end - 1],
       cur  |-> IF Fits(w, at[end], units, align) THEN at[end] ELSE NoBlock]

\* The page after its free block cur has been cut in two, delta words and the
\* rest.
SplitHead(w, cur, delta) ==
  IF delta = 0 THEN w
  ELSE set_slob(set_slob(w, cur + delta, slob_units(w, cur) - delta, slob_next(w, cur)),
                cur, delta, cur + delta)

\* Mutant of TakeUnits: the rest of the block is one word short.
TakeUnitsLosesOne(pg, prev, cur, units) ==
  LET w     == pg.words
      avail == slob_units(w, cur)
      next  == slob_next(w, cur)
      rest  == IF avail = units THEN next ELSE cur + units
      w1    == IF prev = NoBlock THEN w ELSE set_slob(w, prev, slob_units(w, prev), rest)
  IN  [pg EXCEPT
         !.words = IF avail = units THEN w1 ELSE set_slob(w1, rest, avail - units - 1, next),
         !.freelist = IF prev = NoBlock THEN rest ELSE @,
         !.units = @ - units]

\* The page after the first units words of cur have been taken off the free
\* list, of which prev is the predecessor.
TakeUnits(pg, prev, cur, units) ==
  LET w     == pg.words
      avail == slob_units(w, cur)
      next  == slob_next(w, cur)
      rest  == IF avail = units THEN next ELSE cur + units
      w1    == IF prev = NoBlock THEN w ELSE set_slob(w, prev, slob_units(w, prev), rest)
  IN  [pg EXCEPT
         !.words = IF avail = units THEN w1 ELSE set_slob(w1, rest, avail - units, next),
         !.freelist = IF prev = NoBlock THEN rest ELSE @,
         !.units = @ - units]

\* The block allocated, or NoBlock, and the page afterwards.  Taking a full
\* page off its list is left to the caller, who owns the lists.
slob_page_alloc(pg, size, align) ==
  LET units == SLOB_UNITS(size)
      fit   == FirstFit(pg, units, align)
      delta == AlignDelta(fit.cur, align)
      split == [pg EXCEPT !.words = SplitHead(@, fit.cur, delta)]
  IN  IF fit.cur = NoBlock THEN [block |-> NoBlock, page |-> pg]
      ELSE [block |-> fit.cur + delta,
            page  |-> TakeUnits(split, IF delta = 0 THEN fit.prev ELSE fit.cur,
                                fit.cur + delta, units)]

-----------------------------------------------------------------------------
(* slob_free, inside the page. *)

\* A page with no free block gets its first one.
FirstFree(pg, b, units) ==
  [pg EXCEPT !.units = units, !.freelist = b,
             !.words = set_slob(@, b, units, PageUnits)]

\* The free block after which b belongs, in address order: the first whose
\* successor is not before b.
Predecessor(pg, b) ==
  LET at == FreeList(pg)
      Stop(k) == b <= slob_next(pg.words, at[k])
  IN  at[CHOOSE k \in ListIndex : Stop(k) /\ \A j \in 0 .. k - 1 : ~Stop(j)]

\* Mutant of InsertFirst: no joining.
InsertFirstNoJoin(pg, b, units) ==
  [pg EXCEPT !.words = set_slob(@, b, units, pg.freelist), !.freelist = b]

\* b goes before all the free blocks, joined with the first if they touch.
InsertFirst(pg, b, units) ==
  LET w    == pg.words
      f    == pg.freelist
      join == b + units = f
  IN  [pg EXCEPT
         !.words = set_slob(w, b, IF join THEN units + slob_units(w, f) ELSE units,
                            IF join THEN slob_next(w, f) ELSE f),
         !.freelist = b]

\* Mutant of InsertAfter: joined with the block before, touching or not.
InsertAfterAlwaysJoins(pg, b, units) ==
  LET w    == pg.words
      prev == Predecessor(pg, b)
      w1   == set_slob(w, b, units, slob_next(w, prev))
  IN  [pg EXCEPT !.words = set_slob(w1, prev, units + slob_units(w1, prev), slob_next(w1, b))]

\* b goes after a free block, joined with its neighbours if they touch.
InsertAfter(pg, b, units) ==
  LET w    == pg.words
      prev == Predecessor(pg, b)
      next == slob_next(w, prev)
      w1   == IF ~slob_last(w, prev) /\ b + units = next
              THEN set_slob(w, b, units + slob_units(w, next), slob_next(w, next))
              ELSE set_slob(w, b, units, next)
      w2   == IF prev + slob_units(w1, prev) = b
              THEN set_slob(w1, prev, slob_units(w1, b) + slob_units(w1, prev),
                            slob_next(w1, b))
              ELSE set_slob(w1, prev, slob_units(w1, prev), b)
  IN  [pg EXCEPT !.words = w2]

\* Mutant of Reinsert: the units are counted twice.
ReinsertTwice(pg, b, units) ==
  LET more == [pg EXCEPT !.units = @ + 2 * units]
  IN  IF b < pg.freelist THEN InsertFirst(more, b, units)
                         ELSE InsertAfter(more, b, units)

\* The page is partially free already: find the reinsertion point.
Reinsert(pg, b, units) ==
  LET more == [pg EXCEPT !.units = @ + units]
  IN  IF b < pg.freelist THEN InsertFirst(more, b, units)
                         ELSE InsertAfter(more, b, units)

-----------------------------------------------------------------------------
Extent(off, len) == off .. off + len - 1

\* The words on the free list of a page.
FreeWords(pg) ==
  IF pg.units = 0 THEN {}
  ELSE LET at == FreeList(pg)
       IN  UNION {Extent(at[k], slob_units(pg.words, at[k])) : k \in ListIndex}
=============================================================================
