------------------------------ MODULE SlobHeap ------------------------------
(***************************************************************************)
(* The SLOB allocator with best-fit page selection of kernel/project4/     *)
(* code/slob.c: slob_alloc and slob_free, kmalloc and kfree, the kmem      *)
(* caches on top of them, and the memory statistics.                       *)
(*                                                                         *)
(* A section under slob_lock is one step.  What slob_alloc and slob_free   *)
(* do outside it is split up: getting a page from alloc_pages, giving one  *)
(* back, and the load and the store of every `counter += n`, which wait in *)
(* todo[t] until thread t has done them.  Threads stand for the CPUs and   *)
(* contexts that are inside the allocator at the same time.                *)
(*                                                                         *)
(* The statistic `free`, written and never read, and the node of a page    *)
(* (CONFIG_NUMA) are left out.                                             *)
(***************************************************************************)
EXTENDS SlobPage, FiniteSetsExt

CONSTANTS
  Page,           \* the page frames
  Thread,
  SLOB_BREAK1, SLOB_BREAK2,   \* in bytes (256 and 1024)
  MINALIGN,       \* the alignment and header size of kmalloc, in bytes
  RCU_SIZE,       \* sizeof(struct slob_rcu)
  KmallocSizes,   \* the sizes callers ask kmalloc for
  Caches,         \* the kmem caches, records of size, align and rcu
  SpAlt,          \* what the uninitialised sp_alt of slob_alloc may contain: NULL,
                  \* or the frames whose struct page a pointer may be left there to
  MaxStat,        \* bound: no call starts while a statistic is beyond it
  NULL

PAGE_SIZE == PageUnits * SLOB_UNIT

ASSUME NullAssumption == NULL \notin Page /\ NULL \notin Int
ASSUME SizeAssumption ==
  /\ MINALIGN \in 1 .. PAGE_SIZE /\ RCU_SIZE \in Nat
  /\ KmallocSizes \subseteq Nat \ {0}
  /\ \A c \in Caches : c.size \in Nat \ {0} /\ c.align \in Nat /\ c.rcu \in BOOLEAN

ASSUME SpAltAssumption == NULL \in SpAlt /\ SpAlt \subseteq Page \cup {NULL}

\* An alignment is a power of two, and struct slob_rcu is longer than a word.
ASSUME LayoutAssumption ==
  /\ MINALIGN % 2 = 0 /\ RCU_SIZE >= SLOB_UNIT
  /\ \A c \in Caches : c.align = 1 \/ c.align % 2 = 0

VARIABLES
  page,     \* struct page and the memory of every frame
  taken,    \* the frames handed out by alloc_pages
  lists,    \* free_slob_small, free_slob_medium, free_slob_large
  live,     \* the blocks in the hands of callers
  rcu,      \* the blocks waiting for kmem_rcu_free
  stat,     \* pcount, claimed_m and used_m
  pc,       \* where each thread is
  blk,      \* the block it is allocating or freeing
  todo,     \* the updates of statistics it has still to make
  tmp       \* the value it has loaded for the first of them, or NULL

vars == <<page, taken, lists, live, rcu, stat, pc, blk, todo, tmp>>

Class == {"small", "medium", "large"}
Stat == {"pcount", "claimed_m", "used_m"}
Kind == {"kmalloc", "cache", "rcu"}
PC == {"idle", "search", "newpage", "insert", "return", "free", "release"}

\* A block as its owner knows it: the size, header and footer included, and the
\* alignment in bytes, what it was allocated with, and if it is a page or more.
Block == [page : Page \cup {NULL}, off : Int, size : Nat, align : Nat,
          kind : Kind, large : BOOLEAN]

TypeOK ==
  /\ page \in [Page -> SlobPageType]
  /\ taken \in SUBSET Page
  /\ DOMAIN lists = Class /\ \A c \in Class : lists[c] \in Seq(Page)
  /\ live \in SUBSET Block /\ rcu \in SUBSET Block
  /\ stat \in [Stat -> Int]
  /\ pc \in [Thread -> PC]
  /\ \A t \in Thread : blk[t] \in Block \cup {NULL}
  /\ \A t \in Thread : todo[t] \in Seq([stat : Stat, add : Int])
  /\ tmp \in [Thread -> Int \cup {NULL}]

BlankPage == [words |-> [i \in Word |-> 0], units |-> 0, freelist |-> 0,
              slab |-> FALSE, free |-> FALSE]

Init ==
  /\ page = [p \in Page |-> BlankPage]
  /\ taken = {}
  /\ lists = [c \in Class |-> <<>>]
  /\ live = {} /\ rcu = {}
  /\ stat = [s \in Stat |-> 0]
  /\ pc = [t \in Thread |-> "idle"]
  /\ blk = [t \in Thread |-> NULL]
  /\ todo = [t \in Thread |-> <<>>]
  /\ tmp = [t \in Thread |-> NULL]

-----------------------------------------------------------------------------
\* The list for objects of size bytes.
ClassOf(size) == CASE size < SLOB_BREAK1 -> "small"
                   [] size >= SLOB_BREAK1 /\ size < SLOB_BREAK2 -> "medium"
                   [] OTHER -> "large"

\* Mutant of Header: the size with the header.
HeaderIncluded(b) == b.size

\* The first words of a kmalloc block are its header, the size without it.
Header(b) == b.size - MINALIGN

\* The words of a block.
Words(b) == IF b.large THEN Word ELSE Extent(b.off, SLOB_UNITS(b.size))

\* The word that has slob_rcu.size.
Footer(b) == b.off + SLOB_UNITS(b.size - RCU_SIZE)

Add(s, n) == [stat |-> s, add |-> n]

Goto(t, l) == pc' = [pc EXCEPT ![t] = l]

\* Thread t, at l, has made all its updates of statistics.
At(t, l) == pc[t] = l /\ todo[t] = <<>>

InBounds == \A s \in Stat : stat[s] \in -MaxStat .. MaxStat

-----------------------------------------------------------------------------
(* counter += n, outside any lock: a load and a store. *)

StatLoad(t) ==
  /\ todo[t] # <<>> /\ tmp[t] = NULL
  /\ tmp' = [tmp EXCEPT ![t] = stat[Head(todo[t]).stat]]
  /\ UNCHANGED <<page, taken, lists, live, rcu, stat, pc, blk, todo>>

StatStore(t) ==
  /\ todo[t] # <<>> /\ tmp[t] # NULL
  /\ stat' = [stat EXCEPT ![Head(todo[t]).stat] = tmp[t] + Head(todo[t]).add]
  /\ todo' = [todo EXCEPT ![t] = Tail(@)]
  /\ tmp' = [tmp EXCEPT ![t] = NULL]
  /\ UNCHANGED <<page, taken, lists, live, rcu, pc, blk>>

-----------------------------------------------------------------------------
(* slob_alloc. *)

\* A caller asks for size bytes.
AllocBegin(t, size, align, kind) ==
  /\ At(t, "idle") /\ InBounds
  /\ blk' = [blk EXCEPT ![t] = [page |-> NULL, off |-> NoBlock, size |-> size,
                                align |-> align, kind |-> kind, large |-> FALSE]]
  /\ Goto(t, "search")
  /\ UNCHANGED <<page, taken, lists, live, rcu, stat, todo, tmp>>

\* The page that the loop of slob_alloc ends with, started with sp_alt = alt: the
\* one with the fewest free words among those with enough, the first of them in
\* the list, if there is one that has fewer than alt.
BestPage(list, units, alt) ==
  LET Free(i) == page[list[i]].units
      Better == {i \in DOMAIN list : units <= Free(i) /\ (alt # NULL => Free(i) < page[alt].units)}
  IN  IF Better = {} THEN alt
      ELSE list[CHOOSE i \in Better :
                  \A j \in Better : Free(i) < Free(j) \/ (Free(i) = Free(j) /\ i <= j)]

\* The places of p on the list of class c.
Occurs(p, c) == {i \in DOMAIN lists[c] : lists[c][i] = p}

\* What sp_alt may be when the loop starts: NULL, or a page that an earlier call
\* has left there and that still is on one of the lists.  What becomes of the code
\* when it follows another value, to a full page or to no page, is left open.
Leftover == {p \in SpAlt : p = NULL \/ \E c \in Class : Occurs(p, c) # {}}

\* Mutant of Unlist: no list_del.
UnlistNothing(ls, p) == ls

\* list_del of p, wherever in the list s it is.
Without(s, p) ==
  IF \A i \in DOMAIN s : s[i] # p THEN s
  ELSE LET k == CHOOSE i \in DOMAIN s : s[i] = p
       IN  [i \in 1 .. Len(s) - 1 |-> IF i < k THEN s[i] ELSE s[i + 1]]


\* clear_slob_page_free and set_slob_page_free, on the lists ls.
Unlist(ls, p) == [c \in Class |-> Without(ls[c], p)]
Enlist(ls, p, c) == [ls EXCEPT ![c] = <<p>> \o @]

\* slob_page_alloc from frame p succeeds, pg and ls being the page and the lists
\* before it.  A page that is full then leaves its list.  more are updates of
\* statistics that come before the one of used_m.
TakeFrom(t, p, pg, ls, more) ==
  LET b == blk[t]
      r == slob_page_alloc(pg, b.size, b.align)
      full == r.page.units = 0
  IN  /\ r.block # NoBlock
      /\ page' = [page EXCEPT ![p] = [r.page EXCEPT !.free = @ /\ ~full]]
      /\ lists' = IF full THEN Unlist(ls, p) ELSE ls
      /\ blk' = [blk EXCEPT ![t].page = p, ![t].off = r.block]
      /\ todo' = [todo EXCEPT ![t] = more \o <<Add("used_m", b.size)>>]
      /\ Goto(t, "return")

CanTake(pg, b) == slob_page_alloc(pg, b.size, b.align).block # NoBlock

\* The first section under slob_lock: the best page, if there is one, is the
\* only one tried.
Search(t) ==
  /\ At(t, "search")
  /\ \E alt \in Leftover :
       LET b == blk[t]
           sp == BestPage(lists[ClassOf(b.size)], SLOB_UNITS(b.size), alt)
       IN  \/ /\ sp # NULL
              /\ TakeFrom(t, sp, page[sp], lists, <<>>)
              /\ UNCHANGED <<taken, live, rcu, stat, tmp>>
           \/ /\ sp # NULL => ~CanTake(page[sp], b)
              /\ Goto(t, "newpage")
              /\ UNCHANGED <<page, taken, lists, live, rcu, stat, blk, todo, tmp>>

\* Mutant of NewPage: no __SetPageSlab.
NewPageNoSlab(t) ==
  /\ At(t, "newpage")
  /\ \E p \in Page \ taken :
       taken' = taken \cup {p} /\ blk' = [blk EXCEPT ![t].page = p]
  /\ Goto(t, "insert")
  /\ UNCHANGED <<page, lists, live, rcu, stat, todo, tmp>>

\* slob_new_pages finds a page ...
NewPage(t) ==
  /\ At(t, "newpage")
  /\ \E p \in Page \ taken :
       /\ taken' = taken \cup {p}
       /\ page' = [page EXCEPT ![p].slab = TRUE]
       /\ blk' = [blk EXCEPT ![t].page = p]
  /\ Goto(t, "insert")
  /\ UNCHANGED <<lists, live, rcu, stat, todo, tmp>>

\* ... or does not, and slob_alloc returns NULL.
NoPage(t) ==
  /\ At(t, "newpage")
  /\ blk' = [blk EXCEPT ![t] = NULL]
  /\ Goto(t, "idle")
  /\ UNCHANGED <<page, taken, lists, live, rcu, stat, todo, tmp>>

\* A page that is one free block, as slob_alloc sets it up.
FreshPage(pg) ==
  [pg EXCEPT !.units = PageUnits, !.freelist = 0, !.free = TRUE,
             !.words = set_slob(@, 0, PageUnits, PageUnits)]

\* The second section under slob_lock.  Its BUG_ON(!b) is the invariant NoBug.
Insert(t) ==
  LET b == blk[t]
  IN  /\ At(t, "insert")
      /\ TakeFrom(t, b.page, FreshPage(page[b.page]),
                  Enlist(lists, b.page, ClassOf(b.size)),
                  <<Add("pcount", 1), Add("claimed_m", PAGE_SIZE)>>)
      /\ UNCHANGED <<taken, live, rcu, stat, tmp>>

\* What a block contains when its owner has it: zeros, and the header that
\* __do_kmalloc_node writes.
Fill(w, b) ==
  [i \in Word |-> IF i \notin Words(b) THEN w[i]
                  ELSE IF b.kind = "kmalloc" /\ ~b.large /\ i = b.off THEN Header(b) ELSE 0]

\* slob_alloc and its caller return.
AllocReturn(t) ==
  /\ At(t, "return")
  /\ page' = [page EXCEPT ![blk[t].page].words = Fill(@, blk[t])]
  /\ live' = live \cup {blk[t]}
  /\ blk' = [blk EXCEPT ![t] = NULL]
  /\ Goto(t, "idle")
  /\ UNCHANGED <<taken, lists, rcu, stat, todo, tmp>>

\* slob_new_pages for an object too large for slob_alloc.  One frame stands
\* for the 2^order pages of the object.
LargeAlloc(t, size, kind) ==
  /\ At(t, "idle") /\ InBounds
  /\ \E p \in Page \ taken :
       LET b == [page |-> p, off |-> 0, size |-> size, align |-> 0,
                 kind |-> kind, large |-> TRUE]
       IN  /\ taken' = taken \cup {p}
           /\ page' = [page EXCEPT ![p].words = Fill(@, b)]
           /\ live' = live \cup {b}
  /\ UNCHANGED <<lists, rcu, stat, pc, blk, todo, tmp>>

\* Mutant of Kmalloc: the header is forgotten in the test.
KmallocNoMargin(t, size) ==
  IF size < PAGE_SIZE
  THEN AllocBegin(t, size + MINALIGN, MINALIGN, "kmalloc")
  ELSE LargeAlloc(t, size, "kmalloc")

\* __do_kmalloc_node; a size of 0 changes nothing.
Kmalloc(t, size) ==
  IF size < PAGE_SIZE - MINALIGN
  THEN AllocBegin(t, size + MINALIGN, MINALIGN, "kmalloc")
  ELSE LargeAlloc(t, size, "kmalloc")

\* The size of a cache's objects after __kmem_cache_create.
CacheSize(c) == IF c.rcu THEN c.size + RCU_SIZE ELSE c.size

\* slob_alloc_node
CacheAlloc(t, c) ==
  LET kind == IF c.rcu THEN "rcu" ELSE "cache"
  IN  IF CacheSize(c) < PAGE_SIZE
      THEN AllocBegin(t, CacheSize(c), c.align, kind)
      ELSE LargeAlloc(t, CacheSize(c), kind)

-----------------------------------------------------------------------------
(* slob_free. *)

\* slob_free(b, size) up to the lock.
FreeBegin(t, b, size) ==
  /\ blk' = [blk EXCEPT ![t] = [b EXCEPT !.size = size]]
  /\ todo' = [todo EXCEPT ![t] = <<Add("used_m", -size)>>]
  /\ Goto(t, "free")
  /\ UNCHANGED <<page, taken, lists, stat, tmp>>

\* The section under slob_lock.  A page that is free altogether goes back to
\* the page allocator, after the lock.
Free(t) ==
  LET b == blk[t]
      p == b.page
      pg == page[p]
      u == SLOB_UNITS(b.size)
  IN  /\ At(t, "free")
      /\ IF pg.units + u = PageUnits
         THEN /\ page' = [page EXCEPT ![p].free = FALSE]
              /\ lists' = Unlist(lists, p)
              /\ Goto(t, "release")
              /\ UNCHANGED blk
         ELSE /\ IF ~pg.free
                 THEN /\ page' = [page EXCEPT ![p] = [FirstFree(pg, b.off, u) EXCEPT !.free = TRUE]]
                      /\ lists' = Enlist(lists, p, ClassOf(b.size))
                 ELSE /\ page' = [page EXCEPT ![p] = Reinsert(pg, b.off, u)]
                      /\ UNCHANGED lists
              /\ Goto(t, "idle")
              /\ blk' = [blk EXCEPT ![t] = NULL]
      /\ UNCHANGED <<taken, live, rcu, stat, todo, tmp>>

\* __ClearPageSlab, slob_free_pages and pcount--.
Release(t) ==
  LET p == blk[t].page
  IN  /\ At(t, "release")
      /\ page' = [page EXCEPT ![p] = BlankPage]
      /\ taken' = taken \ {p}
      /\ blk' = [blk EXCEPT ![t] = NULL]
      /\ todo' = [todo EXCEPT ![t] = <<Add("pcount", -1)>>]
      /\ Goto(t, "idle")
      /\ UNCHANGED <<lists, live, rcu, stat, tmp>>

\* The pages of a large object go back to the page allocator.
LargeFree(b) ==
  /\ page' = [page EXCEPT ![b.page] = BlankPage]
  /\ taken' = taken \ {b.page}
  /\ UNCHANGED <<lists, stat, pc, blk, todo, tmp>>

\* kfree tells small from large objects by PageSlab, and reads the size of a
\* small one from its header.
Kfree(t, b) ==
  /\ At(t, "idle") /\ InBounds
  /\ live' = live \ {b}
  /\ IF page[b.page].slab
     THEN FreeBegin(t, b, page[b.page].words[b.off] + MINALIGN)
     ELSE LargeFree(b)
  /\ UNCHANGED rcu

\* __kmem_cache_free tells them by the size.
KmemCacheFree(t, b, size) ==
  IF size < PAGE_SIZE THEN FreeBegin(t, b, size) ELSE LargeFree(b)

\* Mutant of CacheFree: the footer has the size without the footer.
CacheFreeShort(t, b) ==
  /\ At(t, "idle") /\ InBounds
  /\ live' = live \ {b}
  /\ IF b.kind = "rcu"
     THEN /\ rcu' = rcu \cup {b}
          /\ page' = IF b.large THEN page
                     ELSE [page EXCEPT ![b.page].words[Footer(b)] = b.size - RCU_SIZE]
          /\ UNCHANGED <<taken, lists, stat, pc, blk, todo, tmp>>
     ELSE KmemCacheFree(t, b, b.size) /\ UNCHANGED rcu

\* kmem_cache_free: at once, or by call_rcu with the size in the footer (whose
\* place is not modelled in an object of several pages).
CacheFree(t, b) ==
  /\ At(t, "idle") /\ InBounds
  /\ live' = live \ {b}
  /\ IF b.kind = "rcu"
     THEN /\ rcu' = rcu \cup {b}
          /\ page' = IF b.large THEN page
                     ELSE [page EXCEPT ![b.page].words[Footer(b)] = b.size]
          /\ UNCHANGED <<taken, lists, stat, pc, blk, todo, tmp>>
     ELSE KmemCacheFree(t, b, b.size) /\ UNCHANGED rcu

\* Mutant of RcuFree: the footer is not counted in the size freed.
RcuFreeNoFooter(t, b) ==
  /\ At(t, "idle") /\ InBounds
  /\ rcu' = rcu \ {b}
  /\ KmemCacheFree(t, b, b.size - RCU_SIZE)
  /\ UNCHANGED live

\* kmem_rcu_free, some time after the grace period.
RcuFree(t, b) ==
  /\ At(t, "idle") /\ InBounds
  /\ rcu' = rcu \ {b}
  /\ KmemCacheFree(t, b, IF b.large THEN b.size ELSE page[b.page].words[Footer(b)])
  /\ UNCHANGED live

-----------------------------------------------------------------------------
(* What can be asked of the allocator. *)

\* ksize of a kmalloc block, for a large one if it is of one page.
ksize(b) ==
  IF page[b.page].slab THEN SLOB_UNITS(page[b.page].words[b.off]) * SLOB_UNIT
                       ELSE PAGE_SIZE

\* The two system calls.
sys_slob_used == stat["claimed_m"]
sys_slob_free == stat["claimed_m"] - stat["used_m"]

-----------------------------------------------------------------------------
Next ==
  \E t \in Thread :
    \/ StatLoad(t) \/ StatStore(t)
    \/ \E size \in KmallocSizes : Kmalloc(t, size)
    \/ \E c \in Caches : CacheAlloc(t, c)
    \/ Search(t) \/ NewPage(t) \/ NoPage(t) \/ Insert(t) \/ AllocReturn(t)
    \/ \E b \in live : IF b.kind = "kmalloc" THEN Kfree(t, b) ELSE CacheFree(t, b)
    \/ \E b \in rcu : RcuFree(t, b)
    \/ Free(t) \/ Release(t)

Spec == Init /\ [][Next]_vars

-----------------------------------------------------------------------------
\* The blocks that are allocated: those of callers, those that wait for the end
\* of a grace period, and those a thread has taken and not yet returned, or
\* is about to free.
Held ==
  live \cup rcu \cup {blk[t] : t \in {u \in Thread : pc[u] \in {"return", "free"}}}

HeldIn(p) == {b \in Held : b.page = p}

\* The pages that are part of the heap: not those of large objects, nor one that
\* is being set up or given back.
HeapPages ==
  {p \in Page : page[p].slab /\
     \A t \in Thread : pc[t] \in {"insert", "release"} => blk[t].page # p}

\* Every word of a heap page belongs to exactly one allocated block or to the
\* free list: no two blocks overlap, nothing is handed out twice, and no word
\* is lost by splitting and joining blocks.
PagePartitioned ==
  \A p \in HeapPages :
    /\ \A b, d \in HeldIn(p) : b # d => Words(b) \cap Words(d) = {}
    /\ UNION {Words(b) : b \in HeldIn(p)} = Word \ FreeWords(page[p])

\* The free list of a page is in address order and no two of its blocks touch:
\* slob_free has joined them.
FreeListCoalesced ==
  \A p \in HeapPages :
    page[p].units > 0 =>
      \A k \in ListIndex :
        LET w == page[p].words
            s == FreeList(page[p])[k]
        IN  slob_last(w, s) \/ s + slob_units(w, s) < slob_next(w, s)

\* sp->units, by which slob_alloc chooses a page and slob_free sees that one is
\* empty, is the number of free words; and a page is on one of the lists, once,
\* exactly when it has any.
UnitsExact ==
  \A p \in Page :
    LET onLists == UNION {{c} \X Occurs(p, c) : c \in Class}
    IN  IF p \in HeapPages
        THEN /\ page[p].units = Cardinality(FreeWords(page[p]))
             /\ page[p].free <=> page[p].units > 0
             /\ Cardinality(onLists) = IF page[p].free THEN 1 ELSE 0
        ELSE onLists = {}


\* The allocator writes to free memory only: what an owner has put in its block
\* is there until it frees it, the header and the RCU footer included, which
\* kfree and kmem_rcu_free read the size from.
DataIntact ==
  /\ \A b \in live : \A i \in Words(b) :
       page[b.page].words[i] = Fill(page[b.page].words, b)[i]
  /\ \A b \in rcu : ~b.large => page[b.page].words[Footer(b)] = b.size

\* A block has the alignment its caller asked for.
Aligned ==
  \A b \in Held : b.align > 0 => (b.off * SLOB_UNIT) % b.align = 0

\* kfree and kmem_cache_free find the way a block was allocated: PageSlab holds
\* of the small objects' pages and not of the large ones', and no frame is both.
FreePathMatches ==
  \A b \in Held :
    /\ b.page \in taken
    /\ page[b.page].slab <=> ~b.large
    /\ b.kind # "kmalloc" => (b.large <=> b.size >= PAGE_SIZE)
    /\ b.large => HeldIn(b.page) = {b}

\* ksize tells the owner of a kmalloc block how much of it is for use: at least
\* what was asked for, and no word beyond the block.
KsizeFits ==
  \A b \in live :
    b.kind = "kmalloc" /\ ~b.large =>
      /\ ksize(b) >= b.size - MINALIGN
      /\ MINALIGN + ksize(b) <= SLOB_UNIT * Cardinality(Words(b))

\* A fresh page always has room: the BUG_ON of slob_alloc never fires.
NoBug ==
  \A t \in Thread :
    pc[t] = "insert" => CanTake(FreshPage(page[blk[t].page]), blk[t])

\* The runs of words of a page.
Runs == {Extent(o, n) : o \in Word, n \in 1 .. PageUnits} \cap SUBSET Word

\* The allocated blocks as their memory.
Handed == {[page |-> b.page, words |-> Words(b)] : b \in Held}

Allocator == INSTANCE BlockAllocator WITH Extents <- Runs, held <- Handed

\* kmalloc and the caches implement an allocator: a block they return overlaps no
\* other, and slob_free gives back exactly the words that slob_alloc has handed
\* out, although it is told the size anew, by a header, a footer or the cache.
ImplementsAllocator == Allocator!Spec

Idle == \A t \in Thread : At(t, "idle")

\* The system calls "can be used to verify memory usage": when no call is in
\* progress, sys_slob_used is the memory of the heap, and sys_slob_free what of it
\* is in no allocated block.
StatsExact ==
  Idle => LET heap == PAGE_SIZE * Cardinality(HeapPages)
              used == MapThenSumSet(LAMBDA b : IF b.large THEN 0 ELSE b.size, Held)
          IN  sys_slob_used = heap /\ sys_slob_free = heap - used
=============================================================================
