--------------------------- MODULE BlockAllocator ---------------------------
(***************************************************************************)
(* What a memory allocator promises its callers, whatever it does inside:  *)
(* a block is handed out only if it overlaps none of those that are held,  *)
(* it is the same memory until it is given back, and it is given back as a *)
(* whole.                                                                  *)
(***************************************************************************)
CONSTANTS
  Page,      \* the page frames
  Extents    \* the runs of words a block may have

VARIABLE held    \* the blocks that are handed out

Extent == [page : Page, words : Extents]

Overlap(x, y) == x.page = y.page /\ x.words \cap y.words # {}

Init == held = {}

Alloc(x) ==
  /\ \A y \in held : ~Overlap(x, y)
  /\ held' = held \cup {x}

Free(x) == held' = held \ {x}

Next ==
  \/ \E x \in Extent : Alloc(x)
  \/ \E x \in held : Free(x)

Spec == Init /\ [][Next]_held
=============================================================================
