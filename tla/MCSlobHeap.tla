----------------------------- MODULE MCSlobHeap -----------------------------
(* Instances of SlobHeap for TLC. *)
EXTENDS SlobHeap, TLC

Cache(size, align, isRcu) == [size |-> size, align |-> align, rcu |-> isRcu]

\* Objects of one word and of two, with an RCU footer in the second; and objects of
\* a page, with and without RCU.
MixedCaches ==
  {Cache(1, 0, FALSE), Cache(2, 0, TRUE), Cache(10, 0, FALSE), Cache(8, 0, TRUE)}

\* Objects of one word, and of two with an RCU footer in the second.
RcuCaches == {Cache(2, 0, FALSE), Cache(2, 0, TRUE)}

\* Objects of one and of two words.
PlainCaches == {Cache(2, 0, FALSE), Cache(4, 0, FALSE)}

\* Frames are interchangeable, and so are threads.
Symmetry == Permutations(Page) \cup Permutations(Thread)
=============================================================================
