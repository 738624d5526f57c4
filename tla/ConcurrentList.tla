--------------------------- MODULE ConcurrentList ---------------------------
(***************************************************************************)
(* The searchers, inserters and deleters of concurrency/concurrency3/      *)
(* con3.c, which share one singly linked list.                             *)
(*                                                                         *)
(* A searcher takes search_lock, an inserter insert_lock and a deleter     *)
(* insert_lock and then search_lock, all with pthread_mutex_trylock.       *)
(* Before they try, inserters and deleters call linked_list_size, which    *)
(* walks the list without a lock.  A step is one access to the shared list *)
(* or one operation on a mutex.  sleep() is no step: how long a thread     *)
(* stays where it is is left open anyway.  delete_lock is never used.      *)
(* The random values of the items are abstracted to a choice: a deleter    *)
(* may find its value in any item.  A local variable that is not used any  *)
(* more is set back to NULL or 0, which keeps the state space small.       *)
(***************************************************************************)
EXTENDS Integers, FiniteSets

CONSTANTS
  Searchers, Inserters, Deleters,   \* the threads (three of each)
  Node,       \* the memory cells malloc can return
  MaxSize,    \* inserters stop at this many items (25)
  NULL        \* the null pointer; also the holder of a free mutex

Thread == Searchers \cup Inserters \cup Deleters
Ptr == Node \cup {NULL}

ASSUME ThreadAssumption ==
  /\ Searchers \cap Inserters = {}
  /\ Searchers \cap Deleters = {}
  /\ Inserters \cap Deleters = {}
ASSUME NullAssumption == NULL \notin Node /\ NULL \notin Thread
ASSUME FiniteAssumption == IsFiniteSet(Node) /\ IsFiniteSet(Inserters)
ASSUME MaxSizeAssumption == MaxSize \in Nat /\ MaxSize >= 2

VARIABLES
  head, next,        \* the list
  alloc,             \* the cells that are malloc'ed and not freed
  searchLock,        \* the holder of search_lock
  insertLock,        \* the holder of insert_lock
  pc,
  cur,               \* size, search_list, delete_list, or the cell *end is in
  cnt,               \* i of linked_list_size
  new,               \* insert_list
  prev,              \* prev
  alive,             \* FALSE after a segmentation fault
  linked,            \* history: the cells that are items of the list
  shrunk             \* history: an item has been taken out of the list

list == <<head, next, alloc, linked>>
locks == <<searchLock, insertLock>>
locals == <<cur, cnt, new, prev>>
vars == <<list, locks, pc, locals, alive, shrunk>>

PC == {"start", "count", "lock", "lock2", "walk", "free", "unlock", "unlock2"}

TypeOK ==
  /\ head \in Ptr
  /\ next \in [Node -> Ptr]
  /\ alloc \in SUBSET Node
  /\ linked \in SUBSET Node
  /\ searchLock \in Thread \cup {NULL}
  /\ insertLock \in Thread \cup {NULL}
  /\ pc \in [Thread -> PC]
  /\ cur \in [Thread -> Ptr]
  /\ cnt \in [Thread -> 0 .. MaxSize]
  /\ new \in [Inserters -> Ptr]
  /\ prev \in [Deleters -> Ptr]
  /\ alive \in BOOLEAN
  /\ shrunk \in BOOLEAN

\* main() makes a list of one item before it starts the threads.
Init ==
  \E n \in Node :
    /\ head = n
    /\ next = [m \in Node |-> NULL]
    /\ alloc = {n} /\ linked = {n}
    /\ searchLock = NULL /\ insertLock = NULL
    /\ pc = [t \in Thread |-> "start"]
    /\ cur = [t \in Thread |-> NULL]
    /\ cnt = [t \in Thread |-> 0]
    /\ new = [t \in Inserters |-> NULL]
    /\ prev = [t \in Deleters |-> NULL]
    /\ alive = TRUE /\ shrunk = FALSE

Goto(t, l) == pc' = [pc EXCEPT ![t] = l]
Point(t, p) == cur' = [cur EXCEPT ![t] = p]

-----------------------------------------------------------------------------
(* linked_list_size, called by inserters and deleters. *)

CountStart(t) ==
  /\ t \in Inserters \cup Deleters /\ pc[t] = "start"
  /\ Point(t, head)
  /\ cnt' = [cnt EXCEPT ![t] = 0]
  /\ Goto(t, "count")
  /\ UNCHANGED <<list, locks, new, prev, alive>>

\* What size->next may read: of a freed cell, anything that free() left in it.
Link(n) == IF n \in alloc THEN {next[n]} ELSE Ptr

\* The count stops at MaxSize, beyond which no caller tells counts apart.
CountStep(t) ==
  /\ pc[t] = "count" /\ cur[t] # NULL
  /\ \E p \in Link(cur[t]) : Point(t, p)
  /\ cnt' = [cnt EXCEPT ![t] = IF @ < MaxSize THEN @ + 1 ELSE @]
  /\ UNCHANGED <<list, locks, pc, new, prev, alive>>

\* size->next of a freed cell led nowhere.
Segfault(t) ==
  /\ pc[t] = "count" /\ cur[t] # NULL /\ cur[t] \notin alloc
  /\ alive' = FALSE
  /\ UNCHANGED <<list, locks, pc, locals>>

\* Mutant of SizeAllows: <= for <.
SizeAllowsOneMore(t) == IF t \in Inserters THEN cnt[t] <= MaxSize ELSE cnt[t] > 1

\* The caller's test of the size.
SizeAllows(t) == IF t \in Inserters THEN cnt[t] < MaxSize ELSE cnt[t] > 1

CountEnd(t) ==
  /\ pc[t] = "count" /\ cur[t] = NULL
  /\ Goto(t, IF SizeAllows(t) THEN "lock" ELSE "start")
  /\ cnt' = [cnt EXCEPT ![t] = 0]
  /\ UNCHANGED <<list, locks, cur, new, prev, alive>>

-----------------------------------------------------------------------------
(* insert. *)

\* trylock succeeds; the item is made.  On an empty list nothing more is done:
\* the statement `head == insert_list` has no effect.
InsertLock(t) ==
  /\ t \in Inserters /\ pc[t] = "lock" /\ insertLock = NULL
  /\ insertLock' = t
  /\ \E n \in Node \ alloc :
       /\ alloc' = alloc \cup {n}
       /\ next' = [next EXCEPT ![n] = NULL]
       /\ new' = [new EXCEPT ![t] = n]
  /\ Point(t, head)
  /\ Goto(t, IF head = NULL THEN "unlock" ELSE "walk")
  /\ UNCHANGED <<head, linked, searchLock, cnt, prev, alive>>

InsertBusy(t) ==
  /\ t \in Inserters /\ pc[t] = "lock" /\ insertLock # NULL
  /\ Goto(t, "start")
  /\ UNCHANGED <<list, locks, locals, alive>>

InsertWalk(t) ==
  /\ t \in Inserters /\ pc[t] = "walk" /\ next[cur[t]] # NULL
  /\ Point(t, next[cur[t]])
  /\ UNCHANGED <<list, locks, pc, cnt, new, prev, alive>>

\* Mutant of InsertLink: the item is put behind the head, not behind the last.
InsertLinkAtHead(t) ==
  /\ t \in Inserters /\ pc[t] = "walk" /\ next[cur[t]] = NULL
  /\ next' = [next EXCEPT ![head] = new[t]]
  /\ linked' = linked \cup {new[t]}
  /\ Goto(t, "unlock")
  /\ UNCHANGED <<head, alloc, locks, locals, alive>>

\* Mutant of InsertLink: end = insert_list, for *end.
InsertLinkLocal(t) ==
  /\ t \in Inserters /\ pc[t] = "walk" /\ next[cur[t]] = NULL
  /\ Point(t, new[t])
  /\ Goto(t, "unlock")
  /\ UNCHANGED <<list, locks, cnt, new, prev, alive>>

\* *end = insert_list
InsertLink(t) ==
  /\ t \in Inserters /\ pc[t] = "walk" /\ next[cur[t]] = NULL
  /\ next' = [next EXCEPT ![cur[t]] = new[t]]
  /\ linked' = linked \cup {new[t]}
  /\ Goto(t, "unlock")
  /\ UNCHANGED <<head, alloc, locks, locals, alive>>

InsertUnlock(t) ==
  /\ t \in Inserters /\ pc[t] = "unlock"
  /\ insertLock' = NULL
  /\ Point(t, NULL)
  /\ new' = [new EXCEPT ![t] = NULL]
  /\ Goto(t, "start")
  /\ UNCHANGED <<list, searchLock, cnt, prev, alive>>

-----------------------------------------------------------------------------
(* delete. *)

DeleteLock(t) ==
  /\ t \in Deleters /\ pc[t] = "lock" /\ insertLock = NULL
  /\ insertLock' = t
  /\ Goto(t, "lock2")
  /\ UNCHANGED <<list, searchLock, locals, alive>>

DeleteBusy(t) ==
  /\ t \in Deleters /\ pc[t] = "lock" /\ insertLock # NULL
  /\ Goto(t, "start")
  /\ UNCHANGED <<list, locks, locals, alive>>

\* Mutant of DeleteLockSearch: the result of the second trylock is ignored.
DeleteLockSearchIgnored(t) ==
  /\ t \in Deleters /\ pc[t] = "lock2"
  /\ searchLock' = t
  /\ Point(t, head)
  /\ Goto(t, "walk")
  /\ UNCHANGED <<list, insertLock, cnt, new, prev, alive>>

\* The second trylock succeeds, and the walk for a random value starts
\* with delete_list = head.
DeleteLockSearch(t) ==
  /\ t \in Deleters /\ pc[t] = "lock2" /\ searchLock = NULL
  /\ searchLock' = t
  /\ Point(t, head)
  /\ Goto(t, "walk")
  /\ UNCHANGED <<list, insertLock, cnt, new, prev, alive>>

\* Mutant of DeleteBusySearch: it does not unlock insert_lock.
DeleteBusySearchKeeps(t) ==
  /\ t \in Deleters /\ pc[t] = "lock2" /\ searchLock # NULL
  /\ Goto(t, "start")
  /\ UNCHANGED <<list, locks, locals, alive>>

DeleteBusySearch(t) ==
  /\ t \in Deleters /\ pc[t] = "lock2" /\ searchLock # NULL
  /\ Goto(t, "unlock2")
  /\ UNCHANGED <<list, locks, locals, alive>>

\* Mutant of DeleteWalk: prev is not kept.
DeleteWalkNoPrev(t) ==
  /\ t \in Deleters /\ pc[t] = "walk" /\ cur[t] # NULL
  /\ Point(t, next[cur[t]])
  /\ UNCHANGED <<list, locks, pc, cnt, new, prev, alive>>

\* delete_list is not the value looked for.
DeleteWalk(t) ==
  /\ t \in Deleters /\ pc[t] = "walk" /\ cur[t] # NULL
  /\ prev' = [prev EXCEPT ![t] = cur[t]]
  /\ Point(t, next[cur[t]])
  /\ UNCHANGED <<list, locks, pc, cnt, new, alive>>

\* Mutant of DeleteUnlink: only the head is ever unlinked.
DeleteUnlinkHeadOnly(t) ==
  /\ t \in Deleters /\ pc[t] = "walk" /\ cur[t] # NULL
  /\ head' = IF cur[t] = head THEN next[cur[t]] ELSE head
  /\ linked' = linked \ {cur[t]}
  /\ Goto(t, "free")
  /\ UNCHANGED <<next, alloc, locks, locals, alive>>

\* It is: it is taken out of the list.
DeleteUnlink(t) ==
  /\ t \in Deleters /\ pc[t] = "walk" /\ cur[t] # NULL
  /\ IF cur[t] = head
     THEN head' = next[cur[t]] /\ UNCHANGED next
     ELSE next' = [next EXCEPT ![prev[t]] = next[cur[t]]] /\ UNCHANGED head
  /\ linked' = linked \ {cur[t]}
  /\ Goto(t, "free")
  /\ UNCHANGED <<alloc, locks, locals, alive>>

DeleteFree(t) ==
  /\ t \in Deleters /\ pc[t] = "free"
  /\ alloc' = alloc \ {cur[t]}
  /\ next' = [next EXCEPT ![cur[t]] = NULL]
  /\ Goto(t, "unlock")
  /\ UNCHANGED <<head, linked, locks, locals, alive>>

DeleteMiss(t) ==
  /\ t \in Deleters /\ pc[t] = "walk" /\ cur[t] = NULL
  /\ Goto(t, "unlock")
  /\ UNCHANGED <<list, locks, locals, alive>>

DeleteUnlockSearch(t) ==
  /\ t \in Deleters /\ pc[t] = "unlock"
  /\ searchLock' = NULL
  /\ Point(t, NULL)
  /\ prev' = [prev EXCEPT ![t] = NULL]
  /\ Goto(t, "unlock2")
  /\ UNCHANGED <<list, insertLock, cnt, new, alive>>

DeleteUnlock(t) ==
  /\ t \in Deleters /\ pc[t] = "unlock2"
  /\ insertLock' = NULL
  /\ Goto(t, "start")
  /\ UNCHANGED <<list, searchLock, locals, alive>>

-----------------------------------------------------------------------------
(* search.  A trylock that fails leaves the thread where it is. *)

\* On an empty list the thread goes back to the trylock, mutex in hand.
SearchLock(t) ==
  /\ t \in Searchers /\ pc[t] = "start" /\ searchLock = NULL
  /\ searchLock' = t
  /\ Point(t, head)
  /\ Goto(t, IF head = NULL THEN "start" ELSE "walk")
  /\ UNCHANGED <<list, insertLock, cnt, new, prev, alive>>

SearchWalk(t) ==
  /\ t \in Searchers /\ pc[t] = "walk" /\ cur[t] # NULL
  /\ Point(t, next[cur[t]])
  /\ UNCHANGED <<list, locks, pc, cnt, new, prev, alive>>

SearchUnlock(t) ==
  /\ t \in Searchers /\ pc[t] = "walk" /\ cur[t] = NULL
  /\ searchLock' = NULL
  /\ Goto(t, "start")
  /\ UNCHANGED <<list, insertLock, locals, alive>>

-----------------------------------------------------------------------------
Size(t) == CountStart(t) \/ CountStep(t) \/ CountEnd(t) \/ Segfault(t)

Insert(t) ==
  InsertLock(t) \/ InsertBusy(t) \/ InsertWalk(t) \/ InsertLink(t) \/ InsertUnlock(t)

Delete(t) ==
  \/ DeleteLock(t) \/ DeleteBusy(t) \/ DeleteLockSearch(t) \/ DeleteBusySearch(t)
  \/ DeleteWalk(t) \/ DeleteUnlink(t) \/ DeleteFree(t) \/ DeleteMiss(t)
  \/ DeleteUnlockSearch(t) \/ DeleteUnlock(t)

Search(t) == SearchLock(t) \/ SearchWalk(t) \/ SearchUnlock(t)

Step(t) ==
  /\ alive
  /\ Size(t) \/ Insert(t) \/ Delete(t) \/ Search(t)
  /\ shrunk' = (shrunk \/ ~(linked \subseteq linked'))

Next == \E t \in Thread : Step(t)

Spec == Init /\ [][Next]_vars

-----------------------------------------------------------------------------
\* A deleter between its two trylocks and its two unlocks.
Deleting(t) == t \in Deleters /\ pc[t] \in {"walk", "free", "unlock"}

\* "Following the assignment constraints": deletions exclude everybody else,
\* insertions exclude each other, and a search may run beside one insertion.
Exclusion ==
  \A t, u \in Thread :
    /\ Deleting(t) /\ t # u
         => ~Deleting(u) /\ ~(u \in Searchers \cup Inserters /\ pc[u] = "walk")
    /\ {t, u} \subseteq Inserters /\ pc[t] = "walk" /\ pc[u] = "walk" => t = u

\* A thread that walks the list with its mutex never leaves the list: search_list
\* and *end are cells of the list, so is delete_list until it is unlinked, and
\* prev, which delete never initialises, is the cell before it.
WalkersInList ==
  /\ \A t \in Searchers : pc[t] = "walk" => cur[t] \in linked \cup {NULL}
  /\ \A t \in Inserters : pc[t] = "walk" => cur[t] \in linked
  /\ \A t \in Deleters :
       /\ pc[t] = "walk" => cur[t] \in linked \cup {NULL}
       /\ pc[t] = "walk" /\ cur[t] # head =>
            prev[t] \in linked /\ next[prev[t]] = cur[t]
       /\ pc[t] = "free" => cur[t] \in alloc \ linked

\* Following next from any item leads to an item or to the end, no two items
\* have the same successor, and none precedes the head.
ListWellFormed ==
  /\ linked \subseteq alloc
  /\ head \in linked \cup {NULL}
  /\ \A n \in linked : next[n] \in (linked \ {head}) \cup {NULL}
  /\ \A n, m \in linked : next[n] = next[m] /\ next[n] # NULL => n = m

\* The cells reached from the head in at most k steps.
Reach[k \in Nat] ==
  IF k = 0 THEN {head} \ {NULL}
           ELSE Reach[k - 1] \cup ({next[n] : n \in Reach[k - 1]} \ {NULL})

\* Every item can still be found from the head, and only items can: an unlink
\* in the middle loses nothing but the item it deletes.
NothingLost == Reach[Cardinality(Node)] = linked

\* The size is tested before insert_lock is taken, so inserters overshoot, but as
\* long as nothing has been deleted by no more than one item for each inserter
\* but the first.
OvershootBounded ==
  ~shrunk => Cardinality(linked) <= MaxSize + Cardinality(Inserters) - 1

\* Both mutexes come back on every path.  insert_lock has been given back by whoever
\* is at its next count or trylock, search_lock by every deleter that does not walk
\* and by every searcher at its next trylock, unless it has found the list empty.
LocksReturned ==
  /\ \A t \in Inserters \cup Deleters :
       pc[t] \in {"start", "count", "lock"} => insertLock # t
  /\ \A t \in Deleters : searchLock = t => pc[t] \in {"walk", "free", "unlock"}
  /\ \A t \in Searchers : pc[t] = "start" /\ searchLock = t => head = NULL

\* An item that is inserted into a list with items can be found from the head and is
\* the last until insert_lock is given back, whatever deleters have done to the list
\* between the count of the inserter and its walk.
InsertedIsLast ==
  \A t \in Inserters :
    pc[t] = "unlock" /\ head # NULL =>
      new[t] \in Reach[Cardinality(Node)] /\ next[new[t]] = NULL

\* "inserts an item in the list": when an inserter has made its item and is about to
\* give insert_lock back, the item can be found from the head.
InsertionTakesEffect ==
  \A t \in Inserters : pc[t] = "unlock" => new[t] \in Reach[Cardinality(Node)]

\* linked_list_size counts items of the list ("checks for size of linked list").
CountsItems ==
  \A t \in Inserters \cup Deleters :
    pc[t] = "count" => cur[t] \in alloc \cup {NULL}
=============================================================================
