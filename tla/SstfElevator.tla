---------------------------- MODULE SstfElevator ----------------------------
(***************************************************************************)
(* The I/O scheduler "LOOK" of kernel/project2/code/sstf-iosched.c, and    *)
(* the block layer around it as far as it decides when the scheduler's     *)
(* functions are called.                                                   *)
(*                                                                         *)
(* The block layer calls every function but init_sstf and exit_sstf with   *)
(* queue_lock held, so each is one step.  A request is known by its        *)
(* struct, which is used again when the request has been completed, and    *)
(* has the sector it starts at; its length is left out.  The fields dir    *)
(* and head of struct sstf_data are never read.                            *)
(***************************************************************************)
EXTENDS Integers, FiniteSetsExt, SequencesExt

CONSTANTS
  Request,     \* the request structs of the queue
  Sector,      \* the sectors requests may start at
  Beyond       \* what blk_rq_pos may read from the list head, taken for a request

ASSUME SectorAssumption == Sector \subseteq Nat /\ Beyond \subseteq Nat

VARIABLES
  attached,    \* the elevator of the queue is this one
  draining,    \* the block layer lets no new request through to the elevator
  queue,       \* sstf_data.queue
  pos,         \* blk_rq_pos of every request
  state,       \* what has become of every request
  hung         \* add_req goes round the list for ever, with queue_lock held

vars == <<attached, draining, queue, pos, state, hung>>

TypeOK ==
  /\ attached \in BOOLEAN /\ draining \in BOOLEAN /\ hung \in BOOLEAN
  /\ queue \in Seq(Request)
  /\ pos \in [Request -> Sector]
  /\ state \in [Request -> {"free", "queued", "dispatched"}]

Init ==
  /\ attached = FALSE /\ draining = FALSE /\ hung = FALSE
  /\ queue = <<>>
  /\ pos \in [Request -> Sector]
  /\ state = [r \in Request |-> "free"]

-----------------------------------------------------------------------------
\* init_sstf.  If memory is short it fails and leaves everything as it was.
init_sstf ==
  /\ ~attached
  /\ attached' = TRUE /\ draining' = FALSE
  /\ queue' = <<>>
  /\ UNCHANGED <<pos, state, hung>>

\* The places of the queue where a walk for a request at sector p stops.
AtLeast(p) == {i \in DOMAIN queue : pos[queue[i]] >= p}

\* Mutants of Place: list_add_tail for list_add, which may put the request first;
\* the forward walk goes one too far.
PlaceBefore(p) ==
  IF 1 \notin AtLeast(p)
  THEN {i \in AtLeast(p) : \A j \in AtLeast(p) : i <= j}
  ELSE {IF i = Len(queue) THEN 1 ELSE i + 1 :
          i \in {k \in AtLeast(p) : \A j \in AtLeast(p) : j <= k}}

PlaceBehind(p) ==
  IF 1 \notin AtLeast(p)
  THEN {i + 1 : i \in {k \in AtLeast(p) : \A j \in AtLeast(p) : k <= j}}
  ELSE {IF i = Len(queue) THEN 2 ELSE i + 2 :
          i \in {k \in AtLeast(p) : \A j \in AtLeast(p) : j <= k}}

\* Where a request at sector p goes, the set of the one place, if not all in the
\* queue are below it.  Above the first request the walk is forward, and stops
\* before the first one at or above p.  Otherwise it is backward from the last,
\* and the new one goes behind the request that the walk has left before it stops;
\* if it stops at once, behind the first.
Place(p) ==
  IF 1 \notin AtLeast(p)
  THEN {i \in AtLeast(p) : \A j \in AtLeast(p) : i <= j}
  ELSE {IF i = Len(queue) THEN 2 ELSE i + 2 :
          i \in {k \in AtLeast(p) : \A j \in AtLeast(p) : j <= k}}

\* add_req.  A request above all the others takes the forward walk on to the list
\* head, as if that were a request: it goes last if the walk stops there.
add_req(r, p) ==
  /\ attached /\ ~draining /\ ~hung
  /\ state[r] = "free"
  /\ pos' = [pos EXCEPT ![r] = p]
  /\ state' = [state EXCEPT ![r] = "queued"]
  /\ \/ /\ queue = <<>>
        /\ queue' = <<r>> /\ UNCHANGED hung
     \/ /\ \E i \in Place(p) : queue' = InsertAt(queue, i, r)
        /\ UNCHANGED hung
     \/ /\ queue # <<>> /\ AtLeast(p) = {}
        /\ \E g \in Beyond :
             IF p > g THEN hung' = TRUE /\ UNCHANGED queue
                      ELSE queue' = Append(queue, r) /\ UNCHANGED hung
  /\ UNCHANGED <<attached, draining>>

\* latter_req and former_req, of a request in the queue; {} is NULL.
latter_req(r) == {queue[i + 1] : i \in {j \in 1 .. Len(queue) - 1 : queue[j] = r}}
former_req(r) == {queue[i - 1] : i \in {j \in 2 .. Len(queue) : queue[j] = r}}

\* Mutant of merge_req: no list_del_init.
MergeKeeps(r, next) ==
  /\ attached /\ ~hung
  /\ next \in latter_req(r) \/ r \in former_req(next)
  /\ pos[r] < pos[next]
  /\ state' = [state EXCEPT ![next] = "free"]
  /\ UNCHANGED <<attached, draining, queue, pos, hung>>

\* merge_req.  The block layer merges next into r if it starts where r ends, and
\* then next is free again.
merge_req(r, next) ==
  /\ attached /\ ~hung
  /\ next \in latter_req(r) \/ r \in former_req(next)
  /\ pos[r] < pos[next]
  /\ \E i \in DOMAIN queue : queue[i] = next /\ queue' = RemoveAt(queue, i)
  /\ state' = [state EXCEPT ![next] = "free"]
  /\ UNCHANGED <<attached, draining, pos, hung>>

\* Mutants of dispatch_req: the last request of the queue stays; the request
\* dispatched stays in the queue.
DispatchNotLast ==
  /\ attached /\ ~hung
  /\ Len(queue) > 1
  /\ queue' = Tail(queue)
  /\ state' = [state EXCEPT ![Head(queue)] = "dispatched"]
  /\ UNCHANGED <<attached, draining, pos, hung>>

DispatchKeeps ==
  /\ attached /\ ~hung
  /\ queue # <<>>
  /\ state' = [state EXCEPT ![Head(queue)] = "dispatched"]
  /\ UNCHANGED <<attached, draining, queue, pos, hung>>

\* dispatch_req; with an empty queue it does nothing.
dispatch_req ==
  /\ attached /\ ~hung
  /\ queue # <<>>
  /\ queue' = Tail(queue)
  /\ state' = [state EXCEPT ![Head(queue)] = "dispatched"]
  /\ UNCHANGED <<attached, draining, pos, hung>>

\* The device has completed a request.
Complete(r) ==
  /\ state[r] = "dispatched" /\ ~hung
  /\ state' = [state EXCEPT ![r] = "free"]
  /\ UNCHANGED <<attached, draining, queue, pos, hung>>

\* The elevator is to be changed: requests go round it from now on.
Bypass ==
  /\ attached /\ ~draining /\ ~hung
  /\ draining' = TRUE
  /\ UNCHANGED <<attached, queue, pos, state, hung>>

\* The block layer has seen all requests completed.
Drained == draining /\ \A r \in Request : state[r] = "free"

\* exit_sstf.  Its BUG_ON is the invariant NoBug.
exit_sstf ==
  /\ attached /\ Drained /\ ~hung
  /\ attached' = FALSE /\ draining' = FALSE
  /\ queue' = <<>>
  /\ UNCHANGED <<pos, state, hung>>

-----------------------------------------------------------------------------
Next ==
  \/ init_sstf \/ Bypass \/ dispatch_req \/ exit_sstf
  \/ \E r \in Request, p \in Sector : add_req(r, p)
  \/ \E r, next \in Request : merge_req(r, next)
  \/ \E r \in Request : Complete(r)

Spec == Init /\ [][Next]_vars

\* The block layer runs the queue as long as there are requests, and the device
\* completes what it is given; a drain ends in the change of the elevator.
FairSpec ==
  /\ Spec
  /\ WF_vars(dispatch_req) /\ WF_vars(exit_sstf)
  /\ \A r \in Request : WF_vars(Complete(r))

-----------------------------------------------------------------------------
\* A request that has been added and neither dispatched nor merged is in the
\* queue, once, and no other is: no request is lost, and none is dispatched that
\* the block layer has freed.
QueueExact ==
  /\ \A r \in Request :
       ~hung => (state[r] = "queued" <=> \E i \in DOMAIN queue : queue[i] = r)
  /\ \A i, j \in DOMAIN queue : queue[i] = queue[j] => i = j

\* The BUG_ON of exit_sstf never fires: the block layer counts requests, not the
\* entries of this queue.
NoBug == attached /\ Drained /\ ~hung => queue = <<>>

\* A request above the first is put where all before it are below it, and the one
\* after it is not.
ForwardInPlace ==
  [][\A r \in Request, i \in DOMAIN queue' :
       /\ state[r] = "free" /\ queue'[i] = r
       /\ queue # <<>> /\ pos'[r] > pos[queue[1]]
       => /\ \A j \in 1 .. i - 1 : pos[queue'[j]] < pos'[r]
          /\ i = Len(queue') \/ pos[queue'[i + 1]] >= pos'[r]]_vars

\* The request at the head of the queue is dispatched, although others keep arriving
\* in front of it and behind it on the disk: none is put before it in the queue, and
\* it is merged into none.  Unless add_req does not return.
HeadServed ==
  \A r \in Request :
    queue # <<>> /\ queue[1] = r ~> state[r] = "dispatched" \/ hung

\* Once the block layer drains the queue, everything is dispatched and the
\* elevator can go.
DrainEnds == draining ~> ~draining

\* Requests under way are for different sectors.
Apart ==
  \A r, s \in Request :
    r # s /\ pos[r] = pos[s] => state[r] = "free" \/ state[s] = "free"

\* LOOK "fixed the starvation that SSTF would have": a request is served after a
\* while, even if others for the sectors on one side of it keep coming.
NoStarvation ==
  []Apart => \A r \in Request : state[r] = "queued" ~> state[r] # "queued"
=============================================================================
