--------------------------- MODULE EncryptedDisk ----------------------------
(***************************************************************************)
(* What an encrypted disk promises.  A request is a job of several         *)
(* segments; each is carried out at once, under the key in force, and a    *)
(* job is over when all its segments have been carried out, in their order *)
(* and once each.  A cell keeps the key it was written with, and what is   *)
(* read under another key is Junk.                                         *)
(***************************************************************************)
EXTENDS Integers, Sequences

CONSTANTS Request, SECTOR, Keys, Junk

VARIABLES
  disk,    \* the cells
  key,     \* the key in force
  job      \* what is to be done for every request: the sectors from pos to end

vars == <<disk, key, job>>

Seal(k, v) == [key |-> k, val |-> v]
Unseal(k, c) == IF c.key = k THEN c.val ELSE Junk

NoJob == [state |-> "none"]

Init == job = [r \in Request |-> NoJob]

Begin(r) ==
  /\ job[r].state = "none" /\ job'[r].state = "begun"
  /\ job' = [job EXCEPT ![r] = job'[r]]
  /\ UNCHANGED <<disk, key>>

\* n sectors from pos.
Segment(r, n) ==
  LET j == job[r]
      first == j.pos * SECTOR
      rest == [j EXCEPT !.pos = @ + n]
  IN  \/ /\ j.write
         /\ disk' = [u \in DOMAIN disk |->
                       IF u \in first .. first + n * SECTOR - 1
                       THEN Seal(key, j.val) ELSE disk[u]]
         /\ job' = [job EXCEPT ![r] = rest]
      \/ /\ ~j.write
         /\ job' = [job EXCEPT ![r] =
              [rest EXCEPT !.got = @ \o [i \in 1 .. n * SECTOR |->
                                           Unseal(key, disk[first + i - 1])]]]
         /\ UNCHANGED disk

\* The next segment of the job of r is carried out.
Apply(r) ==
  /\ job[r].state = "begun" /\ job[r].fs
  /\ \E n \in 1 .. job[r].end - job[r].pos : Segment(r, n)
  /\ UNCHANGED key

\* A job ends when nothing is left of it; one that is not for the file system
\* is refused.
End(r) ==
  /\ job[r].state = "begun" /\ (job[r].fs => job[r].pos = job[r].end)
  /\ job' = [job EXCEPT ![r] = NoJob]
  /\ UNCHANGED <<disk, key>>

SetKey == key' \in Keys /\ UNCHANGED <<disk, job>>

Next == SetKey \/ \E r \in Request : Begin(r) \/ Apply(r) \/ End(r)

Spec == Init /\ [][Next]_vars
=============================================================================
