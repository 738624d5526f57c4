---------------------------- MODULE Philosophers ----------------------------
(***************************************************************************)
(* The dining philosophers of concurrency/concurrency2/philosophers.java.  *)
(*                                                                         *)
(* Every Chopstick is a Java monitor (its synchronized methods) that also  *)
(* contains a binary Semaphore.  A philosopher thread runs                 *)
(*                                                                         *)
(*   think; grab right, left; acquire right, left; eat; release right,     *)
(*   left; set right, left                                                 *)
(*                                                                         *)
(* for ever.  The chopstick it is dealing with is given by hand[p], so a   *)
(* phase of run() is done once with hand = "right" and once with "left".   *)
(* The state in which a monitor is owned across steps is the one in which  *)
(* its owner is blocked in sem.acquire() inside grabChopstick.             *)
(***************************************************************************)
EXTENDS Integers

CONSTANT N            \* the number of philosophers and of chopsticks (5)

ASSUME NAssumption == N \in Nat /\ N >= 2

Philo == 0 .. N - 1
Stick == 0 .. N - 1

\* The owner of a monitor no thread is in.
Nobody == N

\* The two chopsticks handed to philosopher p by the constructor.
Right(p) == p
Left(p) == IF p + 1 = N THEN 0 ELSE p + 1

\* chopsticks[i] is first held by the lower numbered of its two users.
FirstUser(i) == LET before == (i + N - 1) % N
                IN  IF i < before THEN i ELSE before

VARIABLES
  mainuser,   \* Chopstick.mainuser
  clean,      \* Chopstick.clean
  sem,        \* the permits of Chopstick.sem
  monitor,    \* which thread is inside a synchronized method of the chopstick
  waitset,    \* the threads in wait() on the chopstick
  pc, hand    \* where each philosopher is in run(), and with which chopstick

vars == <<mainuser, clean, sem, monitor, waitset, pc, hand>>

Phase == {"think", "grab", "wait", "sem", "put", "acq", "eating", "rel", "set"}

TypeOK ==
  /\ mainuser \in [Stick -> Philo]
  /\ clean \in [Stick -> BOOLEAN]
  /\ sem \in [Stick -> {0, 1}]
  /\ monitor \in [Stick -> Philo \cup {Nobody}]
  /\ waitset \in [Stick -> SUBSET Philo]
  /\ pc \in [Philo -> Phase]
  /\ hand \in [Philo -> {"right", "left"}]
  /\ \A p \in Philo : pc[p] \in {"think", "eating"} => hand[p] = "right"

Init ==
  /\ mainuser = [c \in Stick |-> FirstUser(c)]
  /\ clean = [c \in Stick |-> FALSE]
  /\ sem = [c \in Stick |-> 1]
  /\ monitor = [c \in Stick |-> Nobody]
  /\ waitset = [c \in Stick |-> {}]
  /\ pc = [p \in Philo |-> "think"]
  /\ hand = [p \in Philo |-> "right"]

-----------------------------------------------------------------------------
\* The chopstick p is dealing with.
Chop(p) == IF hand[p] = "right" THEN Right(p) ELSE Left(p)

\* p is done with one chopstick: on to the left one, or to the next phase.
Done(p, phase, next) ==
  IF hand[p] = "right"
  THEN pc' = [pc EXCEPT ![p] = phase] /\ hand' = [hand EXCEPT ![p] = "left"]
  ELSE pc' = [pc EXCEPT ![p] = next] /\ hand' = [hand EXCEPT ![p] = "right"]

Goto(p, phase) == pc' = [pc EXCEPT ![p] = phase] /\ UNCHANGED hand

-----------------------------------------------------------------------------
\* think(): the sleep is over.
Think(p) ==
  /\ pc[p] = "think"
  /\ Goto(p, "grab")
  /\ UNCHANGED <<mainuser, clean, sem, monitor, waitset>>

\* grabChopstick by the chopstick's own user: the loop is not entered, and in
\* particular clean is left as it is.
GrabOwn(p) ==
  LET c == Chop(p)
  IN  /\ pc[p] = "grab" /\ monitor[c] = Nobody
      /\ mainuser[c] = p
      /\ Done(p, "grab", "acq")
      /\ UNCHANGED <<mainuser, clean, sem, monitor, waitset>>

\* Mutant of GrabDirty: grabChopstick is not synchronized.
GrabDirtyUnsynchronized(p) ==
  LET c == Chop(p)
  IN  /\ pc[p] = "grab"
      /\ mainuser[c] # p /\ ~clean[c]
      /\ Goto(p, "sem")
      /\ UNCHANGED <<mainuser, clean, sem, monitor, waitset>>

\* grabChopstick of a dirty chopstick: p goes on to sem.acquire(), in the
\* monitor.
GrabDirty(p) ==
  LET c == Chop(p)
  IN  /\ pc[p] = "grab" /\ monitor[c] = Nobody
      /\ mainuser[c] # p /\ ~clean[c]
      /\ monitor' = [monitor EXCEPT ![c] = p]
      /\ Goto(p, "sem")
      /\ UNCHANGED <<mainuser, clean, sem, waitset>>

\* Mutant of GrabWait: the wait keeps the monitor, as a sleep would.
GrabWaitInside(p) ==
  LET c == Chop(p)
  IN  /\ pc[p] = "grab" /\ monitor[c] = Nobody
      /\ mainuser[c] # p /\ clean[c]
      /\ monitor' = [monitor EXCEPT ![c] = p]
      /\ Goto(p, "wait")
      /\ UNCHANGED <<mainuser, clean, sem, waitset>>

\* grabChopstick of a clean chopstick: wait() gives the monitor back.
GrabWait(p) ==
  LET c == Chop(p)
  IN  /\ pc[p] = "grab" /\ monitor[c] = Nobody
      /\ mainuser[c] # p /\ clean[c]
      /\ waitset' = [waitset EXCEPT ![c] = @ \cup {p}]
      /\ Goto(p, "wait")
      /\ UNCHANGED <<mainuser, clean, sem, monitor>>

\* sem.acquire() in grabChopstick returns, and the chopstick changes hands.
GrabTake(p) ==
  LET c == Chop(p)
  IN  /\ pc[p] = "sem" /\ sem[c] > 0
      /\ sem' = [sem EXCEPT ![c] = @ - 1]
      /\ clean' = [clean EXCEPT ![c] = TRUE]
      /\ mainuser' = [mainuser EXCEPT ![c] = p]
      /\ Goto(p, "put")
      /\ UNCHANGED <<monitor, waitset>>

\* Mutant of GrabPut: no finally clause.
GrabPutNoRelease(p) ==
  LET c == Chop(p)
  IN  /\ pc[p] = "put"
      /\ monitor' = [monitor EXCEPT ![c] = Nobody]
      /\ Done(p, "grab", "acq")
      /\ UNCHANGED <<mainuser, clean, sem, waitset>>

\* The finally clause; the loop ends and grabChopstick returns.
GrabPut(p) ==
  LET c == Chop(p)
  IN  /\ pc[p] = "put"
      /\ sem' = [sem EXCEPT ![c] = @ + 1]
      /\ monitor' = [monitor EXCEPT ![c] = Nobody]
      /\ Done(p, "grab", "acq")
      /\ UNCHANGED <<mainuser, clean, waitset>>

\* Mutant of Acquire: tryAcquire, its result ignored.
AcquireTry(p) ==
  LET c == Chop(p)
  IN  /\ pc[p] = "acq"
      /\ sem' = [sem EXCEPT ![c] = 0]
      /\ Done(p, "acq", "eating")
      /\ UNCHANGED <<mainuser, clean, monitor, waitset>>

\* acq(), right and then left; eat() sleeps once it has both.
Acquire(p) ==
  LET c == Chop(p)
  IN  /\ pc[p] = "acq" /\ sem[c] > 0
      /\ sem' = [sem EXCEPT ![c] = @ - 1]
      /\ Done(p, "acq", "eating")
      /\ UNCHANGED <<mainuser, clean, monitor, waitset>>

\* The sleep of eat() is over.
Eat(p) ==
  /\ pc[p] = "eating"
  /\ Goto(p, "rel")
  /\ UNCHANGED <<mainuser, clean, sem, monitor, waitset>>

\* rel(), right and then left.
Release(p) ==
  LET c == Chop(p)
  IN  /\ pc[p] = "rel"
      /\ sem' = [sem EXCEPT ![c] = @ + 1]
      /\ Done(p, "rel", "set")
      /\ UNCHANGED <<mainuser, clean, monitor, waitset>>

\* Mutant of Notified: notifyAll() wakes nobody.
NotifiedNobody(c) == pc

\* notifyAll(): every thread in wait() goes back to the head of the loop of
\* grabChopstick, where it needs the monitor again.
Notified(c) == [q \in Philo |-> IF q \in waitset[c] THEN "grab" ELSE pc[q]]

\* setChopstick(), right and then left.
Set(p) ==
  LET c == Chop(p)
  IN  /\ pc[p] = "set" /\ monitor[c] = Nobody
      /\ clean' = [clean EXCEPT ![c] = FALSE]
      /\ waitset' = [waitset EXCEPT ![c] = {}]
      /\ pc' = [Notified(c) EXCEPT
                  ![p] = IF hand[p] = "right" THEN "set" ELSE "think"]
      /\ hand' = [hand EXCEPT ![p] = IF @ = "right" THEN "left" ELSE "right"]
      /\ UNCHANGED <<mainuser, sem, monitor>>

-----------------------------------------------------------------------------
Step(p) ==
  \/ Think(p)
  \/ GrabOwn(p) \/ GrabDirty(p) \/ GrabWait(p) \/ GrabTake(p) \/ GrabPut(p)
  \/ Acquire(p) \/ Eat(p) \/ Release(p) \/ Set(p)

Next == \E p \in Philo : Step(p)

Spec == Init /\ [][Next]_vars

\* Every thread that can go on does: the JVM schedules runnable threads, and
\* between two visits of a neighbour to a monitor or a semaphore lie its
\* sleeps of a second and more.
FairSpec == Spec /\ \A p \in Philo : WF_vars(Step(p))

-----------------------------------------------------------------------------
\* p is in possession of the permit of chopstick c.
HoldsSem(p, c) ==
  \/ pc[p] = "put" /\ c = Chop(p)
  \/ pc[p] = "acq" /\ hand[p] = "left" /\ c = Right(p)
  \/ pc[p] = "eating" /\ c \in {Right(p), Left(p)}
  \/ pc[p] = "rel" /\ hand[p] = "right" /\ c \in {Right(p), Left(p)}
  \/ pc[p] = "rel" /\ hand[p] = "left" /\ c = Left(p)

\* p has come back from grabChopstick on c (or has just made c its own inside
\* it) and has not called setChopstick on c yet.
InUse(p, c) ==
  \/ pc[p] = "put" /\ c = Chop(p)
  \/ pc[p] \in {"grab", "wait", "sem", "put"} /\ hand[p] = "left" /\ c = Right(p)
  \/ pc[p] \in {"acq", "eating", "rel"} /\ c \in {Right(p), Left(p)}
  \/ pc[p] = "set" /\ hand[p] = "right" /\ c \in {Right(p), Left(p)}
  \/ pc[p] = "set" /\ hand[p] = "left" /\ c = Left(p)

\* A permit is available exactly when nobody holds it, and one thread at most
\* holds it: the acquires and releases of eat() and of the finally clause of
\* grabChopstick balance, whatever the interleaving.
PermitConserved ==
  \A c \in Stick :
    /\ sem[c] = 1 <=> \A p \in Philo : ~HoldsSem(p, c)
    /\ \A p, q \in Philo : HoldsSem(p, c) /\ HoldsSem(q, c) => p = q

\* Two philosophers who share a chopstick are never both in the sleep of
\* eat(), although either may have lost the chopstick to the other meanwhile.
NeighboursExclude ==
  \A p, q \in Philo :
    p # q /\ {Right(p), Left(p)} \cap {Right(q), Left(q)} # {}
      => ~(pc[p] = "eating" /\ pc[q] = "eating")

\* The thread inside grabChopstick of a dirty chopstick is alone in the monitor,
\* so what it has read of clean and mainuser still holds when it gets the permit.
MonitorGuards ==
  /\ \A p \in Philo : pc[p] = "sem" =>
       monitor[Chop(p)] = p /\ ~clean[Chop(p)] /\ mainuser[Chop(p)] # p
  /\ \A p \in Philo : pc[p] = "put" =>
       monitor[Chop(p)] = p /\ mainuser[Chop(p)] = p

\* A clean chopstick is in the hands of a user who will still call
\* setChopstick on it: no chopstick stays clean for ever, which would shut the
\* other user out of grabChopstick.
CleanIsInUse == \A c \in Stick : clean[c] => InUse(mainuser[c], c)

\* The wait set of a chopstick has only threads that are in its wait().
WaitsetExact ==
  \A c \in Stick : \A p \in waitset[c] : pc[p] = "wait" /\ Chop(p) = c

\* No lost wakeup: whoever is in wait() waits for a chopstick that is clean
\* and not its own, so a notifyAll is still to come.
NoLostWakeup ==
  \A p \in Philo :
    pc[p] = "wait" => LET c == Chop(p)
                      IN  p \in waitset[c] /\ clean[c] /\ mainuser[c] # p

\* Whoever starts eating puts both chopsticks down again and thinks: neither
\* a neighbour blocked in sem.acquire() with the monitor nor one in wait()
\* can hold up the calls of setChopstick.
EatersFinish == \A p \in Philo : pc[p] = "eating" ~> pc[p] = "think"

\* The Chandy/Misra solution is free of deadlock: the philosophers do not all
\* sit with the right semaphore waiting for the left one.
NoCircularWait ==
  ~ \A p \in Philo : pc[p] = "acq" /\ hand[p] = "left" /\ sem[Left(p)] = 0
=============================================================================
