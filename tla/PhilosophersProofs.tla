------------------------- MODULE PhilosophersProofs -------------------------
(***************************************************************************)
(* Proofs about Philosophers, for any number of philosophers: the types,   *)
(* the conservation of permits, the exclusion of neighbours, and that no   *)
(* chopstick stays clean and no wakeup is lost.                            *)
(***************************************************************************)
EXTENDS Philosophers, TLAPS

\* The provers have more time for a leaf than they take by default.
USE SMTT(20), ZenonT(20)

\* The inductive invariant.  Permits are conserved on their own; the other
\* parts need each other: a chopstick a thread waits for cannot be taken by a
\* third one, since that one would have found it dirty and be in its monitor.
IInv ==
  /\ TypeOK
  /\ PermitConserved
  /\ MonitorGuards
  /\ WaitsetExact
  /\ CleanIsInUse
  /\ NoLostWakeup

\* The two chopsticks of a philosopher are chopsticks, and two.
LEMMA Sticks ==
  ASSUME NEW p \in Philo
  PROVE  Right(p) \in Stick /\ Left(p) \in Stick /\ Right(p) # Left(p)
BY NAssumption DEF Philo, Stick, Right, Left

\* The first user of a chopstick is a philosopher.
LEMMA FirstUserType == \A c \in Stick : FirstUser(c) \in Philo
BY NAssumption DEF Philo, Stick, FirstUser

\* The constructor establishes the invariant.
LEMMA InitInv == Init => IInv
<1> SUFFICES ASSUME Init PROVE IInv
  OBVIOUS
<1>1. TypeOK
  BY FirstUserType, NAssumption DEF Init, TypeOK, Phase
<1>2. PermitConserved
  BY DEF Init, PermitConserved, HoldsSem
<1>3. MonitorGuards /\ WaitsetExact /\ CleanIsInUse /\ NoLostWakeup
  BY DEF Init, MonitorGuards, WaitsetExact, CleanIsInUse, NoLostWakeup
<1> QED BY <1>1, <1>2, <1>3 DEF IInv

\* The chopstick in hand is a chopstick.
LEMMA ChopType == \A p \in Philo : Chop(p) \in Stick
BY Sticks DEF Chop

\* A step of p leaves every other philosopher where it is, or notifies it.
LEMMA OthersStay ==
  ASSUME IInv, NEW p \in Philo, Step(p), NEW q \in Philo, q # p
  PROVE  /\ hand'[q] = hand[q]
         /\ pc'[q] = pc[q] \/ (pc[q] = "wait" /\ pc'[q] = "grab")
<1> USE DEF IInv, TypeOK, Done, Goto
<1>1. CASE Set(p)
  BY <1>1, ChopType DEF Set, Notified, WaitsetExact
<1>2. CASE ~Set(p)
  BY <1>2 DEF Step, Think, GrabOwn, GrabDirty, GrabWait, GrabTake, GrabPut,
              Acquire, Eat, Release
<1> QED BY <1>1, <1>2

\* So it keeps the permits it has.
LEMMA OthersHold ==
  ASSUME IInv, NEW p \in Philo, Step(p), NEW q \in Philo, q # p, NEW c \in Stick
  PROVE  HoldsSem(q, c)' <=> HoldsSem(q, c)
BY OthersStay DEF HoldsSem, Chop

\* A step of p neither takes nor returns a permit ...
Neutral(p) ==
  /\ sem' = sem
  /\ \A d \in Stick : HoldsSem(p, d)' <=> HoldsSem(p, d)

\* ... or takes the permit of c, which is available ...
Takes(p, c) ==
  /\ sem[c] > 0
  /\ sem' = [sem EXCEPT ![c] = @ - 1]
  /\ \A d \in Stick : HoldsSem(p, d)' <=> HoldsSem(p, d) \/ d = c

\* ... or returns it.
Returns(p, c) ==
  /\ HoldsSem(p, c)
  /\ sem' = [sem EXCEPT ![c] = @ + 1]
  /\ \A d \in Stick : HoldsSem(p, d)' <=> HoldsSem(p, d) /\ d # c

\* What a step does to permits: nothing, or p takes one that is there, or gives back
\* one it holds.
LEMMA PermitUse ==
  ASSUME IInv, NEW p \in Philo, Step(p)
  PROVE  Neutral(p) \/ \E c \in Stick : Takes(p, c) \/ Returns(p, c)
<1> USE Sticks DEF IInv, TypeOK, Done, Goto, HoldsSem, Chop
<1> PICK c \in Stick : c = Chop(p)
  BY ChopType
<1>1. CASE Think(p) \/ Eat(p)
  BY <1>1 DEF Think, Eat, Neutral
<1>2. CASE GrabOwn(p) \/ GrabDirty(p) \/ GrabWait(p)
  BY <1>2 DEF GrabOwn, GrabDirty, GrabWait, Neutral
<1>3. CASE Set(p)
  BY <1>3 DEF Set, Notified, Neutral
<1>4. CASE GrabTake(p)
  <2>1. pc[p] = "sem" /\ pc'[p] = "put" /\ hand'[p] = hand[p]
    BY <1>4 DEF GrabTake
  <2>2. Takes(p, c)
    BY <1>4, <2>1 DEF GrabTake, Takes
  <2> QED BY <2>2
<1>5. CASE Acquire(p)
  BY <1>5 DEF Acquire, Takes
<1>6. CASE GrabPut(p)
  <2>1. /\ pc[p] = "put"
        /\ \/ hand[p] = "right" /\ pc'[p] = "grab" /\ hand'[p] = "left"
           \/ hand[p] = "left" /\ pc'[p] = "acq" /\ hand'[p] = "right"
    BY <1>6 DEF GrabPut
  <2>2. Returns(p, c)
    BY <1>6, <2>1 DEF GrabPut, Returns
  <2> QED BY <2>2
<1>7. CASE Release(p)
  BY <1>7 DEF Release, Returns
<1> QED BY <1>1, <1>2, <1>3, <1>4, <1>5, <1>6, <1>7 DEF Step

\* Permits are conserved.
LEMMA PermitStep ==
  ASSUME IInv, NEW p \in Philo, Step(p)
  PROVE  PermitConserved' /\ sem' \in [Stick -> {0, 1}]
<1> USE DEF IInv, TypeOK, PermitConserved
<1>1. CASE Neutral(p)
  BY <1>1, OthersHold DEF Neutral
<1>2. ASSUME NEW c \in Stick, Takes(p, c)
      PROVE  PermitConserved' /\ sem' \in [Stick -> {0, 1}]
  BY <1>2, OthersHold, SMTT(30) DEF Takes
<1>3. ASSUME NEW c \in Stick, Returns(p, c)
      PROVE  PermitConserved' /\ sem' \in [Stick -> {0, 1}]
  BY <1>3, OthersHold, SMTT(30) DEF Returns
<1> QED BY <1>1, <1>2, <1>3, PermitUse

\* Types.
LEMMA TypeStep ==
  ASSUME IInv, NEW p \in Philo, Step(p)
  PROVE  TypeOK'
<1> PICK c \in Stick : c = Chop(p)
  BY ChopType
<1>1. sem' \in [Stick -> {0, 1}]
  BY PermitStep
<1> USE <1>1, NAssumption DEF IInv, TypeOK, Phase, Done, Goto
<1>2. CASE Think(p) \/ Eat(p)
  BY <1>2 DEF Think, Eat
<1>3. CASE GrabOwn(p) \/ GrabDirty(p) \/ GrabWait(p)
  BY <1>3 DEF GrabOwn, GrabDirty, GrabWait
<1>4. CASE GrabTake(p)
  BY <1>4 DEF GrabTake
<1>5. CASE GrabPut(p)
  BY <1>5 DEF GrabPut
<1>6. CASE Acquire(p) \/ Release(p)
  BY <1>6 DEF Acquire, Release
<1>7. CASE Set(p)
  BY <1>7 DEF Set, Notified, WaitsetExact
<1> QED BY <1>2, <1>3, <1>4, <1>5, <1>6, <1>7 DEF Step

\* Only the thread in the monitor of a chopstick changes clean or mainuser.
LEMMA MonitorStep ==
  ASSUME IInv, NEW p \in Philo, Step(p)
  PROVE  MonitorGuards'
<1> PICK c \in Stick : c = Chop(p)
  BY ChopType
<1> SUFFICES ASSUME NEW q \in Philo, NEW d \in Stick, d = Chop(q)', pc'[q] \in {"sem", "put"}
             PROVE  /\ monitor'[d] = q
                    /\ pc'[q] = "sem" => ~clean'[d] /\ mainuser'[d] # q
                    /\ pc'[q] = "put" => mainuser'[d] = q
  BY Sticks DEF MonitorGuards, Chop
<1>1. CASE q = p
  <2> USE <1>1 DEF IInv, TypeOK, Done, Goto, Chop
  <2>1. CASE GrabDirty(p)
    BY <2>1 DEF GrabDirty
  <2>2. CASE GrabTake(p)
    BY <2>2 DEF GrabTake, MonitorGuards
  <2>3. CASE ~GrabDirty(p) /\ ~GrabTake(p)
    BY <2>3 DEF Step, Think, GrabOwn, GrabWait, GrabPut, Acquire, Eat, Release, Set, Notified
  <2> QED BY <2>1, <2>2, <2>3
<1>2. CASE q # p
  <2>1. d = Chop(q) /\ pc'[q] = pc[q]
    BY <1>2, OthersStay DEF Chop
  <2>2. /\ monitor[d] = q
        /\ pc[q] = "sem" => ~clean[d] /\ mainuser[d] # q
        /\ pc[q] = "put" => mainuser[d] = q
    BY <2>1 DEF IInv, MonitorGuards
  <2> USE <1>2, <2>1, <2>2, NAssumption DEF IInv, TypeOK, Philo, Nobody
  <2>3. CASE Think(p) \/ GrabOwn(p) \/ GrabWait(p) \/ Acquire(p) \/ Eat(p) \/ Release(p)
    BY <2>3 DEF Think, GrabOwn, GrabWait, Acquire, Eat, Release
  <2>4. CASE GrabDirty(p)
    BY <2>4 DEF GrabDirty
  <2>5. CASE GrabTake(p)
    BY <2>5 DEF GrabTake, MonitorGuards
  <2>6. CASE GrabPut(p)
    BY <2>6 DEF GrabPut, MonitorGuards
  <2>7. CASE Set(p)
    BY <2>7 DEF Set
  <2> QED BY <2>3, <2>4, <2>5, <2>6, <2>7 DEF Step
<1> QED BY <1>1, <1>2

\* A thread enters a wait set by wait() and leaves it by notifyAll().
LEMMA WaitsetStep ==
  ASSUME IInv, NEW p \in Philo, Step(p)
  PROVE  WaitsetExact'
<1> PICK c \in Stick : c = Chop(p)
  BY ChopType
<1> USE DEF IInv, TypeOK, WaitsetExact, Done, Goto, Chop
<1>1. CASE GrabWait(p)
  BY <1>1 DEF GrabWait
<1>2. CASE Set(p)
  BY <1>2 DEF Set, Notified
<1>3. CASE ~GrabWait(p) /\ ~Set(p)
  BY <1>3 DEF Step, Think, GrabOwn, GrabDirty, GrabTake, GrabPut, Acquire, Eat, Release
<1> QED BY <1>1, <1>2, <1>3

\* A philosopher uses a chopstick until its own setChopstick on it.
LEMMA UseKept ==
  ASSUME IInv, NEW p \in Philo, Step(p), NEW d \in Stick, InUse(p, d),
         ~(Set(p) /\ d = Chop(p))
  PROVE  InUse(p, d)'
<1> USE Sticks DEF IInv, TypeOK, InUse, Done, Goto, Chop
<1>1. CASE Think(p) \/ Eat(p)
  BY <1>1 DEF Think, Eat
<1>2. CASE GrabOwn(p) \/ GrabDirty(p) \/ GrabWait(p)
  BY <1>2 DEF GrabOwn, GrabDirty, GrabWait
<1>3. CASE GrabTake(p)
  BY <1>3 DEF GrabTake
<1>4. CASE GrabPut(p)
  BY <1>4 DEF GrabPut
<1>5. CASE Acquire(p)
  BY <1>5 DEF Acquire
<1>6. CASE Release(p)
  BY <1>6 DEF Release
<1>7. CASE Set(p)
  BY <1>7 DEF Set, Notified
<1> QED BY <1>1, <1>2, <1>3, <1>4, <1>5, <1>6, <1>7 DEF Step

\* Nobody else can end that use.
LEMMA OthersUse ==
  ASSUME IInv, NEW p \in Philo, Step(p), NEW q \in Philo, q # p,
         NEW d \in Stick, InUse(q, d)
  PROVE  InUse(q, d)'
BY OthersStay DEF InUse, Chop

\* A chopstick becomes clean when it changes hands, and is used from then on.
LEMMA CleanStep ==
  ASSUME IInv, NEW p \in Philo, Step(p)
  PROVE  CleanIsInUse'
<1> PICK c \in Stick : c = Chop(p)
  BY ChopType
<1> SUFFICES ASSUME NEW d \in Stick, clean'[d], NEW u \in Philo, u = mainuser'[d]
             PROVE  InUse(u, d)'
  BY TypeStep DEF CleanIsInUse, TypeOK, InUse, Chop
<1>1. CASE GrabTake(p) /\ d = c
  BY <1>1 DEF GrabTake, Goto, IInv, TypeOK, InUse, Chop
<1>2. CASE ~(GrabTake(p) /\ d = c)
  <2>1. clean[d] /\ mainuser[d] = u /\ ~(Set(p) /\ d = c)
    BY <1>2 DEF IInv, TypeOK, Step, Think, GrabOwn, GrabDirty, GrabWait, GrabTake,
                GrabPut, Acquire, Eat, Release, Set
  <2>2. InUse(u, d)
    BY <2>1 DEF IInv, CleanIsInUse, InUse, Chop
  <2> QED BY <2>1, <2>2, UseKept, OthersUse
<1> QED BY <1>1, <1>2

\* A thread waits only until the chopstick is set.
LEMMA WakeupStep ==
  ASSUME IInv, NEW p \in Philo, Step(p)
  PROVE  NoLostWakeup'
<1> PICK c \in Stick : c = Chop(p)
  BY ChopType
<1> SUFFICES ASSUME NEW q \in Philo, NEW d \in Stick, d = Chop(q)', pc'[q] = "wait"
             PROVE  q \in waitset'[d] /\ clean'[d] /\ mainuser'[d] # q
  BY Sticks DEF NoLostWakeup, Chop
<1>1. CASE q = p
  <2> USE <1>1 DEF IInv, TypeOK, Done, Goto, Chop
  <2>1. CASE GrabWait(p)
    BY <2>1 DEF GrabWait
  <2>2. CASE ~GrabWait(p)
    BY <2>2 DEF Step, Think, GrabOwn, GrabDirty, GrabTake, GrabPut, Acquire, Eat, Release,
                Set, Notified
  <2> QED BY <2>1, <2>2
<1>2. CASE q # p
  <2>1. d = Chop(q) /\ pc[q] = "wait"
    BY <1>2, OthersStay DEF Chop
  <2>2. q \in waitset[d] /\ clean[d] /\ mainuser[d] # q
    BY <2>1 DEF IInv, NoLostWakeup
  <2> USE <1>2, <2>2 DEF IInv, TypeOK
  <2>3. CASE GrabTake(p)
    BY <2>3 DEF GrabTake, MonitorGuards
  <2>4. CASE Set(p)
    BY <2>4 DEF Set, Notified
  <2>5. CASE ~GrabTake(p) /\ ~Set(p)
    BY <2>5 DEF Step, Think, GrabOwn, GrabDirty, GrabWait, GrabPut, Acquire, Eat, Release
  <2> QED BY <2>3, <2>4, <2>5
<1> QED BY <1>1, <1>2

-----------------------------------------------------------------------------
\* The invariant depends on nothing but the variables.
LEMMA Stuttering == IInv /\ UNCHANGED vars => IInv'
BY DEF IInv, TypeOK, PermitConserved, MonitorGuards, WaitsetExact, CleanIsInUse,
       NoLostWakeup, HoldsSem, InUse, Chop, vars

\* Every step keeps the invariant.
LEMMA NextInv == IInv /\ [Next]_vars => IInv'
<1> SUFFICES ASSUME IInv, Next PROVE IInv'
  BY Stuttering
<1> PICK p \in Philo : Step(p)
  BY DEF Next
<1> QED BY TypeStep, PermitStep, MonitorStep, WaitsetStep, CleanStep, WakeupStep DEF IInv

\* The inductive invariant holds in every reachable state.
THEOREM Invariance == Spec => []IInv
BY InitInv, NextInv, PTL DEF Spec

\* Every variable of philosophers.java keeps its type; a semaphore made with one
\* permit never has two.
THEOREM TypeCorrect == Spec => []TypeOK
<1> IInv => TypeOK
  BY DEF IInv
<1> QED BY Invariance, PTL

\* The acquires and releases of eat() and grabChopstick balance.
THEOREM PermitsConserved == Spec => []PermitConserved
<1> IInv => PermitConserved
  BY DEF IInv
<1> QED BY Invariance, PTL

\* Two philosophers who share a chopstick are never in the sleep of eat() at the
\* same time.
THEOREM Exclusion == Spec => []NeighboursExclude
<1>1. IInv => NeighboursExclude
  <2> SUFFICES ASSUME IInv, NEW p \in Philo, NEW q \in Philo, p # q,
                      pc[p] = "eating", pc[q] = "eating",
                      NEW c \in {Right(p), Left(p)} \cap {Right(q), Left(q)}
               PROVE  FALSE
    BY DEF NeighboursExclude
  <2> QED BY Sticks DEF IInv, PermitConserved, HoldsSem
<1> QED BY <1>1, Invariance, PTL

\* A chopstick is clean only while its user has still to call setChopstick.
THEOREM CleanInUse == Spec => []CleanIsInUse
<1> IInv => CleanIsInUse
  BY DEF IInv
<1> QED BY Invariance, PTL

\* What grabChopstick has read before it blocks in sem.acquire() still holds when
\* that returns.
THEOREM ReadsStayTrue == Spec => []MonitorGuards
<1> IInv => MonitorGuards
  BY DEF IInv
<1> QED BY Invariance, PTL

\* A thread in wait() has a notifyAll to come.
THEOREM WakeupsKept == Spec => []NoLostWakeup
<1> IInv => NoLostWakeup
  BY DEF IInv
<1> QED BY Invariance, PTL
=============================================================================
