------------------------ MODULE ProduceConsumeProofs ------------------------
(***************************************************************************)
(* Proofs about ProduceConsume, for any numbers of producers, consumers    *)
(* and slots: random_num stays in its bounds, the mutex is held around all *)
(* work on the stack, and no entry is lost or consumed twice.              *)
(***************************************************************************)
EXTENDS ProduceConsume, TLAPS

\* The provers have more time for a leaf than they take by default.
USE SMTT(20), ZenonT(20)

\* The limits of an int, as far as the proofs need them.
LEMMA IntLimits ==
  INT_MIN \in Int /\ INT_MAX \in Int /\ INT_MIN <= 0 /\ 0 <= INT_MAX
BY SMT DEF INT_MIN, INT_MAX

\* random_num(min, max) is in min .. max for every 32-bit number that rdrand may
\* deliver, the least one included.
THEOREM RandomNumBounds ==
  ASSUME NEW raw \in Int32, NEW min \in Nat, NEW max \in Nat, min < max
  PROVE  random_num(raw, min, max) \in min .. max
<1> DEFINE x == abs(raw)
           y == max - min
<1>1. x \in Int /\ y \in Nat \ {0}
  BY IntLimits DEF abs, Int32
<1>2. x % y \in 0 .. y - 1
  BY <1>1
<1>3. Rem(x, y) \in Int /\ Rem(x, y) <= y
  BY <1>1, <1>2 DEF Rem
<1> QED BY <1>1, <1>3 DEF random_num

\* So is every work_time.
LEMMA WorkTimeBounds == WorkTime \subseteq 2 .. 9
<1> SUFFICES ASSUME NEW raw \in asm_rand PROVE random_num(raw, 2, 9) \in 2 .. 9
  BY DEF WorkTime
<1>1. raw \in Int32
  <2>1. 0 \in Int32
    BY IntLimits DEF Int32
  <2> QED BY <2>1, RawAssumption DEF asm_rand
<1>2. 2 \in Nat /\ 9 \in Nat /\ 2 < 9
  OBVIOUS
<1> QED BY ONLY <1>1, <1>2, RandomNumBounds

\* Every number makes a work_time.
LEMMA WorkTimeType == \A raw \in asm_rand : random_num(raw, 2, 9) \in WorkTime
BY DEF WorkTime

\* A variable that has not been set has the type of an entry.
LEMMA NoEntryType == NoEntry \in Entry
BY DEF NoEntry, Entry, WorkTime, asm_rand

-----------------------------------------------------------------------------
\* Where producers and consumers can be.
Control ==
  /\ \A t \in Producers : pc[t] \in {"sleep", "lock", "push", "unlock"}
  /\ \A t \in Consumers : pc[t] \in {"lock", "pop", "work", "unlock"}

\* The inductive invariant.
IInv == TypeOK /\ Control /\ Guarded /\ NoError /\ EntryOnce

\* The invariant holds when the threads start.
LEMMA InitInv == Init => IInv
<1> SUFFICES ASSUME Init PROVE IInv
  OBVIOUS
<1>1. TypeOK
  <2>1. error \in BOOLEAN
    BY DEF Init
  <2>2. pc \in [Thread -> PC]
    BY DEF Init, PC
  <2>3. /\ entries \in [Slot -> Entry] /\ e \in [Thread -> Entry]
        /\ stop \in Thread \cup {NoThread}
    BY NoEntryType DEF Init
  <2>4. /\ size \in 0 .. BUFFSIZE /\ made \in Nat
        /\ consumed \in SUBSET Nat /\ dropped \in SUBSET Nat
    BY BoundAssumption DEF Init
  <2> QED BY <2>1, <2>2, <2>3, <2>4 DEF TypeOK
<1>2. Control /\ Guarded /\ NoError
  BY ThreadAssumption DEF Init, Control, Guarded, NoError, Thread
<1>3. EntryOnce
  <2>1. 0 .. size - 1 = {} /\ 1 .. made = {} /\ consumed = {} /\ dropped = {}
    BY DEF Init
  <2>2. \A t \in Thread : ~Holds(t)
    BY ThreadAssumption DEF Init, Holds, Thread
  <2> QED BY <2>1, <2>2 DEF EntryOnce, Stack, Hands
<1> QED BY <1>1, <1>2, <1>3 DEF IInv

\* A step of a thread keeps the types, its place, the mutex and the absence of errors.
LEMMA TypeStep ==
  ASSUME IInv, NEW t \in Thread, Entering(t) \/ Going(t)
  PROVE  TypeOK' /\ Control' /\ Guarded' /\ NoError'
<1> USE ThreadAssumption, BoundAssumption
    DEF IInv, TypeOK, Control, Guarded, NoError, Thread, PC, Goto, Slot
<1>1. CASE Entering(t)
  BY <1>1 DEF Entering, Lock
<1>2. CASE Generate(t)
  BY <1>2, WorkTimeType DEF Generate, GenerateFrom, Entry
<1>3. CASE Produce(t)
  <2>1. e[t].id \in Nat /\ e[t] \in Entry
    BY DEF Entry
  <2>2. CASE size < BUFFSIZE
    <3>1. entries' = [entries EXCEPT ![size] = e[t]] /\ size' = size + 1
      BY <1>3, <2>2 DEF Produce, push, HasRoom
    <3>2. entries' \in [Slot -> Entry] /\ size' \in 0 .. BUFFSIZE
      BY <2>1, <2>2, <3>1
    <3> QED BY <1>3, <2>2, <3>2 DEF Produce, push, HasRoom
  <2>3. CASE ~(size < BUFFSIZE)
    BY <1>3, <2>1, <2>3 DEF Produce, HasRoom
  <2> QED BY <2>2, <2>3
<1>4. CASE Take(t)
  BY <1>4 DEF Take, pop, HasEntry
<1>5. CASE Work(t)
  BY <1>5 DEF Work, Entry
<1>6. CASE t \in Producers /\ Unlock(t, "sleep")
  BY <1>6 DEF Unlock
<1>7. CASE t \in Consumers /\ Unlock(t, "lock")
  BY <1>7 DEF Unlock
<1> QED BY <1>1, <1>2, <1>3, <1>4, <1>5, <1>6, <1>7 DEF Going, Proceed

\* The conjuncts of EntryOnce, from what a step does to the sets of entries.
LEMMA EntryOnceStep ==
  ASSUME IInv, NEW t \in Thread, Entering(t) \/ Going(t)
  PROVE  EntryOnce'
<1> USE ThreadAssumption, BoundAssumption DEF IInv, TypeOK, Thread, Goto, Entry
<1>1. \A u \in Thread \ {t} : Holds(u)' = Holds(u) /\ e'[u] = e[u]
  BY DEF Holds, Entering, Going, Lock, Unlock, Generate,
      GenerateFrom, Proceed, Produce, Take, Work,
         push, pop
<1>2. CASE \/ Entering(t)
           \/ t \in Producers /\ Unlock(t, "sleep")
           \/ t \in Consumers /\ Unlock(t, "lock")
  <2>1. \A u \in Thread : Holds(u)' = Holds(u)
    BY <1>1, <1>2 DEF Entering, Lock, Unlock, Holds
  <2>2. UNCHANGED <<entries, size, e, made, consumed, dropped>>
    BY <1>2 DEF Entering, Lock, Unlock
  <2>3. Hands' = Hands /\ Stack' = Stack
    BY <2>1, <2>2 DEF Hands, Stack
  <2> QED BY <2>1, <2>2, <2>3 DEF EntryOnce
<1>3. CASE Generate(t)
  <2>1. /\ e'[t].id = made + 1 /\ made' = made + 1
        /\ UNCHANGED <<entries, size, consumed, dropped>>
    BY <1>3 DEF Generate, GenerateFrom
  <2>2. ~Holds(t) /\ Holds(t)'
    BY <1>3 DEF Generate, GenerateFrom, Holds
  <2>3. Stack' = Stack
    BY <2>1 DEF Stack
  <2>4. Hands' = Hands \cup {made + 1}
    <3>1. \A u \in Thread : Holds(u)' <=> Holds(u) \/ u = t
      BY <1>1, <2>2
    <3>2. \A u \in Thread : u # t => e'[u].id = e[u].id
      BY <1>1
    <3> QED BY ONLY <3>1, <3>2, <2>1, <2>2, t \in Thread DEF Hands
  <2>5. 1 .. made' = (1 .. made) \cup {made + 1}
    <3>1. made \in Nat /\ made' = made + 1
      BY <2>1
    <3> QED BY ONLY <3>1
  <2>6. \A u \in Thread \ {t} : Holds(u)' => e'[u].id # made + 1
    <3> SUFFICES ASSUME NEW u \in Thread \ {t}, Holds(u)' PROVE e'[u].id # made + 1
      OBVIOUS
    <3>1. e'[u].id \in Hands
      BY <1>1 DEF Hands
    <3>2. Hands \subseteq 1 .. made
      BY DEF EntryOnce
    <3> QED BY <3>1, <3>2
  <2> QED BY <1>1, <2>1, <2>2, <2>3, <2>4, <2>5, <2>6 DEF EntryOnce
<1>4. CASE Produce(t) /\ size < BUFFSIZE
  <2>1. /\ entries' = [entries EXCEPT ![size] = e[t]] /\ size' = size + 1
        /\ UNCHANGED <<e, made, consumed, dropped>>
    BY <1>4 DEF Produce, push, HasRoom
  <2>2. Holds(t) /\ ~Holds(t)'
    BY <1>4 DEF Produce, Holds
  <2>3. \A i \in 0 .. size - 1 : entries'[i] = entries[i]
    BY <2>1 DEF Slot
  <2>4. entries'[size] = e[t]
    BY <1>4, <2>1 DEF Slot
  <2>5. 0 .. size' - 1 = (0 .. size - 1) \cup {size}
    BY <2>1
  <2>6. Stack' = Stack \cup {e[t].id}
    BY <2>3, <2>4, <2>5 DEF Stack
  <2>7. Hands' = Hands \ {e[t].id}
    BY <1>1, <2>1, <2>2 DEF Hands, EntryOnce
  <2>8. e[t].id \in Hands
    BY <2>2 DEF Hands
  <2>9. \A i \in 0 .. size - 1 : entries[i].id # e[t].id
    BY <2>8 DEF EntryOnce, Stack
  <2>10. \A i, j \in 0 .. size' - 1 : entries'[i].id = entries'[j].id => i = j
    BY <2>3, <2>4, <2>5, <2>9 DEF EntryOnce
  <2> QED BY <1>1, <2>1, <2>2, <2>6, <2>7, <2>8, <2>10 DEF EntryOnce
<1>5. CASE Produce(t) /\ ~(size < BUFFSIZE)
  BY <1>1, <1>5 DEF Produce, HasRoom, EntryOnce, Holds, Stack, Hands
<1>6. CASE Take(t) /\ size > 0
  <2> DEFINE top == entries[size - 1]
  <2>1. /\ e' = [e EXCEPT ![t] = top] /\ size' = size - 1
        /\ UNCHANGED <<entries, made, consumed, dropped>>
    BY <1>6 DEF Take, pop, HasEntry
  <2>2. ~Holds(t) /\ Holds(t)' /\ e'[t] = top
    BY <1>6, <2>1 DEF Take, Holds, HasEntry
  <2>3. 0 .. size - 1 = (0 .. size' - 1) \cup {size - 1} /\ size - 1 \notin 0 .. size' - 1
    <3>1. size \in Nat /\ size > 0 /\ size' = size - 1
      BY <1>6, <2>1
    <3> QED BY ONLY <3>1
  <2>4. Stack' = Stack \ {top.id} /\ top.id \in Stack
    <3>1. \A i \in 0 .. size' - 1 : entries[i].id # top.id
      BY <2>3 DEF EntryOnce
    <3>2. Stack = Stack' \cup {top.id}
      BY <2>1, <2>3 DEF Stack
    <3>3. top.id \notin Stack'
      BY <2>1, <3>1 DEF Stack
    <3> QED BY <3>2, <3>3
  <2>5. Hands' = Hands \cup {top.id}
    BY <1>1, <2>2 DEF Hands
  <2>6. \A u \in Thread : Holds(u) => e[u].id # top.id
    BY <2>4 DEF EntryOnce, Hands
  <2>7. \A u, v \in Thread : Holds(u)' /\ Holds(v)' /\ e'[u].id = e'[v].id => u = v
    BY <1>1, <2>2, <2>6 DEF EntryOnce
  <2> QED BY <2>1, <2>3, <2>4, <2>5, <2>7 DEF EntryOnce
<1>7. CASE Take(t) /\ ~(size > 0)
  BY <1>1, <1>7 DEF Take, HasEntry, EntryOnce, Holds, Stack, Hands
<1>8. CASE Work(t)
  BY <1>1, <1>8 DEF Work, EntryOnce, Holds, Stack, Hands
<1> QED BY <1>2, <1>3, <1>4, <1>5, <1>6, <1>7, <1>8 DEF Going, Proceed

\* Every step keeps the invariant.
LEMMA NextInv == IInv /\ [Next]_vars => IInv'
<1> SUFFICES ASSUME IInv, [Next]_vars PROVE IInv'
  OBVIOUS
<1>1. CASE Next
  BY <1>1, TypeStep, EntryOnceStep DEF Next, IInv
<1>2. CASE UNCHANGED vars
  <2>1. TypeOK' /\ Control' /\ Guarded' /\ NoError'
    BY <1>2 DEF vars, IInv, TypeOK, Control, Guarded, NoError
  <2>2. Stack' = Stack /\ Hands' = Hands /\ \A t \in Thread : Holds(t)' = Holds(t)
    BY <1>2 DEF vars, Stack, Hands, Holds
  <2>3. EntryOnce'
    BY <1>2, <2>2 DEF vars, IInv, EntryOnce
  <2> QED BY <2>1, <2>3 DEF IInv
<1> QED BY <1>1, <1>2

\* The invariant holds in every state, for any threads and size of the stack.
THEOREM Invariance == Spec => []IInv
BY InitInv, NextInv, PTL DEF Spec

\* The variables keep their types; size stays within the array.
THEOREM TypeCorrect == Spec => []TypeOK
<1>1. IInv => TypeOK
  BY DEF IInv
<1> QED BY Invariance, <1>1, PTL

\* What a consumer passes to sleep() is between 2 and 9.
THEOREM SleepsCorrect == Spec => []SleepInBounds
<1>1. IInv => SleepInBounds
  BY WorkTimeBounds DEF IInv, TypeOK, SleepInBounds, Entry, Thread
<1> QED BY Invariance, <1>1, PTL

\* The error branches of push and pop are never taken.
THEOREM ErrorFree == Spec => []NoError
<1>1. IInv => NoError
  BY DEF IInv
<1> QED BY Invariance, <1>1, PTL

\* The mutex is held around all work on the stack.
THEOREM MutexHeld == Spec => []Guarded
<1>1. IInv => Guarded
  BY DEF IInv
<1> QED BY Invariance, <1>1, PTL

\* No entry is lost, duplicated or consumed twice.
THEOREM NothingLostOrDuplicated == Spec => []EntryOnce
<1>1. IInv => EntryOnce
  BY DEF IInv
<1> QED BY Invariance, <1>1, PTL

DropOnlyWhenFull == [][dropped' # dropped => size = BUFFSIZE]_vars

\* A producer throws an entry away only when the stack is full.
THEOREM DropsJustified == Spec => DropOnlyWhenFull
<1>1. IInv /\ [Next]_vars => [dropped' # dropped => size = BUFFSIZE]_vars
  BY BoundAssumption
  DEF IInv, TypeOK, Next, Entering, Going, Lock, Unlock, Generate,
      GenerateFrom, Proceed, Produce, Take,
      Work, push, pop, HasRoom, vars
<1> QED BY Invariance, <1>1, PTL DEF Spec, DropOnlyWhenFull
=============================================================================
