--------------------------- MODULE ProduceConsume ---------------------------
(***************************************************************************)
(* The producers and consumers of concurrency/concurrency1/                *)
(* produce_consume.c (main starts one of each), which share a stack of     *)
(* BUFFSIZE entries guarded by the mutex stop.                             *)
(*                                                                         *)
(* A producer makes an entry before it takes the mutex, and throws it away *)
(* if the stack is full; a consumer works on an entry, which takes seconds,*)
(* with the mutex in its hands.  Every entry is given a serial number, so  *)
(* that it can be followed.  Of the random numbers, work_time is modelled, *)
(* which goes from random_num through the stack to sleep(); num is only    *)
(* printed, and wait is used where it is made.                             *)
(***************************************************************************)
EXTENDS Integers

CONSTANTS
  Producers, Consumers,   \* the threads
  BUFFSIZE,               \* 32
  Raw,                    \* numbers that rdrand may deliver
  MaxItems,               \* bound: this many entries are made
  NoThread                \* the holder of a mutex that is free

Thread == Producers \cup Consumers

INT_MIN == -2147483647 - 1
INT_MAX == 2147483647
Int32 == INT_MIN .. INT_MAX

ASSUME ThreadAssumption ==
  Producers \cap Consumers = {} /\ NoThread \notin Producers \cup Consumers
ASSUME BoundAssumption == BUFFSIZE \in Nat \ {0} /\ MaxItems \in Nat
ASSUME RawAssumption == Raw \subseteq Int32

-----------------------------------------------------------------------------
(* random_num. *)

\* What asm_rand may store: its result, that rdrand has had no number, is not
\* tested, and the register is then 0.
asm_rand == Raw \cup {0}

\* abs of a 32-bit int: the least one has no positive counterpart.
abs(x) == IF x < 0 /\ x # INT_MIN THEN -x ELSE x

\* The % of C, which rounds towards 0.
Rem(x, y) == IF x >= 0 \/ x % y = 0 THEN x % y ELSE (x % y) - y

\* Mutant of random_num: no lower bound.
RandomUnclamped(raw, min, max) == Rem(abs(raw), max - min)

random_num(raw, min, max) ==
  LET tmp == Rem(abs(raw), max - min) IN IF tmp < min THEN min ELSE tmp

-----------------------------------------------------------------------------
VARIABLES
  entries, size,    \* the stack
  stop,             \* the holder of the mutex
  pc,
  e,                \* the entry a thread is dealing with
  error,            \* push or pop has printed its error message
  made,             \* history: how many entries have been made
  consumed,         \* history: the serial numbers of those consumed ...
  dropped           \* ... and of those thrown away

vars == <<entries, size, stop, pc, e, error, made, consumed, dropped>>

Slot == 0 .. BUFFSIZE - 1
WorkTime == {random_num(raw, 2, 9) : raw \in asm_rand}
Entry == [id : Nat, work_time : WorkTime]

\* What is in a variable that has not been set; its serial number is nobody's.
NoEntry == [id |-> 0, work_time |-> CHOOSE n \in WorkTime : TRUE]

PC == {"sleep", "lock", "push", "pop", "work", "unlock"}

TypeOK ==
  /\ entries \in [Slot -> Entry] /\ size \in 0 .. BUFFSIZE
  /\ stop \in Thread \cup {NoThread}
  /\ pc \in [Thread -> PC]
  /\ e \in [Thread -> Entry]
  /\ error \in BOOLEAN
  /\ made \in Nat
  /\ consumed \in SUBSET Nat /\ dropped \in SUBSET Nat

Init ==
  /\ entries = [i \in Slot |-> NoEntry] /\ size = 0
  /\ stop = NoThread
  /\ pc = [t \in Thread |-> IF t \in Producers THEN "sleep" ELSE "lock"]
  /\ e = [t \in Thread |-> NoEntry]
  /\ error = FALSE
  /\ made = 0 /\ consumed = {} /\ dropped = {}

Goto(t, l) == pc' = [pc EXCEPT ![t] = l]

-----------------------------------------------------------------------------
\* pthread_mutex_lock and pthread_mutex_unlock.
Lock(t, l) ==
  /\ pc[t] = "lock" /\ stop = NoThread
  /\ stop' = t
  /\ Goto(t, l)
  /\ UNCHANGED <<entries, size, e, error, made, consumed, dropped>>

Unlock(t, l) ==
  /\ pc[t] = "unlock"
  /\ stop' = NoThread
  /\ Goto(t, l)
  /\ UNCHANGED <<entries, size, e, error, made, consumed, dropped>>

-----------------------------------------------------------------------------
(* produce. *)

\* The sleep is over; the next entry is made from a random number.
GenerateFrom(t, raw) ==
  /\ t \in Producers /\ pc[t] = "sleep" /\ made < MaxItems
  /\ e' = [e EXCEPT ![t] = [id |-> made + 1, work_time |-> random_num(raw, 2, 9)]]
  /\ made' = made + 1
  /\ Goto(t, "lock")
  /\ UNCHANGED <<entries, size, stop, error, consumed, dropped>>

Generate(t) == \E raw \in asm_rand : GenerateFrom(t, raw)

\* push(b, x)
push(x) ==
  IF size < BUFFSIZE
  THEN /\ entries' = [entries EXCEPT ![size] = x]
       /\ size' = size + 1
       /\ UNCHANGED error
  ELSE error' = TRUE /\ UNCHANGED <<entries, size>>

\* The producer's own test of the size.
HasRoom == size < BUFFSIZE

Produce(t) ==
  /\ t \in Producers /\ pc[t] = "push"
  /\ IF HasRoom
     THEN push(e[t]) /\ UNCHANGED dropped
     ELSE dropped' = dropped \cup {e[t].id} /\ UNCHANGED <<entries, size, error>>
  /\ Goto(t, "unlock")
  /\ UNCHANGED <<stop, e, made, consumed>>

-----------------------------------------------------------------------------
(* consume. *)

\* Mutant of pop: the entry stays on the stack.
popPeek(t) ==
  /\ e' = [e EXCEPT ![t] = entries[IF size > 0 THEN size - 1 ELSE 0]]
  /\ UNCHANGED <<size, error>>

\* e = pop(b)
pop(t) ==
  IF size > 0
  THEN /\ size' = size - 1
       /\ e' = [e EXCEPT ![t] = entries[size - 1]]
       /\ UNCHANGED error
  ELSE /\ error' = TRUE
       /\ e' = [e EXCEPT ![t] = entries[size]]
       /\ UNCHANGED size

\* Mutant of HasEntry: the last entry is left.
HasEntries == size > 1

\* The consumer's own test of the size.
HasEntry == size > 0

\* Mutant of Take: the consumer waits for an entry with the mutex in its hands.
TakeSpins(t) ==
  /\ t \in Consumers /\ pc[t] = "pop"
  /\ IF HasEntry
     THEN pop(t) /\ Goto(t, "work")
     ELSE UNCHANGED <<pc, size, e, error>>
  /\ UNCHANGED <<entries, stop, made, consumed, dropped>>

Take(t) ==
  /\ t \in Consumers /\ pc[t] = "pop"
  /\ IF HasEntry
     THEN pop(t) /\ Goto(t, "work")
     ELSE Goto(t, "unlock") /\ UNCHANGED <<size, e, error>>
  /\ UNCHANGED <<entries, stop, made, consumed, dropped>>

\* sleep(e.work_time) is over.
Work(t) ==
  /\ t \in Consumers /\ pc[t] = "work"
  /\ consumed' = consumed \cup {e[t].id}
  /\ Goto(t, "unlock")
  /\ UNCHANGED <<entries, size, stop, e, error, made, dropped>>

-----------------------------------------------------------------------------
\* The transitions at pthread_mutex_lock, and all the others.
Entering(t) == IF t \in Producers THEN Lock(t, "push") ELSE Lock(t, "pop")

Proceed(t) ==
  \/ Produce(t) \/ Take(t) \/ Work(t)
  \/ IF t \in Producers THEN Unlock(t, "sleep") ELSE Unlock(t, "lock")

Going(t) == Generate(t) \/ Proceed(t)

Next == \E t \in Thread : Entering(t) \/ Going(t)

Spec == Init /\ [][Next]_vars

-----------------------------------------------------------------------------
\* What a consumer passes to sleep() is within the bounds that the producer has
\* given to random_num, whatever rdrand has delivered; sleep() would take a
\* negative number for more than a century, with the mutex held.
SleepInBounds ==
  \A t \in Consumers : pc[t] = "work" => e[t].work_time \in 2 .. 9

\* A thread has an entry that is nowhere else.
Holds(t) == \/ t \in Producers /\ pc[t] \in {"lock", "push"}
            \/ t \in Consumers /\ pc[t] = "work"

\* The entries on the stack, and those that threads have.
Stack == {entries[i].id : i \in 0 .. size - 1}
Hands == {e[t].id : t \in {u \in Thread : Holds(u)}}

\* "Both threads run without encountering an error": the error branches of push
\* and pop are never taken, because the size that has been tested cannot change
\* before they are called.
NoError == ~error

\* The mutex is held from the lock to the unlock, through the consumer's sleep.
Guarded ==
  \A t \in Thread : pc[t] \in {"push", "pop", "work", "unlock"} => stop = t

\* Every entry ever made is in exactly one place: with the producer that made it,
\* in one slot of the stack, with one consumer, consumed, or thrown away.
EntryOnce ==
  /\ 1 .. made = Stack \cup Hands \cup consumed \cup dropped
  /\ Stack \cap (Hands \cup consumed \cup dropped) = {}
  /\ Hands \cap (consumed \cup dropped) = {}
  /\ consumed \cap dropped = {}
  /\ \A i, j \in 0 .. size - 1 : entries[i].id = entries[j].id => i = j
  /\ \A t, u \in Thread : Holds(t) /\ Holds(u) /\ e[t].id = e[u].id => t = u

\* The mutex comes back, whoever has it: from a consumer that has found nothing, and
\* from one that works, whatever time it has been given to sleep.
MutexReturned == \A t \in Thread : stop = t ~> stop # t

\* Once no producer gets at the stack any more, because all sleep or because the
\* consumers, which try for the mutex in a busy loop, keep them out, the consumers
\* work off all that is there: every entry made has been consumed or thrown away,
\* but for those that producers still wait with.
StackDrained ==
  <>[](\A t \in Producers : pc[t] \in {"sleep", "lock"}) =>
    <>[](1 .. made = consumed \cup dropped \cup
           {e[t].id : t \in {u \in Producers : pc[u] = "lock"}})
=============================================================================
