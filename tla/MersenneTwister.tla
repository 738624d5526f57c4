-------------------------- MODULE MersenneTwister ---------------------------
(***************************************************************************)
(* The random numbers of concurrency/concurrency1/mt19937ar.c, for words   *)
(* of W bits and an array of N words instead of 32 and 624.  The state of  *)
(* the generator is a record of the array mt and of mti, the index of the  *)
(* next word to be delivered.  A word is the set of the places at which it *)
(* has a 1, so that &, | and ^ are operations on sets.                     *)
(***************************************************************************)
EXTENDS Integers, FiniteSetsExt

CONSTANTS
  W, N, M,       \* bits of a word, words of the array (624), distance (397)
  MATRIX_A,      \* a word
  MULTIPLIER,    \* of init_genrand (1812433253)
  SEED,          \* the default seed (5489)
  TU, TS, TT, TL,   \* the shifts of the tempering (11, 7, 15, 18) ...
  TB, TC            \* ... and its masks, two words

Bit == 0 .. W - 1
Words == [0 .. N - 1 -> SUBSET Bit]

ASSUME TwisterAssumption ==
  /\ W \in Nat \ {0} /\ N \in Nat /\ M \in 1 .. N - 1
  /\ {MATRIX_A, TB, TC} \subseteq SUBSET Bit

Number(x) == MapThenSumSet(LAMBDA b : 2 ^ b, x)
Word(n) == {b \in Bit : (n \div 2 ^ b) % 2 = 1}

Xor(x, y) == (x \cup y) \ (x \cap y)
ShiftRight(x, n) == {b \in Bit : b + n \in x}
ShiftLeft(x, n) == {b \in Bit : b - n \in x}

UPPER_MASK == {W - 1}
LOWER_MASK == Bit \ UPPER_MASK

\* mti = N + 1 means that mt has not been initialised.
NotSeeded == [mt |-> [i \in 0 .. N - 1 |-> {}], mti |-> N + 1]

\* Word i of the seed, made of the one before it.
Spread(x, i) == Word(MULTIPLIER * Number(Xor(x, ShiftRight(x, W - 2))) + i)

init_genrand(s) ==
  LET from[mt \in Words, i \in 0 .. N] ==
        IF i = N THEN mt
        ELSE from[[mt EXCEPT ![i] = IF i = 0 THEN Word(s) ELSE Spread(mt[i - 1], i)],
                  i + 1]
  IN  [mt |-> from[NotSeeded.mt, 0], mti |-> N]

\* What is made of y, the upper bit of u and the lower bits of l.
Twist(u, l) ==
  LET y == (u \cap UPPER_MASK) \cup (l \cap LOWER_MASK)
  IN  Xor(ShiftRight(y, 1), IF 0 \in y THEN MATRIX_A ELSE {})

\* Mutant of Partner: the second loop takes the word after the one it should.
PartnerNext(kk) == IF kk < N - M THEN kk + M ELSE kk + (M - N) + 1

\* The index of the other word that word kk is made of.  It is mt[kk + M] in the
\* first of the three loops, mt[kk + (M - N)] in the second and mt[M - 1] in the last.
Partner(kk) == IF kk < N - M THEN kk + M ELSE kk + (M - N)

\* "Generate N words at one time", each in the place of the one N before it.
Reload(words) ==
  LET from[mt \in Words, kk \in 0 .. N] ==
        IF kk = N THEN mt
        ELSE from[[mt EXCEPT ![kk] = Xor(mt[Partner(kk)], Twist(@, mt[(kk + 1) % N]))],
                  kk + 1]
  IN  from[words, 0]

Temper(x) ==
  LET a == Xor(x, ShiftRight(x, TU))
      b == Xor(a, ShiftLeft(a, TS) \cap TB)
      c == Xor(b, ShiftLeft(b, TT) \cap TC)
  IN  Xor(c, ShiftRight(c, TL))

\* The number delivered, and the generator after it.
genrand_int32(g) ==
  LET seeded == IF g.mti = N + 1 THEN init_genrand(SEED) ELSE g
      ready == IF seeded.mti >= N THEN [mt |-> Reload(seeded.mt), mti |-> 0] ELSE seeded
  IN  [y |-> Temper(ready.mt[ready.mti]), gen |-> [ready EXCEPT !.mti = @ + 1]]

-----------------------------------------------------------------------------
\* The recurrence that defines the words: each of the N of new is made of three
\* that come before it, at distances N, N - 1 and N - M, in old or in new.
Recurrence(old, new) ==
  LET x == [k \in 0 .. 2 * N - 1 |-> IF k < N THEN old[k] ELSE new[k - N]]
  IN  \A k \in 0 .. N - 1 : x[k + N] = Xor(x[k + M], Twist(x[k], x[k + 1]))
=============================================================================
