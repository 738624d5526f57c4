--------------------------- MODULE RandomProducer ---------------------------
(***************************************************************************)
(* The producers and consumers with the numbers that they really draw: of  *)
(* rdrand, where the processor has it, otherwise of the Mersenne Twister.  *)
(* A producer calls random_num three times for every entry: for the time   *)
(* it waits, for work_time and for num.  The generator has no lock; main   *)
(* starts one producer, and so does the instance.                          *)
(***************************************************************************)
EXTENDS ProduceConsume, MersenneTwister

VARIABLES
  rdrand,   \* flag_RDRAND of cpuid
  gen       \* mt and mti

allVars == <<vars, rdrand, gen>>

\* (int)genrand_int32()
ToInt(y) == Number(y) - (IF W - 1 \in y THEN 2 ^ W ELSE 0)

RandomInit == Init /\ rdrand \in BOOLEAN /\ gen = NotSeeded

\* Generate with the numbers of genrand_int32.
GenerateTwister(t) ==
  LET wait == genrand_int32(gen)
      work_time == genrand_int32(wait.gen)
      num == genrand_int32(work_time.gen)
  IN  GenerateFrom(t, ToInt(work_time.y)) /\ gen' = num.gen

RandomGenerate(t) ==
  /\ IF rdrand THEN Generate(t) /\ UNCHANGED gen ELSE GenerateTwister(t)
  /\ UNCHANGED rdrand

RandomEntering(t) == Entering(t) /\ UNCHANGED <<rdrand, gen>>
RandomProceed(t) == Proceed(t) /\ UNCHANGED <<rdrand, gen>>

RandomNext ==
  \E t \in Thread : RandomGenerate(t) \/ RandomEntering(t) \/ RandomProceed(t)

\* A thread that can go on does, but for a producer that sleeps: nothing depends
\* on its making another entry.  A mutex that is free and stays so is taken by a
\* thread that waits for it; nothing is assumed of one that is free again and again,
\* since a pthread mutex may be given to the same thread for ever.
RandomSpec ==
  /\ RandomInit /\ [][RandomNext]_allVars
  /\ \A t \in Thread : WF_allVars(RandomProceed(t)) /\ WF_allVars(RandomEntering(t))

-----------------------------------------------------------------------------
\* The words are made N at a time, in place, from an array of which a part is new
\* already; still they are those of the recurrence, and the three numbers of an
\* entry are the next three, whether or not a batch ends among them.
FollowsRecurrence ==
  [][gen' # gen =>
       LET before == IF gen = NotSeeded THEN init_genrand(SEED) ELSE gen
       IN  \/ gen' = [before EXCEPT !.mti = @ + 3]
           \/ /\ gen'.mti = before.mti + 3 - N
              /\ Recurrence(before.mt, gen'.mt)]_allVars
=============================================================================
