-------------------------- MODULE MCProduceConsume --------------------------
(* Instances of RandomProducer for TLC. *)
EXTENDS RandomProducer

\* A number that is not a multiple of 10, and the least 32-bit int, whose
\* absolute value is negative.
RawNumbers == {17, INT_MIN}
=============================================================================
