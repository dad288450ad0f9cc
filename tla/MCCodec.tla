------------------------------ MODULE MCCodec -------------------------------
(* Instances of Codec for TLC.                                             *)
EXTENDS Codec

\* CheckA * x + CheckB > 0 holds for 1 only.
MCSamples == {0, 1}
MCCheckB == -1
MCGarbage == {-7, 2}
=============================================================================
