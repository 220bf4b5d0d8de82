---------------------------- MODULE MCComputations ----------------------------
(* The numbers on which Computations is model-checked.                      *)
EXTENDS Computations

\* Coprime to the target rate, a multiple or a divisor of it, next to it, and in use.
MCSampleRates == (1..300) \cup (15990..16010) \cup {8000, 11025, 22050, 24000, 32000, 44100, 48000, 96000}

\* About the threshold of -1.0, on both sides.
MCLogprobs == {-12, -11, -10, -9, 0}
=============================================================================
