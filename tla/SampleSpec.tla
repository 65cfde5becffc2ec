----------------------------- MODULE SampleSpec -----------------------------
(***************************************************************************)
(* The time/size conversions of pulse/sample.c that both ends of an iwab   *)
(* stream rest on.  Sizes are counted in audio frames (the C code divides  *)
(* by the frame size before the conversion and multiplies by it after), so *)
(* a "byte count" below is a number of frames.  Both conversions truncate, *)
(* which is why they are not inverses of one another.                      *)
(***************************************************************************)
EXTENDS Integers

CONSTANTS Rate,        \* frames per second
          UsecPerSec   \* clock units per second, PA_USEC_PER_SEC

ASSUME RateAssumption ==
    /\ Rate \in Nat \ {0}
    /\ UsecPerSec \in Nat \ {0}
    /\ Rate <= UsecPerSec      \* PA_RATE_MAX is below 10^6

pa_bytes_to_usec(frames) == (frames * UsecPerSec) \div Rate

pa_usec_to_bytes(usec) == (usec * Rate) \div UsecPerSec
=============================================================================
