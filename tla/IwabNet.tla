------------------------------ MODULE IwabNet ------------------------------
(***************************************************************************)
(* The sending half of modules/iwab/net.c and the medium behind it.        *)
(*                                                                         *)
(* `iw_h' is the iwab header kept in struct iwab between two sends.  `air' *)
(* is the radio channel together with the receiver's socket buffer: the    *)
(* set of frames the receiver may still read.  A receiver may read any of  *)
(* them, any number of times, or none, so loss, duplication and reordering *)
(* need no action of their own; a frame fades away when the stream is      *)
(* AirWindow audio frames past it.                                         *)
(*                                                                         *)
(* A frame carries the header fields and, in place of samples, the stream  *)
(* position `pos' and the `length' of its payload.                         *)
(***************************************************************************)
EXTENDS SampleSpec

CONSTANTS SeqMod,      \* 2^32 in the code: seq is a uint32_t
          AirWindow    \* how long a frame stays readable, in audio frames

ASSUME NetAssumption ==
    /\ SeqMod \in Nat \ {0, 1}
    /\ AirWindow \in Nat \ {0}
    \* No frame stays readable for a whole turn of the sequence counter.
    /\ AirWindow <= SeqMod

VARIABLES iw_h, air

netVars == <<iw_h, air>>

Chunk == [pos : Nat, length : Nat]

\* A reset pa_memchunk: no memblock behind it.
NoChunk == [pos |-> 0, length |-> 0]

Header == [seq : 0 .. SeqMod - 1, timestamp : Nat, retry : 0 .. 1]

Frame == [seq : 0 .. SeqMod - 1, timestamp : Nat, retry : 0 .. 1,
          pos : Nat, length : Nat]

iwab_setup ==
    /\ iw_h = [seq |-> 0, timestamp |-> 0, retry |-> 0]
    /\ air = {}

\* Mutant: every transmission takes a new sequence number.
Bug_SendHeader(timestamp, retried) ==
    [seq |-> (iw_h.seq + 1) % SeqMod,
     timestamp |-> timestamp,
     retry |-> retried]

\* The header after iwab_send's assignments: only a first transmission
\* takes a new sequence number.
SendHeader(timestamp, retried) ==
    [seq |-> IF retried = 0 THEN (iw_h.seq + 1) % SeqMod ELSE iw_h.seq,
     timestamp |-> timestamp,
     retry |-> retried]

FrameOf(h, c) ==
    [seq |-> h.seq, timestamp |-> h.timestamp, retry |-> h.retry,
     pos |-> c.pos, length |-> c.length]

\* What stays readable once frame f is on the air.
Fade(f) == {g \in air : g.pos + AirWindow > f.pos} \cup {f}

\* iwab_send(iw, chunk, timestamp, retried).  The header is written before
\* writev() and stays written when writev() fails.
iwab_send(ok, c, timestamp, retried) ==
    LET h == SendHeader(timestamp, retried) IN
    /\ iw_h' = h
    /\ air' = IF ok THEN Fade(FrameOf(h, c)) ELSE air
=============================================================================
