------------------------------ MODULE MCBuffer ------------------------------
(***************************************************************************)
(* The jitter buffer of a receiver, fed by the abstract sender, and the    *)
(* memblockq it is built on, under any calls.  Each is explored with the   *)
(* other at rest, as `part` says.                                          *)
(*                                                                         *)
(* In the broadcast an audio frame lasts 2.5 clock units, so that the      *)
(* conversions truncate.  The memblockq has room for three frames of two   *)
(* bytes, which two memblocks fill, overwrite and leave holes in, while    *)
(* the attributes change to lengths that are no multiple of a frame.       *)
(***************************************************************************)
EXTENDS IwabCast, MemBlockQ

MCAttributes ==
    {[maxlength |-> 6, tlength |-> t, prebuf |-> 3, minreq |-> 1,
      maxrewind |-> 2] : t \in {0, 5}}
MCLengths == {-1, 3}

VARIABLE part

mcVars == <<part, castVars, mbqVars>>

MCInit ==
    /\ part \in {"cast", "memblockq"}
    /\ CastInit /\ MbqInit
    \* those at rest need one initial state only
    /\ part = "cast" \/ (now = 1 /\ next_ts = 1 /\ sink_opened)
    /\ part = "memblockq" \/ q.tlength = 6

MCNext ==
    \/ part = "cast" /\ CastNext /\ UNCHANGED <<part, mbqVars>>
    \/ part = "memblockq" /\ MbqNext /\ UNCHANGED <<part, castVars>>

MCSpec == MCInit /\ [][MCNext]_mcVars
=============================================================================
