----------------------------- MODULE IwabSource -----------------------------
(***************************************************************************)
(* What an iwab sender promises to whoever listens, with the threads, the  *)
(* messages and the poll loop of iwab-sink.c abstracted away: packets are  *)
(* numbered in order, carry contiguous presentation times, and each is put *)
(* on the air at most twice, the second time as an exact copy.  Rebase is  *)
(* the one exception the sender makes: when it is resumed its timeline     *)
(* jumps to the current time.  IwabSink implements this specification.     *)
(***************************************************************************)
EXTENDS IwabNet

CONSTANTS MaxTime,     \* bound on the clock
          MaxLength,   \* longest packet, in audio frames (MAX_FRAME_SIZE)
          Resumable    \* may the sender be suspended and resumed?

ASSUME SourceAssumption ==
    /\ MaxTime \in Nat
    /\ MaxLength \in Nat \ {0}
    /\ Resumable \in BOOLEAN

VARIABLES now,         \* CLOCK_MONOTONIC of the sending host
          next_ts,     \* presentation time of the next packet
          next_pos,    \* stream position of the next packet
          last,        \* the packet that may still be repeated
          alive        \* the sender has not given up

srcVars == <<now, next_ts, next_pos, last, alive, iw_h, air>>

SrcInit ==
    /\ iwab_setup
    /\ now \in 1 .. MaxTime
    /\ next_ts \in 0 .. now
    /\ next_pos = 0
    /\ last = NoChunk
    /\ alive = TRUE

\* A new packet of n frames, due now; ok is false when the send fails, and
\* then the sender gives up.
Emit(n, ok) ==
    /\ alive /\ alive' = ok
    /\ next_ts <= now
    /\ LET c == [pos |-> next_pos, length |-> n] IN
       /\ last' = c
       /\ iwab_send(ok, c, next_ts, 0)
    /\ next_pos' = next_pos + n
    /\ next_ts' = IF ok THEN next_ts + pa_bytes_to_usec(n) ELSE next_ts
    /\ UNCHANGED now

\* The one repetition of the last packet.
Repeat(ok) ==
    /\ alive /\ alive' = ok
    /\ last # NoChunk
    /\ iwab_send(ok, last, iw_h.timestamp, 1)
    /\ last' = IF ok THEN NoChunk ELSE last
    /\ UNCHANGED <<now, next_ts, next_pos>>

Rebase ==
    /\ Resumable
    /\ next_ts' = now
    /\ UNCHANGED <<now, next_pos, last, alive, iw_h, air>>

\* The sender is unloaded or fails.
Stop ==
    /\ alive /\ alive' = FALSE
    /\ UNCHANGED <<now, next_ts, next_pos, last, iw_h, air>>

Tick ==
    /\ now < MaxTime
    /\ now' = now + 1
    /\ UNCHANGED <<next_ts, next_pos, last, alive, iw_h, air>>

SrcNext ==
    \/ \E n \in 1 .. MaxLength, ok \in BOOLEAN : Emit(n, ok)
    \/ \E ok \in BOOLEAN : Repeat(ok)
    \/ Rebase
    \/ Stop
    \/ Tick

SrcSpec == SrcInit /\ [][SrcNext]_srcVars
=============================================================================
