--------------------------- MODULE IwabCastProofs ---------------------------
(***************************************************************************)
(* A broadcast and its listener, for every rate, window and queue size: the*)
(* proofs of the properties of IwabCast.                                   *)
(***************************************************************************)
EXTENDS IwabCast, MemBlockQFacts

-----------------------------------------------------------------------------
(* The arithmetic of durations.                                            *)

\* Integer division truncates.
LEMMA DivBounds ==
    ASSUME NEW a \in Nat, NEW d \in Nat \ {0}
    PROVE  /\ a \div d \in Nat
           /\ d * (a \div d) <= a /\ a < d * (a \div d) + d
  OBVIOUS

\* A packet of n frames lasts at least n clock units.
LEMMA DurationFacts ==
    ASSUME NEW n \in Nat
    PROVE  /\ pa_bytes_to_usec(n) \in Nat
           /\ n <= pa_bytes_to_usec(n)
           /\ Rate * pa_bytes_to_usec(n) <= n * UsecPerSec
           /\ n * UsecPerSec < Rate * pa_bytes_to_usec(n) + Rate
  <1> DEFINE a == n * UsecPerSec
             k == a \div Rate
  <1>1. Rate \in Nat \ {0} /\ UsecPerSec \in Nat \ {0} /\ Rate <= UsecPerSec
    BY RateAssumption
  <1>2. a \in Nat
    BY <1>1
  <1>3. k \in Nat /\ Rate * k <= a /\ a < Rate * k + Rate
    BY <1>1, <1>2, DivBounds
  <1>4. n * Rate <= a
    BY <1>1
  <1>5. n <= k
    <2> HIDE DEF k, a
    <2> SUFFICES ASSUME n >= k + 1 PROVE FALSE
      BY <1>3
    <2>1. n * Rate >= (k + 1) * Rate
      BY <1>1, <1>3
    <2>2. (k + 1) * Rate = Rate * k + Rate
      BY <1>1, <1>3
    <2>3. Rate * k \in Int /\ n * Rate \in Int
      BY <1>1, <1>3
    <2> QED
      BY <1>1, <1>2, <1>3, <1>4, <2>1, <2>2, <2>3
  <1> QED
    BY <1>3, <1>5 DEF pa_bytes_to_usec

-----------------------------------------------------------------------------
(***************************************************************************)
(* The poll callback never fails its assertion while the sender is not     *)
(* resumed.  The assertion compares timestamps, its guard compares         *)
(* sequence numbers: the invariant ties the two together at the point where*)
(* one packet ends and the next begins.                                    *)
(***************************************************************************)
EndTs(f) == f.timestamp + pa_bytes_to_usec(f.length)

\* A packet that starts where another ends is its successor.
AirTimes ==
    \A f, g \in air : g.timestamp = EndTs(f) => g.seq = (f.seq + 1) % SeqMod

\* The next packet starts at or after the end of every packet sent, and after
\* the end of all of them but the last.
HeadTimes ==
    alive => \A f \in air : /\ EndTs(f) <= next_ts
                            /\ EndTs(f) = next_ts => iw_h.seq = f.seq

\* The same for the end of the packet heard last, which may have faded.
HeardTimes ==
    /\ last_pb_ts \in Nat
    /\ seqnb # 0 => last_pb_ts # 0
    /\ last_pb_ts # 0 =>
          /\ \A g \in air :
                g.timestamp = last_pb_ts => g.seq = (seqnb + 1) % SeqMod
          /\ alive => /\ last_pb_ts <= next_ts
                      /\ last_pb_ts = next_ts => iw_h.seq = seqnb

\* A packet that may be repeated is still readable.
PendingCopy ==
    alive /\ last # NoChunk =>
        \E f \in air : /\ f.seq = iw_h.seq /\ f.timestamp = iw_h.timestamp
                       /\ f.pos = last.pos /\ f.length = last.length

SrcTypeOK ==
    /\ now \in Nat /\ next_ts \in Nat /\ next_pos \in Nat
    /\ last \in Chunk /\ alive \in BOOLEAN
    /\ iw_h \in Header /\ air \subseteq Frame

\* Every packet carries audio.
SrcInv == SrcTypeOK /\ PendingCopy /\ \A f \in air : f.length >= 1

TimeInv == AirTimes /\ HeadTimes /\ HeardTimes

\* What a frame on the air looks like.
LEMMA FrameFacts ==
    ASSUME NEW f \in Frame
    PROVE  /\ f.seq \in 0 .. SeqMod - 1 /\ f.timestamp \in Nat
           /\ f.pos \in Nat /\ f.length \in Nat
           /\ pa_bytes_to_usec(f.length) \in Nat
           /\ f.length <= pa_bytes_to_usec(f.length)
           /\ EndTs(f) \in Nat /\ f.timestamp + f.length <= EndTs(f)
  <1>1. /\ f.seq \in 0 .. SeqMod - 1 /\ f.timestamp \in Nat
        /\ f.pos \in Nat /\ f.length \in Nat
    BY DEF Frame
  <1>2. /\ pa_bytes_to_usec(f.length) \in Nat
        /\ f.length <= pa_bytes_to_usec(f.length)
    BY <1>1, DurationFacts
  <1> QED
    BY <1>1, <1>2 DEF EndTs

\* What a send does: the frame that a successful one adds.
LEMMA SendFacts ==
    ASSUME SrcTypeOK, NEW ok \in BOOLEAN, NEW c \in Chunk, NEW t \in Nat,
           NEW r \in 0 .. 1, iwab_send(ok, c, t, r)
    PROVE  /\ iw_h' \in Header /\ air' \subseteq Frame
           /\ iw_h'.timestamp = t
           /\ iw_h'.seq = IF r = 0 THEN (iw_h.seq + 1) % SeqMod ELSE iw_h.seq
           /\ ~ok => air' = air
           /\ ok => \E f \in Frame :
                       /\ f.seq = iw_h'.seq /\ f.timestamp = t
                       /\ f.pos = c.pos /\ f.length = c.length
                       /\ f \in air' /\ air' \subseteq air \cup {f}
                       /\ \A g \in air' \ {f} : g.pos + AirWindow > f.pos
  <1> DEFINE h == SendHeader(t, r)
             f == FrameOf(h, c)
  <1>1. SeqMod \in Nat \ {0, 1}
    BY NetAssumption
  <1>2. (iw_h.seq + 1) % SeqMod \in 0 .. SeqMod - 1 /\ iw_h.seq \in 0 .. SeqMod - 1
    BY <1>1 DEF SrcTypeOK, Header
  <1>3. /\ h \in Header /\ h.timestamp = t
        /\ h.seq = IF r = 0 THEN (iw_h.seq + 1) % SeqMod ELSE iw_h.seq
    BY <1>2 DEF SendHeader, Header
  <1>4. iw_h' = h /\ air' = IF ok THEN Fade(f) ELSE air
    BY DEF iwab_send
  <1> HIDE DEF h
  <1>5. /\ f \in Frame /\ f.seq = h.seq /\ f.timestamp = h.timestamp
        /\ f.pos = c.pos /\ f.length = c.length
    BY <1>3 DEF FrameOf, Frame, Header, Chunk
  <1> HIDE DEF f
  <1>6. /\ f \in Fade(f) /\ Fade(f) \subseteq air \cup {f}
        /\ \A g \in Fade(f) \ {f} : g.pos + AirWindow > f.pos
    BY DEF Fade
  <1>7. air \subseteq Frame
    BY DEF SrcTypeOK
  <1> QED
    BY <1>3, <1>4, <1>5, <1>6, <1>7

\* Emit sends the next packet.
LEMMA EmitFacts ==
    ASSUME SrcTypeOK, NEW n \in 1 .. MaxLength, NEW ok \in BOOLEAN, Emit(n, ok)
    PROVE  /\ SrcTypeOK' /\ alive /\ alive' = ok
           /\ n \in Nat /\ n >= 1
           /\ next_pos' = next_pos + n
           /\ last' = [pos |-> next_pos, length |-> n]
           /\ iw_h'.timestamp = next_ts
           /\ iw_h'.seq = (iw_h.seq + 1) % SeqMod
           /\ ~ok => air' = air
           /\ ok => /\ next_ts' = next_ts + pa_bytes_to_usec(n)
                    /\ \E f \in Frame :
                          /\ f.seq = iw_h'.seq /\ f.timestamp = next_ts
                          /\ f.pos = next_pos /\ f.length = n
                          /\ f \in air' /\ air' \subseteq air \cup {f}
                          /\ \A g \in air' \ {f} : g.pos + AirWindow > f.pos
  <1> DEFINE c == [pos |-> next_pos, length |-> n]
  <1>1. n \in Nat /\ n >= 1
    BY SourceAssumption
  <1>2. next_pos \in Nat /\ next_ts \in Nat
    BY DEF SrcTypeOK
  <1>3. c \in Chunk /\ c.pos = next_pos /\ c.length = n
    BY <1>1, <1>2 DEF Chunk
  <1>4. /\ alive /\ alive' = ok /\ last' = c /\ iwab_send(ok, c, next_ts, 0)
        /\ next_pos' = next_pos + n /\ now' = now
        /\ next_ts' = IF ok THEN next_ts + pa_bytes_to_usec(n) ELSE next_ts
    BY DEF Emit
  <1> HIDE DEF c
  <1>5. /\ iw_h' \in Header /\ air' \subseteq Frame
        /\ iw_h'.timestamp = next_ts
        /\ iw_h'.seq = (iw_h.seq + 1) % SeqMod
        /\ ~ok => air' = air
        /\ ok => \E f \in Frame :
                    /\ f.seq = iw_h'.seq /\ f.timestamp = next_ts
                    /\ f.pos = c.pos /\ f.length = c.length
                    /\ f \in air' /\ air' \subseteq air \cup {f}
                    /\ \A g \in air' \ {f} : g.pos + AirWindow > f.pos
    <2>1. 0 \in 0 .. 1
      OBVIOUS
    <2> QED
      BY <1>2, <1>3, <1>4, <2>1, SendFacts
  <1>6. pa_bytes_to_usec(n) \in Nat
    BY <1>1, DurationFacts
  <1>7. SrcTypeOK'
    BY <1>1, <1>2, <1>3, <1>4, <1>5, <1>6 DEF SrcTypeOK
  <1> QED
    BY <1>1, <1>3, <1>4, <1>5, <1>7 DEF c

\* Repeat puts a copy of the last packet on the air.
LEMMA RepeatFacts ==
    ASSUME SrcTypeOK, PendingCopy, NEW ok \in BOOLEAN, Repeat(ok)
    PROVE  /\ SrcTypeOK' /\ alive /\ alive' = ok
           /\ UNCHANGED <<now, next_ts, next_pos>>
           /\ iw_h'.timestamp = iw_h.timestamp /\ iw_h'.seq = iw_h.seq
           /\ ~ok => air' = air
           /\ ok => /\ last' = NoChunk
                    /\ \E f \in Frame, o \in air :
                          /\ f.seq = o.seq /\ f.timestamp = o.timestamp
                          /\ f.pos = o.pos /\ f.length = o.length
                          /\ f \in air' /\ air' \subseteq air \cup {f}
                          /\ \A g \in air' \ {f} : g.pos + AirWindow > f.pos
  <1>1. /\ alive /\ alive' = ok /\ last # NoChunk
        /\ iwab_send(ok, last, iw_h.timestamp, 1)
        /\ last' = IF ok THEN NoChunk ELSE last
        /\ UNCHANGED <<now, next_ts, next_pos>>
    BY DEF Repeat
  <1>2. last \in Chunk /\ iw_h.timestamp \in Nat /\ NoChunk \in Chunk
    BY DEF SrcTypeOK, Header, NoChunk, Chunk
  <1>3. /\ iw_h' \in Header /\ air' \subseteq Frame
        /\ iw_h'.timestamp = iw_h.timestamp
        /\ iw_h'.seq = iw_h.seq
        /\ ~ok => air' = air
        /\ ok => \E f \in Frame :
                    /\ f.seq = iw_h'.seq /\ f.timestamp = iw_h.timestamp
                    /\ f.pos = last.pos /\ f.length = last.length
                    /\ f \in air' /\ air' \subseteq air \cup {f}
                    /\ \A g \in air' \ {f} : g.pos + AirWindow > f.pos
    <2>1. 1 \in 0 .. 1 /\ 1 # 0
      OBVIOUS
    <2> QED
      BY <1>1, <1>2, <2>1, SendFacts
  <1>4. PICK o \in air : /\ o.seq = iw_h.seq /\ o.timestamp = iw_h.timestamp
                         /\ o.pos = last.pos /\ o.length = last.length
    BY <1>1 DEF PendingCopy
  <1>5. SrcTypeOK'
    BY <1>1, <1>2, <1>3 DEF SrcTypeOK
  <1> QED
    BY <1>1, <1>3, <1>4, <1>5

\* The sender keeps its part of the invariant, resumed or not.
LEMMA SrcInvNext ==
    ASSUME SrcInv, SrcNext
    PROVE  SrcInv'
  <1> USE DEF SrcInv
  <1>1. CASE \E n \in 1 .. MaxLength, ok \in BOOLEAN : Emit(n, ok)
    <2>1. PICK n \in 1 .. MaxLength, ok \in BOOLEAN : Emit(n, ok)
      BY <1>1
    <2>2. /\ SrcTypeOK' /\ alive' = ok /\ n >= 1
          /\ last' = [pos |-> next_pos, length |-> n]
          /\ iw_h'.timestamp = next_ts
          /\ ~ok => air' = air
          /\ ok => \E f \in Frame :
                      /\ f.seq = iw_h'.seq /\ f.timestamp = next_ts
                      /\ f.pos = next_pos /\ f.length = n
                      /\ f \in air' /\ air' \subseteq air \cup {f}
      BY <2>1, EmitFacts
    <2>3. PendingCopy'
      <3>1. last'.pos = next_pos /\ last'.length = n
        BY <2>2
      <3> QED
        BY <2>2, <3>1 DEF PendingCopy
    <2>4. \A g \in air' : g.length >= 1
      BY <2>2
    <2> QED
      BY <2>2, <2>3, <2>4
  <1>2. CASE \E ok \in BOOLEAN : Repeat(ok)
    <2>1. PICK ok \in BOOLEAN : Repeat(ok)
      BY <1>2
    <2>2. /\ SrcTypeOK' /\ alive' = ok
          /\ ~ok => air' = air
          /\ ok => /\ last' = NoChunk
                   /\ \E f \in Frame, o \in air :
                         /\ f.length = o.length
                         /\ f \in air' /\ air' \subseteq air \cup {f}
      BY <2>1, RepeatFacts
    <2> QED
      BY <2>2 DEF PendingCopy
  <1>3. CASE Rebase \/ Stop \/ Tick
    <2>1. /\ next_pos' = next_pos /\ last' = last /\ iw_h' = iw_h /\ air' = air
          /\ alive' = alive \/ alive' = FALSE
      BY <1>3, Zenon DEF Rebase, Stop, Tick
    <2>2. now' \in Nat /\ next_ts' \in Nat
      BY <1>3 DEF Rebase, Stop, Tick, SrcTypeOK
    <2>3. alive' \in BOOLEAN /\ (alive' => alive)
      <3>1. CASE alive' = alive
        BY <3>1 DEF SrcTypeOK
      <3>2. CASE alive' = FALSE
        BY <3>2
      <3> QED
        BY <2>1, <3>1, <3>2
    <2>4. SrcTypeOK'
      BY <2>1, <2>2, <2>3 DEF SrcTypeOK
    <2>5. PendingCopy'
      BY <2>1, <2>3 DEF PendingCopy
    <2> QED
      BY <2>1, <2>4, <2>5
  <1> QED
    BY <1>1, <1>2, <1>3 DEF SrcNext

\* A sender that is never resumed keeps its timeline.
LEMMA TimeInvSource ==
    ASSUME ~Resumable, SrcInv, TimeInv, SrcNext, UNCHANGED inputVars
    PROVE  TimeInv'
  <1>0. /\ \A f \in air : f.length >= 1
        /\ air \subseteq Frame /\ SrcTypeOK /\ PendingCopy
        /\ next_ts \in Nat
    BY DEF SrcInv, SrcTypeOK
  <1>00. seqnb' = seqnb /\ last_pb_ts' = last_pb_ts
    BY DEF inputVars
  <1>1. CASE \E n \in 1 .. MaxLength, ok \in BOOLEAN : Emit(n, ok)
    <2>1. PICK n \in 1 .. MaxLength, ok \in BOOLEAN : Emit(n, ok)
      BY <1>1
    <2>2. /\ alive /\ alive' = ok /\ n \in Nat /\ n >= 1
          /\ iw_h'.seq = (iw_h.seq + 1) % SeqMod
          /\ ~ok => air' = air
          /\ ok => /\ next_ts' = next_ts + pa_bytes_to_usec(n)
                   /\ \E f \in Frame :
                         /\ f.seq = iw_h'.seq /\ f.timestamp = next_ts
                         /\ f.pos = next_pos /\ f.length = n
                         /\ f \in air' /\ air' \subseteq air \cup {f}
      BY <1>0, <2>1, EmitFacts
    <2>3. CASE ~ok
      BY <1>00, <2>2, <2>3 DEF TimeInv, AirTimes, HeadTimes, HeardTimes
    <2>4. CASE ok
      <3>1. PICK f \in Frame :
                         /\ f.seq = iw_h'.seq /\ f.timestamp = next_ts
                         /\ f.length = n
                         /\ f \in air' /\ air' \subseteq air \cup {f}
        BY <2>2, <2>4
      <3>2. next_ts' = EndTs(f) /\ EndTs(f) \in Nat /\ next_ts < EndTs(f)
        BY <1>0, <2>2, <2>4, <3>1, FrameFacts DEF EndTs
      <3>3. ASSUME NEW g \in air
            PROVE  /\ EndTs(g) \in Nat /\ EndTs(g) <= next_ts
                   /\ EndTs(g) = next_ts => iw_h.seq = g.seq
                   /\ g.timestamp \in Nat /\ g.timestamp < EndTs(g)
        <4>1. g \in Frame /\ g.length >= 1
          BY <1>0
        <4>2. /\ g.timestamp \in Nat /\ g.length \in Nat
              /\ EndTs(g) \in Nat /\ g.timestamp + g.length <= EndTs(g)
          BY <4>1, FrameFacts
        <4> QED
          BY <2>2, <4>1, <4>2 DEF TimeInv, HeadTimes
      <3>4. AirTimes'
        <4> SUFFICES ASSUME NEW g1 \in air', NEW g2 \in air',
                            g2.timestamp = EndTs(g1)
                     PROVE  g2.seq = (g1.seq + 1) % SeqMod
          BY DEF AirTimes, EndTs
        <4>1. CASE g1 \in air /\ g2 \in air
          BY <4>1 DEF TimeInv, AirTimes
        <4>2. CASE g1 \in air /\ g2 = f
          BY <2>2, <3>1, <3>3, <4>2
        <4>3. CASE g1 = f /\ g2 \in air
          BY <1>0, <3>2, <3>3, <4>3
        <4>4. CASE g1 = f /\ g2 = f
          BY <1>0, <3>1, <3>2, <4>4
        <4> QED
          BY <3>1, <4>1, <4>2, <4>3, <4>4
      <3>5. HeadTimes'
        <4> SUFFICES ASSUME NEW g \in air'
                     PROVE  /\ EndTs(g) <= next_ts'
                            /\ EndTs(g) = next_ts' => iw_h'.seq = g.seq
          BY DEF HeadTimes, EndTs
        <4> QED
          BY <1>0, <3>1, <3>2, <3>3
      <3>6. HeardTimes'
        <4>1. /\ last_pb_ts \in Nat
              /\ seqnb # 0 => last_pb_ts # 0
              /\ last_pb_ts # 0 =>
                  /\ \A g \in air :
                      g.timestamp = last_pb_ts => g.seq = (seqnb + 1) % SeqMod
                  /\ last_pb_ts <= next_ts
                  /\ last_pb_ts = next_ts => iw_h.seq = seqnb
          BY <2>2 DEF TimeInv, HeardTimes
        <4>2. ASSUME last_pb_ts # 0, NEW g \in air', g.timestamp = last_pb_ts
              PROVE  g.seq = (seqnb + 1) % SeqMod
          BY <2>2, <3>1, <4>1, <4>2
        <4>3. ASSUME last_pb_ts # 0
              PROVE  last_pb_ts <= next_ts' /\ last_pb_ts # next_ts'
          BY <1>0, <3>2, <4>1, <4>3
        <4> QED
          BY <1>00, <4>1, <4>2, <4>3 DEF HeardTimes
      <3> QED
        BY <3>4, <3>5, <3>6 DEF TimeInv
    <2> QED
      BY <2>3, <2>4
  <1>2. CASE \E ok \in BOOLEAN : Repeat(ok)
    <2>1. PICK ok \in BOOLEAN : Repeat(ok)
      BY <1>2
    <2>2. /\ alive /\ alive' = ok /\ next_ts' = next_ts
          /\ iw_h'.seq = iw_h.seq
          /\ ~ok => air' = air
          /\ ok => \E f \in Frame, o \in air :
                          /\ f.seq = o.seq /\ f.timestamp = o.timestamp
                          /\ f.pos = o.pos /\ f.length = o.length
                          /\ f \in air' /\ air' \subseteq air \cup {f}
      BY <1>0, <2>1, RepeatFacts
    <2>3. \A g \in air' : \E o \in air :
            g.seq = o.seq /\ g.timestamp = o.timestamp /\ EndTs(g) = EndTs(o)
      BY <2>2 DEF EndTs
    <2>4. AirTimes'
      <3> SUFFICES ASSUME NEW g1 \in air', NEW g2 \in air',
                          g2.timestamp = EndTs(g1)
                   PROVE  g2.seq = (g1.seq + 1) % SeqMod
        BY DEF AirTimes, EndTs
      <3> QED
        BY <2>3 DEF TimeInv, AirTimes
    <2>5. HeadTimes'
      <3> SUFFICES ASSUME NEW g \in air'
                   PROVE  /\ EndTs(g) <= next_ts'
                          /\ EndTs(g) = next_ts' => iw_h'.seq = g.seq
        BY DEF HeadTimes, EndTs
      <3> QED
        BY <2>2, <2>3 DEF TimeInv, HeadTimes
    <2>6. HeardTimes'
      BY <1>00, <2>2, <2>3 DEF TimeInv, HeardTimes
    <2> QED
      BY <2>4, <2>5, <2>6 DEF TimeInv
  <1>3. CASE Stop \/ Tick
    <2>1. /\ next_ts' = next_ts /\ iw_h' = iw_h /\ air' = air
          /\ alive' => alive
      BY <1>3 DEF Stop, Tick
    <2> QED
      BY <1>00, <2>1 DEF TimeInv, AirTimes, HeadTimes, HeardTimes, EndTs
  <1> QED
    BY <1>1, <1>2, <1>3 DEF SrcNext, Rebase

\* The listener finds every packet either at a later time than it expects, or
\* next in sequence.
LEMMA TimeInvInput ==
    ASSUME SrcInv, TimeInv, InputNext, UNCHANGED srcVars, ~aborted
    PROVE  TimeInv' /\ ~aborted'
  <1>0. /\ air' = air /\ alive' = alive /\ next_ts' = next_ts /\ iw_h' = iw_h
    BY DEF srcVars
  <1>1. CASE \E f \in air : ReadFrame(f)
    <2>1. PICK f \in air : ReadFrame(f)
      BY <1>1
    <2>2. f \in Frame /\ f.length >= 1
      BY DEF SrcInv, SrcTypeOK
    <2>3. ~AssertFails(f)
      <3> SUFFICES ASSUME AssertFails(f) PROVE FALSE
        OBVIOUS
      <3>1. seqnb # 0 /\ f.seq # (seqnb + 1) % SeqMod
        BY DEF AssertFails, IsGap
      <3>2. last_pb_ts # 0 => f.timestamp # last_pb_ts
        BY <3>1 DEF TimeInv, HeardTimes
      <3>3. last_pb_ts # 0 /\ last_pb_ts \in Nat
        BY <3>1 DEF TimeInv, HeardTimes
      <3>4. ~(f.timestamp > last_pb_ts) /\ ~(f.timestamp < last_pb_ts)
        BY <2>1, <3>3 DEF AssertFails, ReadFrame, Accepts
      <3> QED
        BY <2>2, <3>2, <3>3, <3>4, FrameFacts
    <2>4. aborted' = aborted /\ seqnb' = f.seq /\ last_pb_ts' = EndTs(f)
      BY <2>1, <2>3 DEF ReadFrame, EndTs
    <2>5. /\ EndTs(f) \in Nat /\ f.timestamp + f.length <= EndTs(f)
          /\ f.timestamp \in Nat /\ f.length \in Nat
      BY <2>2, FrameFacts
    <2>6. HeardTimes'
      <3>1. EndTs(f) # 0
        BY <2>2, <2>5
      <3>2. \A g \in air : g.timestamp = EndTs(f) => g.seq = (f.seq + 1) % SeqMod
        BY DEF TimeInv, AirTimes
      <3>3. alive => /\ EndTs(f) <= next_ts
                     /\ EndTs(f) = next_ts => iw_h.seq = f.seq
        BY DEF TimeInv, HeadTimes
      <3> HIDE DEF TimeInv
      <3> QED
        BY <1>0, <2>4, <2>5, <3>1, <3>2, <3>3 DEF HeardTimes
    <2> QED
      BY <1>0, <2>4, <2>6 DEF TimeInv, AirTimes, HeadTimes, EndTs
  <1>2. CASE \/ sink_input_pop_cb
             \/ \E n \in 1 .. RewindMax : sink_input_process_rewind_cb(n)
             \/ sink_input_attach \/ sink_input_detach \/ SinkStateChange
    <2>1. seqnb' = seqnb /\ last_pb_ts' = last_pb_ts /\ aborted' = aborted
      BY <1>2 DEF sink_input_pop_cb, sink_input_process_rewind_cb,
                  sink_input_attach, sink_input_detach, SinkStateChange
    <2> QED
      BY <1>0, <2>1 DEF TimeInv, AirTimes, HeadTimes, HeardTimes, EndTs
  <1> QED
    BY <1>1, <1>2 DEF InputNext

\* The types of the rest of the state.
InputTypeOK ==
    /\ seqnb \in 0 .. SeqMod - 1 /\ last_pb_ts \in Nat
    /\ sink_opened \in BOOLEAN /\ attached \in BOOLEAN /\ aborted \in BOOLEAN

\* The listener keeps the types of its state.
LEMMA InputTypeNext ==
    ASSUME SrcInv, InputTypeOK, InputNext
    PROVE  InputTypeOK'
  <1>1. ASSUME NEW f \in air, ReadFrame(f)
        PROVE  InputTypeOK'
    <2>1. f \in Frame
      BY DEF SrcInv, SrcTypeOK
    <2>2. f.seq \in 0 .. SeqMod - 1 /\ EndTs(f) \in Nat
      BY <2>1, FrameFacts
    <2>3. /\ \/ seqnb' = seqnb /\ last_pb_ts' = last_pb_ts
             \/ seqnb' = f.seq /\ last_pb_ts' = EndTs(f)
          /\ sink_opened' = sink_opened /\ attached' = attached
      BY <1>1 DEF ReadFrame, EndTs
    <2>4. aborted' = aborted \/ aborted' = TRUE
      BY <1>1, Zenon DEF ReadFrame
    <2> QED
      BY <2>2, <2>3, <2>4 DEF InputTypeOK
  <1>2. ASSUME \/ sink_input_pop_cb
               \/ \E n \in 1 .. RewindMax : sink_input_process_rewind_cb(n)
        PROVE  InputTypeOK'
    BY <1>2 DEF sink_input_pop_cb, sink_input_process_rewind_cb, InputTypeOK
  <1>3. ASSUME sink_input_attach \/ sink_input_detach \/ SinkStateChange
        PROVE  InputTypeOK'
    <2>1. /\ seqnb' = seqnb /\ last_pb_ts' = last_pb_ts /\ aborted' = aborted
          /\ attached' = attached \/ attached' = TRUE \/ attached' = FALSE
          /\ sink_opened' = sink_opened \/ sink_opened' = ~sink_opened
      BY <1>3, Zenon DEF sink_input_attach, sink_input_detach, SinkStateChange
    <2>2. attached' \in BOOLEAN /\ sink_opened' \in BOOLEAN
      BY <2>1, Zenon DEF InputTypeOK
    <2> QED
      BY <2>1, <2>2 DEF InputTypeOK
  <1> QED
    BY <1>1, <1>2, <1>3 DEF InputNext

LEMMA InitFacts ==
    ASSUME CastInit
    PROVE  SrcInv /\ InputTypeOK /\ TimeInv /\ ~aborted
  <1>1. /\ MaxTime \in Nat /\ SeqMod \in Nat \ {0, 1}
    BY SourceAssumption, NetAssumption
  <1>2. now \in Nat /\ next_ts \in Nat /\ next_pos \in Nat
    BY <1>1 DEF CastInit, SrcInit
  <1>3. air = {} /\ last = NoChunk /\ alive = TRUE
        /\ iw_h = [seq |-> 0, timestamp |-> 0, retry |-> 0]
    BY DEF CastInit, SrcInit, iwab_setup
  <1>4. iw_h \in Header
    BY <1>1, <1>3 DEF Header
  <1>5. last \in Chunk
    BY <1>3 DEF Chunk, NoChunk
  <1>6. SrcInv
    BY <1>2, <1>3, <1>4, <1>5 DEF SrcInv, SrcTypeOK, PendingCopy
  <1>7. seqnb = 0 /\ last_pb_ts = 0 /\ aborted = FALSE /\ attached = FALSE
        /\ sink_opened \in BOOLEAN
    BY DEF CastInit, InputInit
  <1>8. InputTypeOK
    <2>1. 0 \in 0 .. SeqMod - 1 /\ 0 \in Nat
      BY <1>1
    <2> QED
      BY <1>7, <2>1, Zenon DEF InputTypeOK
  <1>9. TimeInv
    BY <1>3, <1>7 DEF TimeInv, AirTimes, HeadTimes, HeardTimes
  <1> QED
    BY <1>6, <1>7, <1>8, <1>9

\* rtpoll_work_cb keeps the types of its state and never runs into its
\* pa_assert(timestamp > last_pb_ts), whatever packets are lost, repeated or
\* read late and however the sequence counter wraps, as long as the sender is
\* not resumed after a suspension.
THEOREM AssertionNeverFails ==
    ~Resumable => (CastSpec => []CallbackSound)
  <1> SUFFICES ASSUME ~Resumable PROVE CastSpec => []CallbackSound
    OBVIOUS
  <1> DEFINE Inv == SrcInv /\ InputTypeOK /\ TimeInv /\ ~aborted
  <1>1. CastInit => Inv
    BY InitFacts
  <1>2. Inv /\ [CastNext]_castVars => Inv'
    <2> SUFFICES ASSUME Inv, [CastNext]_castVars PROVE Inv'
      OBVIOUS
    <2>1. CASE SrcNext /\ UNCHANGED inputVars
      <3>1. SrcInv' /\ TimeInv'
        BY <2>1, SrcInvNext, TimeInvSource
      <3>2. InputTypeOK' /\ ~aborted'
        BY <2>1 DEF inputVars, InputTypeOK
      <3> QED
        BY <3>1, <3>2
    <2>2. CASE InputNext /\ UNCHANGED srcVars
      <3>1. InputTypeOK' /\ TimeInv' /\ ~aborted'
        BY <2>2, InputTypeNext, TimeInvInput
      <3>2. SrcInv'
        BY <2>2 DEF srcVars, SrcInv, SrcTypeOK, PendingCopy
      <3> QED
        BY <3>1, <3>2
    <2>3. CASE UNCHANGED castVars
      BY <2>3 DEF castVars, srcVars, inputVars, SrcInv, SrcTypeOK, PendingCopy,
                  InputTypeOK, TimeInv, AirTimes, HeadTimes, HeardTimes, EndTs
    <2> QED
      BY <2>1, <2>2, <2>3 DEF CastNext
  <1>3. Inv => CallbackSound
    BY DEF SrcInv, SrcTypeOK, InputTypeOK, CallbackSound, CastTypeOK,
           AssertionHolds
  <1> QED
    BY <1>1, <1>2, <1>3, PTL DEF CastSpec

-----------------------------------------------------------------------------
(***************************************************************************)
(* The queue.  The receiver only ever appends: the write index never moves *)
(* back and is never behind the read index, so a push neither splits nor   *)
(* merges items, and one that is accepted leaves the queue within its      *)
(* maximum length.                                                         *)
(***************************************************************************)
\* The first l frames of the packet at position p, see Payload.
Part(p, l) == [blk |-> p, index |-> 0, length |-> l]

\* An item holds the beginning of a packet.
ItemOK(b) ==
    /\ b.index \in Nat
    /\ b.chunk = Part(b.chunk.blk, b.chunk.length)
    /\ b.chunk.blk \in Nat /\ b.chunk.length \in Nat \ {0}

QueueOK(r) ==
    /\ Shape(r) /\ r.silence = Silence
    /\ r.maxlength \in Int /\ r.maxrewind \in Int /\ r.prebuf \in Nat \ {0}
    /\ r.read_index \in Nat /\ r.write_index \in Nat
    /\ r.read_index <= r.write_index
    /\ \A b \in r.blocks : ItemOK(b) /\ End(b) <= r.write_index

LEMMA ItemFacts ==
    ASSUME NEW b, ItemOK(b)
    PROVE  /\ b.index \in Nat /\ b.chunk.length \in Nat /\ b.chunk.length >= 1
           /\ b.chunk.blk \in Nat /\ b.chunk.index = 0
           /\ End(b) \in Nat /\ b.index < End(b)
           /\ b.chunk = [blk |-> b.chunk.blk, index |-> 0,
                         length |-> b.chunk.length]
  BY DEF ItemOK, End, Part

\* A push at the end of the list.
LEMMA AppendFacts ==
    ASSUME NEW r, QueueOK(r), NEW p \in Nat, NEW l \in Nat \ {0}, NEW s,
           s = pa_memblockq_push(r, Part(p, l))
    PROVE  /\ QueueOK(s)
           /\ s.read_index = r.read_index /\ s.maxlength = r.maxlength
           /\ \/ s = r
              \/ /\ s.write_index = r.write_index + l
                 /\ s.write_index - s.read_index <= s.maxlength
                 /\ s.blocks = r.blocks \cup
                       {Item(r.write_index, Part(p, l))}
  <1> DEFINE c == Part(p, l)
             new == Item(r.write_index, c)
  <1>1. c.length = l /\ c.index = 0 /\ c.blk = p
    BY DEF Part
  <1>2. /\ new.index = r.write_index /\ new.chunk = c
        /\ End(new) = r.write_index + l /\ ItemOK(new)
    BY <1>1 DEF Item, End, ItemOK, QueueOK, Part
  <1>3. /\ Shape(s) /\ SameAttributes(r, s) /\ s.maxrewind = r.maxrewind
        /\ s.read_index = r.read_index
        /\ \/ s = r
           \/ /\ can_push(r, c.length)
              /\ s.blocks = Written(r, c)
              /\ s.write_index = r.write_index + c.length
    BY PushEffect DEF QueueOK
  <1> HIDE DEF c, new
  <1>4. ASSUME can_push(r, l)
        PROVE  r.write_index + l - r.read_index <= r.maxlength
    <2>1. TailEnd(r, r.write_index) \in Int
          /\ TailEnd(r, r.write_index) <= r.write_index
      <3> DEFINE E == {End(b) : b \in r.blocks}
      <3>1. CASE r.blocks = {}
        BY <3>1 DEF TailEnd, QueueOK
      <3>2. CASE r.blocks # {}
        <4>1. /\ E \in SUBSET Int /\ E # {} /\ \A y \in E : y <= r.write_index
          <5>1. \A b \in r.blocks : ItemOK(b) /\ End(b) <= r.write_index
            BY DEF QueueOK
          <5>2. ASSUME NEW b \in r.blocks PROVE End(b) \in Int
            <6>1. ItemOK(b)
              BY <5>1
            <6>2. End(b) \in Nat
              BY <6>1, ItemFacts
            <6> QED
              BY <6>2
          <5> QED
            BY <3>2, <5>1, <5>2
        <4>2. TailEnd(r, r.write_index) = Sets!Max(E)
          BY <3>2 DEF TailEnd
        <4>3. r.write_index \in Int
          BY DEF QueueOK
        <4> HIDE DEF E
        <4>4. PICK m \in E : \A y \in E : y <= m
          BY <4>1, <4>3, GreatestInteger
        <4>5. \E y \in E : \A z \in E : y >= z
          BY <4>1, <4>4
        <4>6. Sets!Max(E) \in E
          BY <4>5 DEF Sets!Max
        <4> QED
          BY <4>1, <4>2, <4>6
      <3> QED
        BY <3>1, <3>2
    <2>2. /\ r.read_index \in Nat /\ r.write_index \in Nat
          /\ r.read_index <= r.write_index
      BY DEF QueueOK
    <2> QED
      BY <1>4, <2>1, <2>2 DEF can_push
  <1>5. Written(r, c) = r.blocks \cup {new}
    <2>1. ASSUME NEW b \in r.blocks
          PROVE  Remains(b, r.write_index, r.write_index + c.length) = {b}
      BY DEF Remains, QueueOK
    <2> DEFINE rest == UNION {Remains(b, r.write_index, r.write_index + c.length) :
                                 b \in r.blocks}
    <2>2. rest = r.blocks
      BY <2>1
    <2>3. ASSUME NEW b \in r.blocks
          PROVE  ~Continues(b, r.write_index, c)
      <3>1. b.chunk.index = 0 /\ b.chunk.length \in Nat /\ b.chunk.length >= 1
        BY ItemFacts DEF QueueOK
      <3> QED
        BY <1>1, <3>1 DEF Continues
    <2> HIDE DEF rest
    <2>4. Written(r, c) = IF {b \in rest : Continues(b, r.write_index, c)} = {}
                          THEN rest \cup {Item(r.write_index, c)}
                          ELSE Written(r, c)
      BY DEF Written, rest
    <2>5. {b \in rest : Continues(b, r.write_index, c)} = {}
      BY <2>2, <2>3
    <2> QED
      BY <2>2, <2>4, <2>5 DEF new
  <1>6. CASE s = r
    BY <1>6
  <1>7. CASE /\ can_push(r, c.length)
             /\ s.blocks = Written(r, c)
             /\ s.write_index = r.write_index + c.length
    <2>1. /\ s.maxlength = r.maxlength /\ s.prebuf = r.prebuf
          /\ s.silence = r.silence
      BY <1>3 DEF SameAttributes
    <2>2. r.write_index + l - r.read_index <= r.maxlength
      BY <1>1, <1>4, <1>7
    <2>3. s.blocks = r.blocks \cup {new} /\ s.write_index = r.write_index + l
      BY <1>1, <1>5, <1>7
    <2>4. s.write_index \in Nat /\ s.read_index <= s.write_index
      BY <1>3, <2>3 DEF QueueOK
    <2>5. \A b \in s.blocks : ItemOK(b) /\ End(b) <= s.write_index
      <3> TAKE b \in s.blocks
      <3>1. CASE b \in r.blocks
        <4>1. ItemOK(b) /\ End(b) <= r.write_index /\ r.write_index \in Nat
          BY <3>1 DEF QueueOK
        <4>2. End(b) \in Nat
          BY <4>1, ItemFacts
        <4> QED
          BY <2>3, <4>1, <4>2
      <3>2. CASE b = new
        BY <1>2, <2>3, <2>4, <3>2
      <3> QED
        BY <2>3, <3>1, <3>2
    <2>6. QueueOK(s)
      <3>1. /\ r.silence = Silence /\ r.maxlength \in Int /\ r.maxrewind \in Int
            /\ r.prebuf \in Nat \ {0} /\ r.read_index \in Nat
        BY DEF QueueOK
      <3> QED
        BY <1>3, <2>1, <2>4, <2>5, <3>1 DEF QueueOK
    <2>7. s.write_index - s.read_index <= s.maxlength
      <3>1. /\ s.read_index = r.read_index /\ s.maxlength = r.maxlength
            /\ s.write_index = r.write_index + l
        BY <1>3, <2>1, <2>3
      <3>2. /\ r.read_index \in Nat /\ r.write_index \in Nat
            /\ r.maxlength \in Int
        BY DEF QueueOK
      <3> QED
        BY <2>2, <3>1, <3>2
    <2> QED
      BY <1>3, <2>1, <2>3, <2>6, <2>7 DEF new, c
  <1> QED
    BY <1>3, <1>6, <1>7

\* Items do not overlap.
Apart(r) == \A b, c \in r.blocks : b.index < c.index => End(b) <= c.index

\* Nothing or some parts of the packet at p were appended to q.
Appended(q, r, p) ==
    /\ QueueOK(r)
    /\ r.read_index = q.read_index /\ r.maxlength = q.maxlength
    /\ q.write_index <= r.write_index
    /\ q.write_index < r.write_index =>
          r.write_index - r.read_index <= r.maxlength
    /\ \A b \in r.blocks :
          b \in q.blocks \/ (b.chunk.blk = p /\ q.write_index <= b.index)
    /\ Apart(q) => Apart(r)

LEMMA AppendedNothing ==
    ASSUME NEW q, QueueOK(q), NEW p
    PROVE  Appended(q, q, p)
  BY DEF Appended, QueueOK

\* One more push.
LEMMA AppendedMore ==
    ASSUME NEW q, QueueOK(q), NEW p \in Nat, NEW r, Appended(q, r, p),
           NEW l \in Nat \ {0}, NEW s, s = pa_memblockq_push(r, Part(p, l))
    PROVE  /\ Appended(q, s, p)
           /\ s.write_index = r.write_index \/ s.write_index = r.write_index + l
  <1> DEFINE new == Item(r.write_index, Part(p, l))
  <1>1. QueueOK(r)
    BY DEF Appended
  <1>2. /\ QueueOK(s)
        /\ s.read_index = r.read_index /\ s.maxlength = r.maxlength
        /\ \/ s = r
           \/ /\ s.write_index = r.write_index + l
              /\ s.write_index - s.read_index <= s.maxlength
              /\ s.blocks = r.blocks \cup {new}
    BY <1>1, AppendFacts
  <1>3. /\ new.index = r.write_index /\ new.chunk.blk = p
    BY DEF Item, Part
  <1> HIDE DEF new
  <1>4. CASE s = r
    BY <1>4
  <1>5. CASE /\ s.write_index = r.write_index + l
             /\ s.write_index - s.read_index <= s.maxlength
             /\ s.blocks = r.blocks \cup {new}
    <2>1. /\ q.write_index \in Nat /\ r.write_index \in Nat
          /\ q.write_index <= r.write_index
          /\ r.read_index = q.read_index /\ r.maxlength = q.maxlength
      BY <1>1 DEF Appended, QueueOK
    <2>2. \A b \in s.blocks :
             b \in q.blocks \/ (b.chunk.blk = p /\ q.write_index <= b.index)
      BY <1>3, <1>5, <2>1 DEF Appended
    <2>3. ASSUME Apart(q) PROVE Apart(s)
      <3>1. ASSUME NEW b \in r.blocks
            PROVE  b.index < r.write_index /\ End(b) <= r.write_index
                   /\ b.index \in Nat
        <4>1. ItemOK(b) /\ End(b) <= r.write_index
          BY <1>1 DEF QueueOK
        <4>2. b.index \in Nat /\ End(b) \in Nat /\ b.index < End(b)
          BY <4>1, ItemFacts
        <4> QED
          BY <2>1, <4>1, <4>2
      <3> SUFFICES ASSUME NEW b \in s.blocks, NEW c \in s.blocks,
                          b.index < c.index
                   PROVE  End(b) <= c.index
        BY DEF Apart
      <3>2. CASE b \in r.blocks /\ c \in r.blocks
        BY <2>3, <3>2 DEF Appended, Apart
      <3>3. CASE c = new
        BY <1>3, <1>5, <2>1, <3>1, <3>3
      <3>4. CASE b = new /\ c \in r.blocks
        BY <1>3, <2>1, <3>1, <3>4
      <3> QED
        BY <1>5, <3>2, <3>3, <3>4
    <2>4. q.write_index <= s.write_index
      BY <1>5, <2>1
    <2> QED
      BY <1>2, <1>5, <2>1, <2>2, <2>3, <2>4 DEF Appended
  <1> QED
    BY <1>2, <1>4, <1>5

\* The pushes that fill a gap, one after the other.
IsFill(g, q, missing, f, n) ==
    g = [i \in 0 .. n |->
            IF i = 0 THEN q
            ELSE pa_memblockq_push(g[i - 1],
                                   Payload(f, FillerLength(missing, f, i)))]

LEMMA FillExists ==
    ASSUME NEW q, NEW missing, NEW f, NEW n \in Nat
    PROVE  \E g : IsFill(g, q, missing, f, n)
  <1> SUFFICES ASSUME ~ \E g : IsFill(g, q, missing, f, n) PROVE FALSE
    OBVIOUS
  <1> DEFINE T == {m \in Nat : ~ \E g : IsFill(g, q, missing, f, m)}
  <1>1. T \in SUBSET Nat /\ T # {}
    OBVIOUS
  <1> HIDE DEF T
  <1>2. PICK m \in T : \A y \in T : m <= y
    BY <1>1, LeastNatural
  <1>3. m \in Nat /\ ~ \E g : IsFill(g, q, missing, f, m)
    BY <1>2 DEF T
  <1>4. m # 0
    <2> SUFFICES ASSUME m = 0 PROVE FALSE
      OBVIOUS
    <2> DEFINE g == [i \in 0 .. 0 |-> q]
    <2>1. IsFill(g, q, missing, f, 0)
      BY DEF IsFill
    <2> QED
      BY <1>3, <2>1
  <1>5. m - 1 \in Nat /\ m - 1 \notin T
    BY <1>2, <1>3, <1>4
  <1>6. PICK h : IsFill(h, q, missing, f, m - 1)
    BY <1>5 DEF T
  <1> DEFINE H(x, i) ==
                pa_memblockq_push(x, Payload(f, FillerLength(missing, f, i)))
             g == [i \in 0 .. m |-> IF i = m THEN H(h[m - 1], m) ELSE h[i]]
  <1>7. h = [i \in 0 .. m - 1 |-> IF i = 0 THEN q ELSE H(h[i - 1], i)]
    BY <1>6 DEF IsFill
  <1>8. IsFill(g, q, missing, f, m) <=>
           g = [i \in 0 .. m |-> IF i = 0 THEN q ELSE H(g[i - 1], i)]
    BY DEF IsFill
  <1> HIDE DEF H
  <1>9. g = [i \in 0 .. m |-> IF i = 0 THEN q ELSE H(g[i - 1], i)]
    BY <1>3, <1>4, <1>7
  <1> QED
    BY <1>3, <1>8, <1>9

LEMMA FillIs ==
    ASSUME NEW q, NEW missing, NEW f,
           (missing + f.length - 1) \div f.length \in Nat
    PROVE  LET n == (missing + f.length - 1) \div f.length
           IN \E g : IsFill(g, q, missing, f, n) /\ FillGap(q, missing, f) = g[n]
  <1> DEFINE n == (missing + f.length - 1) \div f.length
             fill == CHOOSE g : g = [i \in 0 .. n |->
                IF i = 0 THEN q
                ELSE pa_memblockq_push(g[i - 1],
                                       Payload(f, FillerLength(missing, f, i)))]
  <1>1. FillGap(q, missing, f) = fill[n]
    BY DEF FillGap
  <1> HIDE DEF n
  <1>2. n \in Nat
    BY DEF n
  <1>3. IsFill(fill, q, missing, f, n)
    BY <1>2, FillExists DEF IsFill
  <1> QED
    BY <1>1, <1>3 DEF n

\* However large the gap, filling it only appends, and at most its length.
LEMMA FillFacts ==
    ASSUME NEW q, QueueOK(q), NEW missing \in Nat, NEW f \in Frame,
           f.length >= 1, NEW r, r = FillGap(q, missing, f)
    PROVE  Appended(q, r, f.pos) /\ r.write_index <= q.write_index + missing
  <1> DEFINE len == f.length
             n == (missing + len - 1) \div len
  <1>1. len \in Nat \ {0} /\ f.pos \in Nat /\ q.write_index \in Nat
    BY FrameFacts DEF QueueOK
  <1>2. n \in Nat /\ len * n <= missing + len - 1
    <2> HIDE DEF len
    <2>1. missing + len - 1 \in Nat
      BY <1>1
    <2> QED
      BY <1>1, <2>1, DivBounds
  <1>3. PICK g : IsFill(g, q, missing, f, n) /\ r = g[n]
    BY <1>2, FillIs
  <1> HIDE DEF n
  <1>4. /\ g[0] = q
        /\ \A i \in 1 .. n : g[i] = pa_memblockq_push(g[i - 1],
                                Payload(f, FillerLength(missing, f, i)))
    BY <1>2, <1>3 DEF IsFill
  <1> DEFINE Good(i) == /\ Appended(q, g[i], f.pos)
                        /\ g[i].write_index <= q.write_index + i * len
                        /\ g[i].write_index <= q.write_index + missing
             T == {i \in Nat : i <= n /\ ~Good(i)}
  <1>5. ASSUME NEW i \in Nat, i + 1 <= n, Good(i)
        PROVE  Good(i + 1)
    <2> DEFINE k == i * len
               l == FillerLength(missing, f, i + 1)
    <2>1. k \in Nat /\ (i + 1) * len = k + len
      <3> HIDE DEF len
      <3>1. len \in Nat
        BY <1>1
      <3> QED
        BY <3>1
    <2>2. k < missing
      <3>1. (i + 1) * len <= n * len
        BY <1>1, <1>2, <1>5
      <3>2. n * len = len * n /\ len * n \in Nat
        BY <1>1, <1>2
      <3> HIDE DEF k
      <3> QED
        BY <1>1, <1>2, <2>1, <3>1, <3>2
    <2>3. l = IF missing - k > len THEN len ELSE missing - k
      <3>1. (i + 1) - 1 = i
        OBVIOUS
      <3> QED
        BY <3>1 DEF FillerLength, AtMost
    <2> HIDE DEF k, l
    <2>4. l \in Nat \ {0} /\ k + l <= missing /\ l <= len
      BY <1>1, <2>1, <2>2, <2>3
    <2>5. g[i + 1] = pa_memblockq_push(g[i], Part(f.pos, l))
      <3>1. i + 1 \in 1 .. n /\ (i + 1) - 1 = i
        BY <1>2, <1>5
      <3>2. Payload(f, FillerLength(missing, f, i + 1)) = Part(f.pos, l)
        BY DEF Payload, Part, l
      <3> QED
        BY <1>4, <3>1, <3>2
    <2>6. /\ Appended(q, g[i + 1], f.pos)
          /\ \/ g[i + 1].write_index = g[i].write_index
             \/ g[i + 1].write_index = g[i].write_index + l
      <3>1. \A a, b, p : /\ p \in Nat /\ Appended(q, a, p)
                         /\ b = pa_memblockq_push(a, Part(p, l))
                         => /\ Appended(q, b, p)
                            /\ \/ b.write_index = a.write_index
                               \/ b.write_index = a.write_index + l
        BY <2>4, AppendedMore
      <3> QED
        BY <1>1, <1>5, <2>5, <3>1
    <2>7. /\ g[i].write_index \in Nat
          /\ g[i].write_index <= q.write_index + k
          /\ g[i].write_index <= q.write_index + missing
      BY <1>5 DEF Appended, QueueOK, k
    <2>8. /\ g[i + 1].write_index <= q.write_index + (k + len)
          /\ g[i + 1].write_index <= q.write_index + missing
      <3> HIDE DEF Good, len
      <3>1. CASE g[i + 1].write_index = g[i].write_index
        BY <1>1, <2>1, <2>7, <3>1
      <3>2. CASE g[i + 1].write_index = g[i].write_index + l
        BY <1>1, <2>1, <2>4, <2>7, <3>2
      <3> QED
        BY <2>6, <3>1, <3>2
    <2> QED
      BY <2>1, <2>6, <2>8
  <1>6. Good(0)
    <2>1. Appended(q, q, f.pos)
      BY AppendedNothing
    <2> QED
      BY <1>1, <1>4, <2>1
  <1> HIDE DEF Good
  <1>7. Good(n)
    <2> SUFFICES ASSUME ~Good(n) PROVE FALSE
      OBVIOUS
    <2>1. T \in SUBSET Nat /\ T # {}
      BY <1>2
    <2> HIDE DEF T
    <2>2. PICK m \in T : \A y \in T : m <= y
      BY <2>1, LeastNatural
    <2>3. m \in Nat /\ m <= n /\ ~Good(m)
      BY DEF T
    <2>4. m # 0
      BY <1>6, <2>3
    <2>5. m - 1 \in Nat /\ m - 1 <= n /\ m - 1 \notin T /\ (m - 1) + 1 = m
      BY <1>2, <2>2, <2>3, <2>4
    <2>6. Good(m - 1)
      BY <2>5 DEF T
    <2>7. Good((m - 1) + 1)
      BY <1>5, <2>3, <2>5, <2>6
    <2> QED
      BY <2>3, <2>5, <2>7
  <1> QED
    BY <1>3, <1>7 DEF Good

\* What rtpoll_work_cb appends when it accepts packet f.
LEMMA AcceptFacts ==
    ASSUME NEW q, QueueOK(q), NEW missing \in Nat, NEW f \in Frame,
           f.length >= 1, NEW s,
           s = pa_memblockq_push(FillGap(q, missing, f), Payload(f, f.length))
    PROVE  /\ Appended(q, s, f.pos)
           /\ s.write_index <= q.write_index + missing + f.length
  <1> DEFINE r == FillGap(q, missing, f)
  <1>1. f.length \in Nat \ {0} /\ f.pos \in Nat /\ q.write_index \in Nat
    BY FrameFacts DEF QueueOK
  <1>2. Appended(q, r, f.pos) /\ r.write_index <= q.write_index + missing
    BY FillFacts
  <1>3. s = pa_memblockq_push(r, Part(f.pos, f.length))
    BY DEF Payload, Part
  <1> HIDE DEF r
  <1>4. /\ Appended(q, s, f.pos)
        /\ \/ s.write_index = r.write_index
           \/ s.write_index = r.write_index + f.length
    BY <1>1, <1>2, <1>3, AppendedMore
  <1>5. r.write_index \in Nat
    BY <1>2 DEF Appended, QueueOK
  <1> QED
    BY <1>1, <1>2, <1>4, <1>5

\* Reading: the read index moves, and items may be forgotten.
Consumed(r, s) ==
    /\ QueueOK(s) /\ s.write_index = r.write_index
    /\ s.maxlength = r.maxlength /\ s.blocks \subseteq r.blocks

LEMMA ConsumedIs ==
    ASSUME NEW r, QueueOK(r), NEW s, Shape(s), SameAttributes(r, s),
           s.maxrewind = r.maxrewind, s.blocks \subseteq r.blocks,
           s.write_index = r.write_index, s.read_index \in Nat,
           s.read_index <= s.write_index
    PROVE  Consumed(r, s)
  <1>1. /\ r.silence = Silence /\ r.maxlength \in Int /\ r.maxrewind \in Int
        /\ r.prebuf \in Nat \ {0} /\ r.write_index \in Nat
        /\ \A b \in r.blocks : ItemOK(b) /\ End(b) <= r.write_index
    BY DEF QueueOK
  <1>2. /\ s.silence = r.silence /\ s.maxlength = r.maxlength
        /\ s.prebuf = r.prebuf
    BY DEF SameAttributes
  <1>3. \A b \in s.blocks : ItemOK(b) /\ End(b) <= s.write_index
    BY <1>1
  <1>4. QueueOK(s)
    BY <1>1, <1>2, <1>3 DEF QueueOK
  <1> QED
    BY <1>2, <1>4 DEF Consumed

\* update_prebuf
LEMMA PrebufUpdated ==
    ASSUME NEW r, QueueOK(r), NEW s, s = update_prebuf(r)
    PROVE  /\ Shape(s) /\ SameAttributes(r, s) /\ s.maxrewind = r.maxrewind
           /\ s.blocks = r.blocks /\ s.read_index = r.read_index
           /\ s.write_index = r.write_index
           /\ s.in_prebuf = pa_memblockq_prebuf_active(r)
           /\ Consumed(r, s)
  <1> DEFINE v == pa_memblockq_prebuf_active(r)
  <1>1. Shape(r) /\ s = [r EXCEPT !.in_prebuf = v]
    BY DEF QueueOK, update_prebuf
  <1> HIDE DEF v
  <1>2. Shape(s) /\ SameAttributes(r, s) /\ KeepsItems(r, s)
    BY <1>1, SetPassive
  <1>3. /\ s.read_index = r.read_index /\ s.write_index = r.write_index
        /\ s.in_prebuf = v
    BY <1>1 DEF Shape
  <1>4. s.maxrewind = r.maxrewind /\ s.blocks = r.blocks
    BY <1>2 DEF KeepsItems
  <1>5. r.read_index \in Nat /\ r.read_index <= r.write_index
    BY DEF QueueOK
  <1>6. Consumed(r, s)
    BY <1>2, <1>3, <1>4, <1>5, ConsumedIs
  <1> QED
    BY <1>2, <1>3, <1>4, <1>6 DEF v

\* A queue that need not prebuffer has something to read, and a peek returns
\* no more than that.
LEMMA PeekFacts ==
    ASSUME NEW r, QueueOK(r), ~pa_memblockq_prebuf_active(r)
    PROVE  /\ r.read_index < r.write_index
           /\ PeekChunk(r).length \in Nat
           /\ PeekChunk(r).length <= r.write_index - r.read_index
  <1>1. /\ r.read_index \in Nat /\ r.write_index \in Nat
        /\ r.read_index <= r.write_index /\ r.prebuf \in Nat /\ r.prebuf > 0
        /\ r.silence = Silence
        /\ \A b \in r.blocks : ItemOK(b) /\ End(b) <= r.write_index
    BY DEF QueueOK
  <1>2. r.read_index < r.write_index
    BY <1>1 DEF pa_memblockq_prebuf_active, pa_memblockq_get_length
  <1>3. ASSUME NEW gap \in Nat, gap > 0, gap <= r.write_index - r.read_index,
               NEW c, c = [r.silence EXCEPT !.index = 0,
                     !.length = IF gap > 0 THEN AtMost(r.silence.length, gap)
                                           ELSE r.silence.length]
        PROVE  c.length \in Nat /\ c.length <= r.write_index - r.read_index
    <2>1. c.length = AtMost(SilenceLength, gap)
      <3>1. r.silence = [blk |-> -2, index |-> 0, length |-> SilenceLength]
        BY <1>1 DEF Silence
      <3>2. \A k : [r.silence EXCEPT !.index = 0, !.length = k].length = k
        BY <3>1
      <3>3. r.silence.length = SilenceLength
        BY <3>1
      <3> QED
        BY <1>3, <3>2, <3>3
    <2>2. SilenceLength \in Nat \ {0}
      BY InputAssumption
    <2> QED
      BY <1>1, <1>3, <2>1, <2>2 DEF AtMost
  <1>4. r.silence # NullChunk
    <2>1. r.silence.blk = -2 /\ NullChunk.blk = -1
      BY <1>1 DEF Silence, NullChunk, NoBlock
    <2> QED
      BY <2>1
  <1>5. CASE Unread(r) = {}
    <2> DEFINE gap == pa_memblockq_get_length(r)
    <2>1. gap = r.write_index - r.read_index /\ gap \in Nat /\ gap > 0
      <3>1. r.read_index \in Nat /\ r.write_index \in Nat
        BY <1>1
      <3>2. gap = r.write_index - r.read_index
        BY <1>2, <3>1 DEF pa_memblockq_get_length
      <3> QED
        BY <1>2, <3>1, <3>2
    <2>2. PeekChunk(r) = [r.silence EXCEPT !.index = 0,
                     !.length = IF gap > 0 THEN AtMost(r.silence.length, gap)
                                           ELSE r.silence.length]
      BY <1>4, <1>5 DEF PeekChunk
    <2>3. gap \in Nat /\ gap > 0 /\ gap <= r.write_index - r.read_index
      BY <1>1, <2>1
    <2> HIDE DEF gap
    <2> QED
      BY <1>2, <1>3, <2>2, <2>3
  <1>6. CASE Unread(r) # {}
    <2> DEFINE b == current_read(r)
    <2>1. b \in Unread(r)
      <3> DEFINE I == {c.index : c \in Unread(r)}
      <3>1. I \in SUBSET Nat /\ I # {}
        BY <1>1, <1>6, ItemFacts DEF Unread
      <3>2. \A c \in Unread(r) : c.index \in I
        OBVIOUS
      <3>3. \A i \in I : \E c \in Unread(r) : i = c.index
        OBVIOUS
      <3> HIDE DEF I
      <3>4. PICK i \in I : \A j \in I : i <= j
        BY <3>1, LeastNatural
      <3>5. PICK c \in Unread(r) : i = c.index
        BY <3>3
      <3>6. \A d \in Unread(r) : c.index <= d.index
        BY <3>2, <3>4, <3>5
      <3> QED
        BY <3>6 DEF current_read
    <2> HIDE DEF b
    <2>2. ItemOK(b) /\ End(b) <= r.write_index /\ End(b) > r.read_index
      BY <1>1, <2>1 DEF Unread
    <2>3. /\ b.index \in Nat /\ b.chunk.length \in Nat /\ End(b) \in Nat
          /\ b.index < End(b) /\ End(b) = b.index + b.chunk.length
          /\ b.chunk = [blk |-> b.chunk.blk, index |-> 0,
                        length |-> b.chunk.length]
      BY <2>2, ItemFacts DEF End
    <2>4. CASE b.index <= r.read_index
      <3> DEFINE d == r.read_index - b.index
                 i == b.chunk.index + d
                 k == b.chunk.length - d
      <3>1. PeekChunk(r) = [b.chunk EXCEPT !.index = i, !.length = k]
        BY <1>6, <2>4 DEF PeekChunk, b
      <3>2. k \in Nat /\ k <= r.write_index - r.read_index
        BY <1>1, <2>2, <2>3, <2>4
      <3> HIDE DEF i, k
      <3>3. PICK c : c = b.chunk
        OBVIOUS
      <3>4. PeekChunk(r).length = k
        BY <2>3, <3>1, <3>3
      <3> QED
        BY <1>2, <3>2, <3>4
    <2>5. CASE ~(b.index <= r.read_index)
      <3> DEFINE gap == b.index - r.read_index
      <3>1. gap \in Nat /\ gap > 0 /\ gap <= r.write_index - r.read_index
        BY <1>1, <2>2, <2>3, <2>5
      <3>2. PeekChunk(r) = [r.silence EXCEPT !.index = 0,
                     !.length = IF gap > 0 THEN AtMost(r.silence.length, gap)
                                           ELSE r.silence.length]
        BY <1>4, <1>6, <2>5 DEF PeekChunk, b
      <3> HIDE DEF gap
      <3> QED
        BY <1>1, <1>2, <1>3, <3>1, <3>2
    <2> QED
      BY <2>4, <2>5
  <1> QED
    BY <1>5, <1>6

\* sink_input_pop_cb
LEMMA PopConsumes ==
    ASSUME NEW r, QueueOK(r), NEW s,
           s = IF pa_memblockq_peek(r).length = 0 THEN update_prebuf(r)
               ELSE pa_memblockq_drop(update_prebuf(r),
                                      pa_memblockq_peek(r).length)
    PROVE  Consumed(r, s)
  <1> DEFINE u == update_prebuf(r)
             l == pa_memblockq_peek(r).length
  <1>1. /\ Shape(u) /\ SameAttributes(r, u) /\ u.maxrewind = r.maxrewind
        /\ u.blocks = r.blocks /\ u.read_index = r.read_index
        /\ u.write_index = r.write_index
        /\ u.in_prebuf = pa_memblockq_prebuf_active(r)
        /\ Consumed(r, u)
    BY PrebufUpdated
  <1>2. QueueOK(u)
    BY <1>1 DEF Consumed
  <1>3. CASE l = 0
    BY <1>1, <1>3
  <1>4. CASE l # 0
    <2>1. ~pa_memblockq_prebuf_active(r)
      BY <1>4 DEF pa_memblockq_peek, NullChunk
    <2>2. /\ r.read_index < r.write_index
          /\ l \in Nat /\ l <= r.write_index - r.read_index
      BY <2>1, PeekFacts DEF pa_memblockq_peek
    <2> HIDE DEF u, l
    <2>3. /\ r.read_index \in Nat /\ r.write_index \in Nat
      BY DEF QueueOK
    <2> DEFINE v == update_prebuf(u)
    <2>4. /\ Shape(v) /\ SameAttributes(u, v) /\ v.maxrewind = u.maxrewind
          /\ v.blocks = u.blocks /\ v.read_index = u.read_index
          /\ v.write_index = u.write_index
          /\ v.in_prebuf = pa_memblockq_prebuf_active(u)
      BY <1>2, PrebufUpdated
    <2>5. ~pa_memblockq_prebuf_active(u)
      <3>1. ~u.in_prebuf
        BY <1>1, <2>1
      <3>2. ~(u.read_index >= u.write_index)
        BY <1>1, <2>2, <2>3
      <3> QED
        BY <3>1, <3>2 DEF pa_memblockq_prebuf_active
    <2>6. DropStops(v, l) = {}
      <3>1. \A b \in v.blocks : End(b) \in Nat
        <4>1. \A b \in r.blocks : ItemOK(b)
          BY DEF QueueOK
        <4> QED
          BY <1>1, <2>4, <4>1, ItemFacts
      <3>2. v.read_index = r.read_index /\ v.write_index = r.write_index
        BY <1>1, <2>4
      <3> QED
        BY <2>2, <2>3, <3>1, <3>2 DEF DropStops
    <2> DEFINE w == [v EXCEPT !.read_index = v.read_index + l]
               x == drop_backlog(w)
    <2>7. s = read_index_changed(x, u.read_index)
      <3>1. s = pa_memblockq_drop(u, l)
        BY <1>4 DEF u, l
      <3>2. l > 0
        BY <1>4, <2>2
      <3>3. ~v.in_prebuf
        BY <2>4, <2>5
      <3>4. pa_memblockq_drop(u, l) =
              read_index_changed(drop_backlog(
                 IF l = 0 \/ v.in_prebuf THEN v
                 ELSE IF DropStops(v, l) = {} THEN w
                 ELSE [v EXCEPT !.read_index = FirstStop(v, l),
                                !.in_prebuf = TRUE]), u.read_index)
        BY <3>2 DEF pa_memblockq_drop
      <3> HIDE DEF v, w
      <3> QED
        BY <1>4, <2>6, <3>1, <3>3, <3>4
    <2> HIDE DEF v
    <2>8. /\ Shape(w) /\ SameAttributes(v, w) /\ KeepsItems(v, w)
          /\ w.read_index = v.read_index + l /\ w.write_index = v.write_index
      <3>1. Shape(w) /\ SameAttributes(v, w) /\ KeepsItems(v, w)
        BY <2>4, SetPassive
      <3>2. w.read_index = v.read_index + l /\ w.write_index = v.write_index
        BY <2>4 DEF Shape
      <3> QED
        BY <3>1, <3>2
    <2> HIDE DEF w
    <2>9. /\ Shape(x) /\ SameAttributes(w, x) /\ x.maxrewind = w.maxrewind
          /\ x.read_index = w.read_index /\ x.write_index = w.write_index
          /\ x.blocks \subseteq w.blocks
      BY <2>8, BacklogPassive
    <2> HIDE DEF x
    <2>10. /\ Shape(s) /\ SameAttributes(x, s) /\ KeepsItems(x, s)
           /\ s.read_index = x.read_index /\ s.write_index = x.write_index
      BY <2>7, <2>9, ChangedPassive
    <2>11. SameAttributes(r, s)
      BY <1>1, <2>4, <2>8, <2>9, <2>10, PassiveChain
    <2>12. s.maxrewind = r.maxrewind /\ s.blocks \subseteq r.blocks
      BY <1>1, <2>4, <2>8, <2>9, <2>10 DEF KeepsItems
    <2>13. s.read_index = r.read_index + l /\ s.write_index = r.write_index
      BY <1>1, <2>4, <2>8, <2>9, <2>10
    <2>14. s.read_index \in Nat /\ s.read_index <= s.write_index
      BY <2>2, <2>3, <2>13
    <2> QED
      BY <2>10, <2>11, <2>12, <2>13, <2>14, ConsumedIs
  <1> QED
    BY <1>3, <1>4

\* sink_input_process_rewind_cb
LEMMA RewindConsumes ==
    ASSUME NEW r, QueueOK(r), NEW n \in Nat, n <= r.read_index, NEW s,
           s = pa_memblockq_rewind(r, n)
    PROVE  Consumed(r, s)
  <1> DEFINE v == r.read_index - n
             u == [r EXCEPT !.read_index = v]
  <1>1. s = read_index_changed(u, r.read_index)
    BY DEF pa_memblockq_rewind
  <1>2. /\ r.read_index \in Nat /\ r.write_index \in Nat /\ Shape(r)
        /\ r.read_index <= r.write_index
    BY DEF QueueOK
  <1>3. v \in Nat /\ v <= r.write_index
    BY <1>2
  <1> HIDE DEF v
  <1>4. /\ Shape(u) /\ SameAttributes(r, u) /\ KeepsItems(r, u)
    BY <1>2, SetPassive
  <1>5. u.read_index = v /\ u.write_index = r.write_index
    BY <1>2 DEF Shape
  <1> HIDE DEF u
  <1>6. /\ Shape(s) /\ SameAttributes(u, s) /\ KeepsItems(u, s)
        /\ s.read_index = u.read_index /\ s.write_index = u.write_index
    BY <1>1, <1>4, ChangedPassive
  <1>7. SameAttributes(r, s)
    BY <1>4, <1>6, PassiveChain
  <1>8. /\ s.maxrewind = r.maxrewind /\ s.blocks = r.blocks
    BY <1>4, <1>6 DEF KeepsItems
  <1> QED
    BY <1>3, <1>5, <1>6, <1>7, <1>8, ConsumedIs

\* The attributes pa_memblockq_new sets one after the other.
Fresh(r, maxlength, tlength, prebuf, minreq) ==
    /\ Shape(r) /\ r.blocks = {} /\ r.read_index = 0 /\ r.write_index = 0
    /\ r.base = 1 /\ r.maxrewind = 0 /\ r.silence = Silence
    /\ r.maxlength = maxlength /\ r.tlength = tlength
    /\ r.prebuf = prebuf /\ r.minreq = minreq

LEMMA FreshSet ==
    ASSUME NEW m, NEW t, NEW p, NEW i, NEW v, NEW q,
           Fresh(q, m, t, p, i), NEW z
    PROVE  /\ z = [q EXCEPT !.maxlength = v] => Fresh(z, v, t, p, i)
           /\ z = [q EXCEPT !.tlength = v] => Fresh(z, m, v, p, i)
           /\ z = [q EXCEPT !.missing = v] => Fresh(z, m, t, p, i)
           /\ z = [q EXCEPT !.maxrewind = 0] => Fresh(z, m, t, p, i)
  <1> USE DEF Fresh, Shape
  <1>1. z = [q EXCEPT !.maxlength = v] => Fresh(z, v, t, p, i)
    OBVIOUS
  <1>2. z = [q EXCEPT !.tlength = v] => Fresh(z, m, v, p, i)
    OBVIOUS
  <1>3. z = [q EXCEPT !.missing = v] => Fresh(z, m, t, p, i)
    OBVIOUS
  <1>4. z = [q EXCEPT !.maxrewind = 0] => Fresh(z, m, t, p, i)
    OBVIOUS
  <1> HIDE DEF Fresh, Shape
  <1> QED
    BY <1>1, <1>2, <1>3, <1>4

LEMMA NewQueue ==
    ASSUME NEW q,
           q = pa_memblockq_new(0, QueueMax, QueuePrebuf, 1, QueuePrebuf, 0, 0,
                                Silence)
    PROVE  Fresh(q, QueueMax, QueuePrebuf, QueuePrebuf, 1)
  <1> DEFINE q0 == [blocks |-> {}, read_index |-> 0, write_index |-> 0,
                    in_prebuf |-> TRUE, base |-> 1, maxlength |-> 0,
                    tlength |-> 0, prebuf |-> 0, minreq |-> 0,
                    maxrewind |-> 0, missing |-> 0, requested |-> 0,
                    silence |-> Silence]
             q1 == pa_memblockq_set_maxlength(q0, QueueMax)
             q2 == pa_memblockq_set_tlength(q1, QueuePrebuf)
             q3 == pa_memblockq_set_minreq(q2, 0)
             q4 == pa_memblockq_set_prebuf(q3, QueuePrebuf)
  <1>0. /\ QueueMax \in Nat /\ QueuePrebuf \in Nat /\ QueuePrebuf >= 1
        /\ QueuePrebuf <= QueueMax
    BY InputAssumption
  <1>1. ASSUME NEW r, r.base = 1, NEW x \in Nat
        PROVE  RoundUp(r, x) = x /\ RoundDown(r, x) = x
    BY <1>1 DEF RoundUp, RoundDown
  <1>2. q = pa_memblockq_set_maxrewind(q4, 0)
    BY DEF pa_memblockq_new
  <1>3. Fresh(q0, 0, 0, 0, 0)
    BY DEF Fresh, Shape
  <1> HIDE DEF q0
  <1>4. Fresh(q1, QueueMax, 0, 0, 0)
    <2> DEFINE z == [q0 EXCEPT !.maxlength = QueueMax]
    <2>1. q0.base = 1 /\ q0.tlength = 0
      BY <1>3 DEF Fresh
    <2>2. AtLeast(RoundUp(q0, QueueMax), q0.base) = QueueMax
      BY <1>0, <1>1, <2>1 DEF AtLeast
    <2>3. Fresh(z, QueueMax, 0, 0, 0)
      BY <1>3, FreshSet
    <2>4. q1 = IF z.tlength > QueueMax
               THEN pa_memblockq_set_tlength(z, QueueMax) ELSE z
      BY <2>2 DEF pa_memblockq_set_maxlength
    <2> HIDE DEF z, q1
    <2>5. z.tlength = 0
      BY <2>3 DEF Fresh
    <2> QED
      BY <1>0, <2>3, <2>4, <2>5
  <1> HIDE DEF q1
  <1>5. Fresh(q2, QueueMax, QueuePrebuf, 0, 0)
    <2> DEFINE z == [q1 EXCEPT !.tlength = QueuePrebuf]
               y == IF z.minreq > QueuePrebuf
                    THEN pa_memblockq_set_minreq(z, QueuePrebuf) ELSE z
               x == ClampPrebuf(y)
               v == x.missing + QueuePrebuf - q1.tlength
    <2>1. q1.base = 1 /\ q1.maxlength = QueueMax
      BY <1>4 DEF Fresh
    <2>2. AtMost(RoundUp(q1, IF QueuePrebuf <= 0 THEN q1.maxlength
                                                 ELSE QueuePrebuf),
                 q1.maxlength) = QueuePrebuf
      BY <1>0, <1>1, <2>1 DEF AtMost
    <2>3. Fresh(z, QueueMax, QueuePrebuf, 0, 0)
      BY <1>4, FreshSet
    <2>4. q2 = [x EXCEPT !.missing = v]
      BY <2>2 DEF pa_memblockq_set_tlength
    <2> HIDE DEF z, v, q2
    <2>5. /\ z.minreq = 0 /\ z.prebuf = 0 /\ z.tlength = QueuePrebuf
          /\ z.base = 1
      BY <2>3 DEF Fresh
    <2>6. y = z
      BY <1>0, <2>5
    <2>7. x = z
      BY <1>0, <2>5, <2>6 DEF ClampPrebuf, PrebufMax
    <2> HIDE DEF x
    <2> QED
      BY <2>3, <2>4, <2>7, FreshSet
  <1> HIDE DEF q2
  <1>6. Fresh(q3, QueueMax, QueuePrebuf, 0, 1)
    <2> DEFINE z == [q2 EXCEPT !.minreq = 1]
    <2>1. q2.base = 1 /\ q2.tlength = QueuePrebuf
      BY <1>5 DEF Fresh
    <2>2. AtLeast(AtMost(RoundDown(q2, 0), q2.tlength), q2.base) = 1
      BY <1>0, <1>1, <2>1 DEF AtMost, AtLeast
    <2>3. Fresh(z, QueueMax, QueuePrebuf, 0, 1)
      BY <1>5 DEF Fresh, Shape
    <2>4. q3 = ClampPrebuf(z)
      BY <2>2 DEF pa_memblockq_set_minreq
    <2> HIDE DEF z, q3
    <2>5. /\ z.minreq = 1 /\ z.prebuf = 0 /\ z.tlength = QueuePrebuf
          /\ z.base = 1
      BY <2>3 DEF Fresh
    <2>6. q3 = z
      BY <1>0, <2>4, <2>5 DEF ClampPrebuf, PrebufMax
    <2> QED
      BY <2>3, <2>6
  <1> HIDE DEF q3
  <1>7. Fresh(q4, QueueMax, QueuePrebuf, QueuePrebuf, 1)
    <2> DEFINE b == /\ q3.in_prebuf /\ QueuePrebuf > 0
                    /\ pa_memblockq_get_length(q3) < QueuePrebuf
    <2>1. /\ q3.base = 1 /\ q3.tlength = QueuePrebuf /\ q3.minreq = 1
      BY <1>6 DEF Fresh
    <2>2. AtMost(RoundUp(q3, IF QueuePrebuf = -1 THEN PrebufMax(q3)
                                                 ELSE QueuePrebuf),
                 PrebufMax(q3)) = QueuePrebuf
      BY <1>0, <1>1, <2>1 DEF AtMost, PrebufMax
    <2>3. q4 = [q3 EXCEPT !.prebuf = QueuePrebuf, !.in_prebuf = b]
      BY <2>2 DEF pa_memblockq_set_prebuf
    <2>4. ASSUME NEW c, NEW z, z = [q3 EXCEPT !.prebuf = QueuePrebuf, !.in_prebuf = c]
          PROVE  Fresh(z, QueueMax, QueuePrebuf, QueuePrebuf, 1)
      BY <1>6, <2>4 DEF Fresh, Shape
    <2> HIDE DEF b, q4
    <2> QED
      BY <2>3, <2>4
  <1> HIDE DEF q4
  <1>8. q = [q4 EXCEPT !.maxrewind = 0]
    <2>1. RoundDown(q4, 0) = 0
      <3>1. q4.base = 1
        BY <1>7 DEF Fresh
      <3> QED
        BY <1>1, <3>1
    <2> QED
      BY <1>2, <2>1 DEF pa_memblockq_set_maxrewind
  <1> QED
    BY <1>7, <1>8, FreshSet

LEMMA NewQueueOK ==
    ASSUME InputInit
    PROVE  QueueOK(queue) /\ queue.blocks = {} /\ queue.write_index = 0
  <1>1. Fresh(queue, QueueMax, QueuePrebuf, QueuePrebuf, 1)
    BY NewQueue DEF InputInit
  <1>2. QueueMax \in Nat /\ QueuePrebuf \in Nat \ {0}
    BY InputAssumption
  <1> QED
    BY <1>1, <1>2 DEF Fresh, QueueOK

-----------------------------------------------------------------------------
(* The steps of the listener, as the proofs below use them.                *)

\* A packet is accepted: what rtpoll_work_cb leaves behind.
Takes(f) ==
    /\ Accepts(f) /\ ~AssertFails(f) /\ Missing(f) \in Nat
    /\ Appended(queue, queue', f.pos)
    /\ queue'.write_index <= queue.write_index + Missing(f) + f.length
    /\ seqnb' = f.seq /\ last_pb_ts' = EndTs(f)
    /\ heard' = Hears(f, queue'.write_index - queue.write_index)

\* Everything else leaves the position in the stream alone.
Reads ==
    /\ queue' = queue \/ Consumed(queue, queue')
    /\ seqnb' = seqnb /\ last_pb_ts' = last_pb_ts /\ heard' = heard

LEMMA SizeFacts ==
    ASSUME NEW t \in Nat
    PROVE  /\ pa_usec_to_bytes(t) \in Nat
           /\ UsecPerSec * pa_usec_to_bytes(t) <= t * Rate
           /\ t * Rate < UsecPerSec * pa_usec_to_bytes(t) + UsecPerSec
  <1> DEFINE a == t * Rate
  <1>1. UsecPerSec \in Nat \ {0} /\ a \in Nat
    BY RateAssumption
  <1> HIDE DEF a
  <1>2. /\ a \div UsecPerSec \in Nat
        /\ UsecPerSec * (a \div UsecPerSec) <= a
        /\ a < UsecPerSec * (a \div UsecPerSec) + UsecPerSec
    BY <1>1, DivBounds
  <1> QED
    BY <1>2 DEF pa_usec_to_bytes, a

LEMMA MissingFacts ==
    ASSUME NEW f \in Frame, last_pb_ts \in Nat, ~AssertFails(f)
    PROVE  Missing(f) \in Nat
  <1>1. CASE IsGap(f)
    <2>1. f.timestamp \in Nat /\ f.timestamp > last_pb_ts
      BY <1>1, FrameFacts DEF AssertFails
    <2>2. f.timestamp - last_pb_ts \in Nat
      BY <2>1
    <2>3. Missing(f) = pa_usec_to_bytes(f.timestamp - last_pb_ts)
      BY <1>1 DEF Missing
    <2> QED
      BY <2>2, <2>3, SizeFacts
  <1>2. CASE ~IsGap(f)
    BY <1>2 DEF Missing
  <1> QED
    BY <1>1, <1>2

LEMMA InputSteps ==
    ASSUME SrcInv, InputTypeOK, QueueOK(queue), InputNext
    PROVE  Reads \/ \E f \in air : Takes(f) /\ ~aborted
  <1>1. ASSUME NEW f \in air, ReadFrame(f)
        PROVE  Reads \/ (Takes(f) /\ ~aborted)
    <2>1. f \in Frame /\ f.length >= 1 /\ last_pb_ts \in Nat
      BY DEF SrcInv, SrcTypeOK, InputTypeOK
    <2>2. CASE AssertFails(f)
      BY <1>1, <2>2 DEF ReadFrame, Reads
    <2>3. CASE ~AssertFails(f)
      <3>1. /\ Accepts(f)
            /\ queue' = pa_memblockq_push(FillGap(queue, Missing(f), f),
                                          Payload(f, f.length))
            /\ seqnb' = f.seq /\ last_pb_ts' = EndTs(f)
            /\ heard' = Hears(f, queue'.write_index - queue.write_index)
            /\ ~aborted
        BY <1>1, <2>3 DEF ReadFrame, EndTs
      <3>2. Missing(f) \in Nat
        BY <2>1, <2>3, MissingFacts
      <3>3. /\ Appended(queue, queue', f.pos)
            /\ queue'.write_index <= queue.write_index + Missing(f) + f.length
        BY <2>1, <3>1, <3>2, AcceptFacts
      <3> QED
        BY <2>3, <3>1, <3>2, <3>3 DEF Takes
    <2> QED
      BY <2>2, <2>3
  <1>2. ASSUME sink_input_pop_cb PROVE Reads
    <2>1. queue' = IF pa_memblockq_peek(queue).length = 0
                   THEN update_prebuf(queue)
                   ELSE pa_memblockq_drop(update_prebuf(queue),
                                          pa_memblockq_peek(queue).length)
      BY <1>2 DEF sink_input_pop_cb
    <2>2. Consumed(queue, queue')
      BY <2>1, PopConsumes
    <2> QED
      BY <1>2, <2>2 DEF sink_input_pop_cb, Reads
  <1>3. ASSUME NEW n \in 1 .. RewindMax, sink_input_process_rewind_cb(n)
        PROVE  Reads
    <2>1. n \in Nat /\ n <= queue.read_index
          /\ queue' = pa_memblockq_rewind(queue, n)
      BY <1>3, InputAssumption DEF sink_input_process_rewind_cb
    <2>2. Consumed(queue, queue')
      BY <2>1, RewindConsumes
    <2> QED
      BY <1>3, <2>2 DEF sink_input_process_rewind_cb, Reads
  <1>4. ASSUME sink_input_attach \/ sink_input_detach \/ SinkStateChange
        PROVE  Reads
    BY <1>4 DEF sink_input_attach, sink_input_detach, SinkStateChange, Reads
  <1> QED
    BY <1>1, <1>2, <1>3, <1>4 DEF InputNext

\* The part of the invariant that holds whatever the sender does.
BaseInv == SrcInv /\ InputTypeOK /\ QueueOK(queue)

LEMMA BaseInit ==
    ASSUME CastInit
    PROVE  BaseInv
  BY InitFacts, NewQueueOK DEF BaseInv, CastInit

LEMMA BaseNext ==
    ASSUME BaseInv, [CastNext]_castVars
    PROVE  BaseInv'
  <1> USE DEF BaseInv
  <1>1. CASE SrcNext /\ UNCHANGED inputVars
    <2>1. SrcInv'
      BY <1>1, SrcInvNext
    <2>2. InputTypeOK' /\ QueueOK(queue)'
      BY <1>1 DEF inputVars, InputTypeOK
    <2> QED
      BY <2>1, <2>2
  <1>2. CASE InputNext /\ UNCHANGED srcVars
    <2>1. InputTypeOK'
      BY <1>2, InputTypeNext
    <2>2. SrcInv'
      BY <1>2 DEF srcVars, SrcInv, SrcTypeOK, PendingCopy
    <2>3. QueueOK(queue')
      BY <1>2, InputSteps DEF Reads, Takes, Consumed, Appended
    <2> QED
      BY <2>1, <2>2, <2>3
  <1>3. CASE UNCHANGED castVars
    <2>1. SrcInv'
      BY <1>3 DEF castVars, srcVars, SrcInv, SrcTypeOK, PendingCopy
    <2>2. InputTypeOK' /\ QueueOK(queue)'
      BY <1>3 DEF castVars, inputVars, InputTypeOK
    <2> QED
      BY <2>1, <2>2
  <1> QED
    BY <1>1, <1>2, <1>3 DEF CastNext

\* However long the gap rtpoll_work_cb fills, what it queues leaves the
\* memblockq within maxlength: no sequence of packets, pops and rewinds makes
\* a push exceed it, although a refused push is ignored and the next one is
\* tried.
THEOREM GapsFitTheQueue == CastSpec => QueueWithinMax
  <1>1. BaseInv /\ [CastNext]_castVars =>
          [queue'.write_index > queue.write_index
             => pa_memblockq_get_length(queue') <= queue.maxlength]_castVars
    <2> SUFFICES ASSUME BaseInv, CastNext,
                        queue'.write_index > queue.write_index
                 PROVE  pa_memblockq_get_length(queue') <= queue.maxlength
      OBVIOUS
    <2>1. queue.write_index \in Nat /\ queue.read_index \in Nat
      BY DEF BaseInv, QueueOK
    <2>2. InputNext
      BY <2>1 DEF CastNext, inputVars
    <2>3. ~Reads
      BY <2>1 DEF Reads, Consumed
    <2>4. PICK f \in air : Takes(f)
      BY <2>2, <2>3, InputSteps DEF BaseInv
    <2>5. /\ queue'.write_index \in Nat /\ queue'.read_index \in Nat
          /\ queue'.read_index <= queue'.write_index
          /\ queue'.write_index - queue'.read_index <= queue.maxlength
          /\ queue.maxlength \in Int
      BY <2>1, <2>4 DEF Takes, Appended, QueueOK
    <2> QED
      BY <2>1, <2>5 DEF pa_memblockq_get_length, BaseInv, QueueOK
  <1> QED
    BY <1>1, BaseInit, BaseNext, PTL DEF CastSpec, QueueWithinMax

-----------------------------------------------------------------------------
(***************************************************************************)
(* Order.  A packet is sent when its time has come, so timestamps never    *)
(* decrease from one packet to the next, not even when the sender is       *)
(* resumed; and the end of a packet lies after its beginning.  A packet    *)
(* sent before the one heard last, or that packet again, therefore has a   *)
(* timestamp before last_pb_ts, and is dropped for it even if the sequence *)
(* counter has wrapped in between.                                         *)
(***************************************************************************)
\* Positions and timestamps grow together.
AirOrder ==
    \A f \in air :
        /\ f.timestamp <= now /\ f.pos + f.length <= next_pos
        /\ alive => f.timestamp <= next_ts
        /\ \A g \in air : /\ f.pos <= g.pos => f.timestamp <= g.timestamp
                          /\ f.pos < g.pos => f.pos + f.length <= g.pos

\* A frame before the position heard has a timestamp before last_pb_ts.
HeardOrder ==
    /\ heard.pos \in Nat /\ heard.pos <= next_pos
    /\ seqnb # 0 => last_pb_ts # 0
    /\ last_pb_ts = 0 => heard.pos = 0
    /\ last_pb_ts # 0 =>
          \A g \in air : g.pos < heard.pos => g.timestamp < last_pb_ts

\* The queue holds audio that was heard, in order.
QueueOrder ==
    /\ QueueInOrder
    /\ \A b \in queue.blocks : b.chunk.blk <= heard.pos

OrderInv == BaseInv /\ AirOrder /\ HeardOrder /\ QueueOrder

LEMMA OrderSource ==
    ASSUME OrderInv, SrcNext, UNCHANGED inputVars
    PROVE  AirOrder' /\ HeardOrder'
  <1>0. /\ SrcTypeOK /\ PendingCopy /\ AirOrder /\ HeardOrder
        /\ next_ts \in Nat /\ next_pos \in Nat /\ now \in Nat
        /\ \A f \in air : f.length >= 1
    BY DEF OrderInv, BaseInv, SrcInv, SrcTypeOK
  <1>00. seqnb' = seqnb /\ last_pb_ts' = last_pb_ts /\ heard' = heard
    BY DEF inputVars
  <1>000. ASSUME NEW f \in air
          PROVE  /\ f.timestamp \in Nat /\ f.pos \in Nat /\ f.length \in Nat
                 /\ f.length >= 1
    <2>1. f \in Frame
      BY <1>0 DEF SrcTypeOK
    <2> QED
      BY <1>0, <2>1, FrameFacts
  <1>1. CASE \E n \in 1 .. MaxLength, ok \in BOOLEAN : Emit(n, ok)
    <2>1. PICK n \in 1 .. MaxLength, ok \in BOOLEAN : Emit(n, ok)
      BY <1>1
    <2>2. /\ alive /\ alive' = ok /\ n \in Nat /\ n >= 1
          /\ next_pos' = next_pos + n
          /\ ~ok => air' = air
          /\ ok => /\ next_ts' = next_ts + pa_bytes_to_usec(n)
                   /\ \E f \in Frame :
                         /\ f.seq = iw_h'.seq /\ f.timestamp = next_ts
                         /\ f.pos = next_pos /\ f.length = n
                         /\ f \in air' /\ air' \subseteq air \cup {f}
      BY <1>0, <2>1, EmitFacts
    <2>3. now' = now /\ next_ts <= now
      BY <2>1 DEF Emit
    <2>4. CASE ~ok
      <3>1. AirOrder'
        <4> SUFFICES ASSUME NEW f \in air
                     PROVE  f.pos + f.length <= next_pos'
          BY <1>0, <2>2, <2>3, <2>4 DEF AirOrder
        <4> QED
          BY <1>0, <1>000, <2>2 DEF AirOrder
      <3>2. HeardOrder'
        BY <1>0, <1>00, <2>2, <2>4 DEF HeardOrder
      <3> QED
        BY <3>1, <3>2
    <2>5. CASE ok
      <3>1. PICK f \in Frame :
                /\ f.timestamp = next_ts /\ f.pos = next_pos /\ f.length = n
                /\ f \in air' /\ air' \subseteq air \cup {f}
        BY <2>2, <2>5
      <3>2. pa_bytes_to_usec(n) \in Nat
        BY <2>2, DurationFacts
      <3>3. next_ts' \in Nat /\ next_ts <= next_ts' /\ next_pos' \in Nat
            /\ next_pos < next_pos' /\ next_pos' = next_pos + n
        BY <1>0, <2>2, <2>5, <3>2
      <3>4. ASSUME NEW g \in air
            PROVE  /\ g.timestamp \in Nat /\ g.pos \in Nat /\ g.length \in Nat
                   /\ g.length >= 1
                   /\ g.timestamp <= now /\ g.timestamp <= next_ts
                   /\ g.pos + g.length <= next_pos
        BY <1>0, <1>000, <2>2 DEF AirOrder
      <3>5. AirOrder'
        <4>1. ASSUME NEW g \in air'
              PROVE  /\ g.timestamp <= now' /\ g.pos + g.length <= next_pos'
                     /\ g.timestamp <= next_ts'
          <5>1. CASE g \in air
            BY <1>0, <2>3, <3>3, <3>4, <5>1
          <5>2. CASE g = f
            BY <1>0, <2>2, <2>3, <3>1, <3>3, <5>2
          <5> QED
            BY <3>1, <5>1, <5>2
        <4>2. ASSUME NEW g1 \in air', NEW g2 \in air'
              PROVE  /\ g1.pos <= g2.pos => g1.timestamp <= g2.timestamp
                     /\ g1.pos < g2.pos => g1.pos + g1.length <= g2.pos
          <5>1. CASE g1 \in air /\ g2 \in air
            BY <1>0, <5>1 DEF AirOrder
          <5>2. CASE g1 \in air /\ g2 = f
            BY <3>1, <3>4, <5>2
          <5>3. CASE g1 = f /\ g2 \in air
            BY <1>0, <3>1, <3>4, <5>3
          <5>4. CASE g1 = f /\ g2 = f
            BY <1>0, <3>1, <5>4
          <5> QED
            BY <3>1, <5>1, <5>2, <5>3, <5>4
        <4> QED
          BY <4>1, <4>2 DEF AirOrder
      <3>6. HeardOrder'
        <4>1. ASSUME last_pb_ts # 0, NEW g \in air', g.pos < heard.pos
              PROVE  g.timestamp < last_pb_ts
          <5>1. g # f
            BY <1>0, <3>1, <4>1 DEF HeardOrder
          <5> QED
            BY <1>0, <3>1, <4>1, <5>1 DEF HeardOrder
        <4>2. heard.pos <= next_pos'
          BY <1>0, <3>3 DEF HeardOrder
        <4> QED
          BY <1>0, <1>00, <4>1, <4>2 DEF HeardOrder
      <3> QED
        BY <3>5, <3>6
    <2> QED
      BY <2>4, <2>5
  <1>2. CASE \E ok \in BOOLEAN : Repeat(ok)
    <2>1. PICK ok \in BOOLEAN : Repeat(ok)
      BY <1>2
    <2>2. /\ alive /\ alive' = ok /\ next_ts' = next_ts /\ now' = now
          /\ next_pos' = next_pos
          /\ ~ok => air' = air
          /\ ok => \E f \in Frame, o \in air :
                          /\ f.seq = o.seq /\ f.timestamp = o.timestamp
                          /\ f.pos = o.pos /\ f.length = o.length
                          /\ f \in air' /\ air' \subseteq air \cup {f}
      BY <1>0, <2>1, RepeatFacts
    <2>3. \A g \in air' : \E o \in air :
            g.pos = o.pos /\ g.timestamp = o.timestamp /\ g.length = o.length
      BY <2>2
    <2>4. AirOrder'
      <3>1. ASSUME NEW g \in air'
            PROVE  /\ g.timestamp <= now' /\ g.pos + g.length <= next_pos'
                   /\ g.timestamp <= next_ts'
        BY <1>0, <2>2, <2>3 DEF AirOrder
      <3>2. ASSUME NEW g1 \in air', NEW g2 \in air'
            PROVE  /\ g1.pos <= g2.pos => g1.timestamp <= g2.timestamp
                   /\ g1.pos < g2.pos => g1.pos + g1.length <= g2.pos
        BY <1>0, <2>3 DEF AirOrder
      <3> QED
        BY <3>1, <3>2 DEF AirOrder
    <2>5. HeardOrder'
      BY <1>0, <1>00, <2>2, <2>3 DEF HeardOrder
    <2> QED
      BY <2>4, <2>5
  <1>3. CASE Rebase \/ Stop \/ Tick
    <2>1. /\ air' = air /\ next_pos' = next_pos
          /\ alive' => alive
          /\ now' \in Nat /\ now <= now'
          /\ next_ts' = next_ts \/ next_ts' = now
      BY <1>0, <1>3 DEF Rebase, Stop, Tick
    <2>2. AirOrder'
      <3> SUFFICES ASSUME NEW f \in air
                   PROVE  f.timestamp <= now' /\ (alive => f.timestamp <= next_ts')
        BY <1>0, <2>1 DEF AirOrder
      <3> QED
        BY <1>0, <1>000, <2>1 DEF AirOrder
    <2>3. HeardOrder'
      BY <1>0, <1>00, <2>1 DEF HeardOrder
    <2> QED
      BY <2>2, <2>3
  <1> QED
    BY <1>1, <1>2, <1>3 DEF SrcNext

\* A packet that is accepted lies behind everything heard.
LEMMA AcceptedIsNew ==
    ASSUME OrderInv, NEW f \in air, Accepts(f)
    PROVE  /\ f \in Frame /\ f.length >= 1
           /\ heard.pos <= f.pos /\ heard.pos < f.pos + f.length
  <1>1. f \in Frame /\ f.length >= 1 /\ last_pb_ts \in Nat /\ HeardOrder
    BY DEF OrderInv, BaseInv, SrcInv, SrcTypeOK, InputTypeOK
  <1>2. f.pos \in Nat /\ f.length \in Nat /\ f.timestamp \in Nat
    BY <1>1, FrameFacts
  <1>3. heard.pos \in Nat /\ ~(f.pos < heard.pos)
    BY <1>1, <1>2 DEF HeardOrder, Accepts
  <1> QED
    BY <1>1, <1>2, <1>3

LEMMA OrderInput ==
    ASSUME OrderInv, InputNext, UNCHANGED srcVars
    PROVE  AirOrder' /\ HeardOrder' /\ QueueOrder'
  <1>0. /\ SrcInv /\ InputTypeOK /\ QueueOK(queue)
        /\ AirOrder /\ HeardOrder /\ QueueOrder
    BY DEF OrderInv, BaseInv
  <1>1. /\ air' = air /\ alive' = alive /\ now' = now
        /\ next_ts' = next_ts /\ next_pos' = next_pos
    BY DEF srcVars
  <1>2. AirOrder'
    BY <1>0, <1>1 DEF AirOrder
  <1>3. CASE Reads
    <2>1. queue'.blocks \subseteq queue.blocks
      BY <1>3 DEF Reads, Consumed
    <2>2. seqnb' = seqnb /\ last_pb_ts' = last_pb_ts /\ heard' = heard
      BY <1>3 DEF Reads
    <2>3. HeardOrder'
      BY <1>0, <1>1, <2>2 DEF HeardOrder
    <2>4. QueueOrder'
      BY <1>0, <2>1, <2>2 DEF QueueOrder, QueueInOrder
    <2> QED
      BY <1>2, <2>3, <2>4
  <1>4. CASE \E f \in air : Takes(f)
    <2>1. PICK f \in air : Takes(f)
      BY <1>4
    <2>2. /\ f \in Frame /\ f.length >= 1
          /\ heard.pos <= f.pos /\ heard.pos < f.pos + f.length
      BY <2>1, AcceptedIsNew DEF Takes
    <2>3. /\ f.pos \in Nat /\ f.length \in Nat /\ f.timestamp \in Nat
          /\ EndTs(f) \in Nat /\ f.timestamp + f.length <= EndTs(f)
      BY <2>2, FrameFacts
    <2>4. /\ seqnb' = f.seq /\ last_pb_ts' = EndTs(f)
          /\ heard'.pos = f.pos + f.length
      BY <2>1 DEF Takes, Hears
    <2>5. HeardOrder'
      <3>1. heard'.pos \in Nat /\ heard'.pos <= next_pos' /\ EndTs(f) # 0
        BY <1>0, <1>1, <2>2, <2>3, <2>4 DEF AirOrder
      <3>2. ASSUME NEW g \in air, g.pos < heard'.pos
            PROVE  g.timestamp < EndTs(f)
        <4>1. g \in Frame
          BY <1>0 DEF SrcInv, SrcTypeOK
        <4>2. g.pos \in Nat /\ g.timestamp \in Nat
          BY <4>1, FrameFacts
        <4>3. ~(f.pos < g.pos)
          BY <1>0, <2>3, <2>4, <3>2, <4>2 DEF AirOrder
        <4>4. g.timestamp <= f.timestamp
          BY <1>0, <2>3, <4>2, <4>3 DEF AirOrder
        <4> QED
          BY <2>2, <2>3, <4>2, <4>4
      <3> QED
        BY <1>1, <2>4, <3>1, <3>2 DEF HeardOrder
    <2>6. Appended(queue, queue', f.pos)
      BY <2>1 DEF Takes
    <2>7. ASSUME NEW b \in queue'.blocks
          PROVE  /\ ItemOK(b)
                 /\ \/ b \in queue.blocks /\ b.chunk.blk <= heard.pos
                    \/ b.chunk.blk = f.pos /\ queue.write_index <= b.index
      BY <1>0, <2>6 DEF Appended, QueueOK, QueueOrder
    <2>8. Apart(queue')
      <3>1. Apart(queue)
        BY <1>0 DEF QueueOrder, QueueInOrder, Apart
      <3> QED
        BY <2>6, <3>1 DEF Appended
    <2>9. heard.pos \in Nat
      BY <1>0 DEF HeardOrder
    <2>10. QueueOrder'
      <3>1. ASSUME NEW b \in queue'.blocks
            PROVE  b.chunk.blk <= heard'.pos
        <4>1. b.chunk.blk \in Nat
          BY <2>7, ItemFacts
        <4> QED
          BY <2>2, <2>3, <2>4, <2>7, <2>9, <4>1
      <3>2. ASSUME NEW b \in queue'.blocks, NEW c \in queue'.blocks,
                   b.index < c.index
            PROVE  End(b) <= c.index /\ b.chunk.blk <= c.chunk.blk
        <4>1. End(b) <= c.index
          BY <2>8, <3>2 DEF Apart
        <4>2. /\ b.chunk.blk \in Nat /\ c.chunk.blk \in Nat /\ b.index \in Nat
              /\ c.index \in Nat /\ End(c) \in Nat /\ c.index < End(c)
          BY <2>7, ItemFacts
        <4>3. CASE b \in queue.blocks /\ c \in queue.blocks
          BY <1>0, <3>2, <4>1, <4>3 DEF QueueOrder, QueueInOrder
        <4>4. CASE c.chunk.blk = f.pos
          BY <2>2, <2>3, <2>7, <2>9, <4>1, <4>2, <4>4
        <4>5. CASE queue.write_index <= b.index /\ c \in queue.blocks
          <5>1. End(c) <= queue.write_index /\ queue.write_index \in Nat
            BY <1>0, <4>5 DEF QueueOK
          <5> QED
            BY <3>2, <4>2, <4>5, <5>1
        <4> QED
          BY <2>7, <4>3, <4>4, <4>5
      <3> QED
        BY <3>1, <3>2 DEF QueueOrder, QueueInOrder
    <2> QED
      BY <1>2, <2>5, <2>10
  <1> QED
    BY <1>0, <1>3, <1>4, InputSteps

LEMMA OrderInit ==
    ASSUME CastInit
    PROVE  OrderInv
  <1>1. BaseInv
    BY BaseInit
  <1>2. air = {} /\ next_pos = 0
    BY DEF CastInit, SrcInit, iwab_setup
  <1>3. seqnb = 0 /\ last_pb_ts = 0 /\ heard.pos = 0
    BY DEF CastInit, InputInit
  <1>4. queue.blocks = {}
    BY NewQueueOK DEF CastInit
  <1> QED
    BY <1>1, <1>2, <1>3, <1>4
    DEF OrderInv, AirOrder, HeardOrder, QueueOrder, QueueInOrder

LEMMA OrderNext ==
    ASSUME OrderInv, [CastNext]_castVars
    PROVE  OrderInv'
  <1>1. BaseInv'
    BY BaseNext DEF OrderInv
  <1>2. CASE SrcNext /\ UNCHANGED inputVars
    <2>1. AirOrder' /\ HeardOrder'
      BY <1>2, OrderSource
    <2>2. QueueOrder'
      BY <1>2 DEF inputVars, OrderInv, QueueOrder, QueueInOrder
    <2> QED
      BY <1>1, <2>1, <2>2 DEF OrderInv
  <1>3. CASE InputNext /\ UNCHANGED srcVars
    BY <1>1, <1>3, OrderInput DEF OrderInv
  <1>4. CASE UNCHANGED castVars
    BY <1>1, <1>4 DEF castVars, srcVars, inputVars, OrderInv, AirOrder,
                      HeardOrder, QueueOrder, QueueInOrder
  <1> QED
    BY <1>2, <1>3, <1>4 DEF CastNext

\* Whatever the medium does to the packets, however often the sender is
\* suspended and resumed and the sequence counter wraps: rtpoll_work_cb queues
\* each packet once and in the order in which they were sent, and the sink
\* never reads ahead of what was queued.
THEOREM PlayedInOrderAlways == CastSpec => PlayedInOrder
  <1>1. OrderInv => QueueInOrder /\ ReadBehindWrite
    BY DEF OrderInv, BaseInv, QueueOK, QueueOrder, ReadBehindWrite
  <1>2. OrderInv /\ [CastNext]_castVars =>
          [heard'.pos # heard.pos /\ seqnb # 0 => heard'.pos > heard.pos]_castVars
    <2> SUFFICES ASSUME OrderInv, CastNext, heard'.pos # heard.pos
                 PROVE  heard'.pos > heard.pos
      OBVIOUS
    <2>1. InputNext
      BY DEF CastNext, inputVars
    <2>2. ~Reads
      BY DEF Reads
    <2>3. PICK f \in air : Takes(f)
      BY <2>1, <2>2, InputSteps DEF OrderInv, BaseInv
    <2>4. f \in Frame /\ heard.pos < f.pos + f.length
      BY <2>3, AcceptedIsNew DEF Takes
    <2>5. heard'.pos = f.pos + f.length
      BY <2>3 DEF Takes, Hears
    <2> QED
      BY <2>4, <2>5
  <1> QED
    BY <1>1, <1>2, OrderInit, OrderNext, PTL
    DEF CastSpec, PlayedInOrder, HeardAdvances

-----------------------------------------------------------------------------
(***************************************************************************)
(* Accuracy.  What a listener can tell about the packets it has not heard  *)
(* is their number, from the sequence numbers, and their duration, from    *)
(* the timestamps; the duration of each is rounded down.  Gap relates the  *)
(* end of the packet numbered s to the beginning of the one numbered       *)
(* s2 + 1, as positions p, p2 and times t, t2.  The counter must not wrap  *)
(* for this: after it has, the code takes new packets for old ones.        *)
(***************************************************************************)
NoWrap == [][iw_h'.seq >= iw_h.seq]_castVars

Gap(s, p, t, s2, p2, t2) ==
    /\ s <= s2 /\ p <= p2 /\ t <= t2
    /\ s = s2 => p = p2 /\ t = t2
    /\ Rate * (t2 - t) <= UsecPerSec * (p2 - p)
    /\ UsecPerSec * (p2 - p) <= Rate * (t2 - t) + Rate * (s2 - s)

LEMMA Distribute ==
    \A a, b, c \in Int : a * b \in Int /\ a * (b + c) = a * b + a * c
  OBVIOUS

LEMMA GapEmpty ==
    ASSUME NEW s \in Int, NEW p \in Int, NEW t \in Int
    PROVE  Gap(s, p, t, s, p, t)
  <1>1. Rate \in Int /\ UsecPerSec \in Int
    BY RateAssumption
  <1>2. t - t = 0 /\ p - p = 0 /\ s - s = 0
    OBVIOUS
  <1>3. Rate * 0 = 0 /\ UsecPerSec * 0 = 0
    BY <1>1
  <1> QED
    BY <1>2, <1>3 DEF Gap

\* One more packet that was not heard.
LEMMA GapGrows ==
    ASSUME NEW s \in Int, NEW p \in Int, NEW t \in Int,
           NEW s2 \in Int, NEW p2 \in Int, NEW t2 \in Int,
           Gap(s, p, t, s2, p2, t2), NEW n \in Nat, n >= 1
    PROVE  Gap(s, p, t, s2 + 1, p2 + n, t2 + pa_bytes_to_usec(n))
  <1> DEFINE d == pa_bytes_to_usec(n)
             x == t2 - t
             y == p2 - p
             z == s2 - s
  <1>1. Rate \in Int /\ UsecPerSec \in Int
    BY RateAssumption
  <1>2. /\ d \in Nat /\ Rate * d <= n * UsecPerSec
        /\ n * UsecPerSec < Rate * d + Rate
    BY DurationFacts
  <1>3. n * UsecPerSec = UsecPerSec * n
    BY <1>1
  <1> HIDE DEF d
  <1>4. /\ (t2 + d) - t = x + d /\ (p2 + n) - p = y + n
        /\ (s2 + 1) - s = z + 1
        /\ x \in Int /\ y \in Int /\ z \in Int
    BY <1>2
  <1>5. /\ Rate * x <= UsecPerSec * y
        /\ UsecPerSec * y <= Rate * x + Rate * z
        /\ s <= s2 /\ p <= p2 /\ t <= t2
    BY DEF Gap
  <1> HIDE DEF x, y, z
  <1>6. /\ Rate * (x + d) = Rate * x + Rate * d
        /\ UsecPerSec * (y + n) = UsecPerSec * y + UsecPerSec * n
        /\ Rate * (z + 1) = Rate * z + Rate * 1 /\ Rate * 1 = Rate
        /\ Rate * x \in Int /\ UsecPerSec * y \in Int /\ Rate * z \in Int
        /\ Rate * d \in Int /\ UsecPerSec * n \in Int
    BY <1>1, <1>2, <1>4, Distribute
  <1>7. /\ Rate * (x + d) <= UsecPerSec * (y + n)
        /\ UsecPerSec * (y + n) <= Rate * (x + d) + Rate * (z + 1)
    <2>1. ASSUME NEW r1 \in Int, NEW r2 \in Int, NEW r3 \in Int,
                 NEW u1 \in Int, NEW u2 \in Int, NEW r \in Int,
                 r1 <= u1, u1 <= r1 + r3, r2 <= u2, u2 < r2 + r
          PROVE  r1 + r2 <= u1 + u2 /\ u1 + u2 <= (r1 + r2) + (r3 + r)
      BY <2>1
    <2>2. /\ Rate * x + Rate * d <= UsecPerSec * y + UsecPerSec * n
          /\ UsecPerSec * y + UsecPerSec * n
               <= (Rate * x + Rate * d) + (Rate * z + Rate)
      BY <1>1, <1>2, <1>3, <1>5, <1>6, <2>1
    <2> QED
      BY <1>6, <2>2
  <1>8. /\ s <= s2 + 1 /\ s # s2 + 1 /\ p <= p2 + n /\ t <= t2 + d
    BY <1>2, <1>5
  <1> QED
    BY <1>4, <1>7, <1>8 DEF Gap, d

\* From every packet on the air to the next one to be sent, and to each later
\* one on the air; the same from the end of the packet heard last.
GapsInv ==
    /\ \A f \in air : f.seq >= 1
    /\ alive => \A f \in air : Gap(f.seq, f.pos + f.length, EndTs(f),
                                   iw_h.seq, next_pos, next_ts)
    /\ \A f, g \in air :
          f.pos < g.pos => Gap(f.seq, f.pos + f.length, EndTs(f),
                               g.seq - 1, g.pos, g.timestamp)

HeardGaps ==
    seqnb # 0 =>
        /\ alive => Gap(seqnb, heard.pos, last_pb_ts, iw_h.seq, next_pos, next_ts)
        /\ \A g \in air : heard.pos <= g.pos =>
              Gap(seqnb, heard.pos, last_pb_ts, g.seq - 1, g.pos, g.timestamp)

\* The history agrees with the state.
HistoryOK ==
    /\ heard.drift \in Nat /\ heard.lost \in Nat /\ heard.overrun \in BOOLEAN
    /\ seqnb = 0 => last_pb_ts = 0

AccuracyInv ==
    OrderInv /\ GapsInv /\ HeardGaps /\ HistoryOK /\ DriftBounded

\* Without a wrap the next sequence number is the next number.
LEMMA NextSeq ==
    ASSUME NEW s \in 0 .. SeqMod - 1, (s + 1) % SeqMod >= s
    PROVE  (s + 1) % SeqMod = s + 1
  <1>1. SeqMod \in Nat \ {0, 1}
    BY NetAssumption
  <1>2. CASE s + 1 = SeqMod
    <2>1. (s + 1) % SeqMod = 0
      BY <1>1, <1>2
    <2> QED
      BY <1>1, <1>2, <2>1
  <1>3. CASE s + 1 < SeqMod
    BY <1>1, <1>3
  <1> QED
    BY <1>1, <1>2, <1>3

LEMMA GapsSource ==
    ASSUME ~Resumable, AccuracyInv, SrcNext, UNCHANGED inputVars,
           iw_h'.seq >= iw_h.seq
    PROVE  GapsInv' /\ HeardGaps'
  <1>0. /\ SrcTypeOK /\ PendingCopy /\ AirOrder /\ GapsInv /\ HeardGaps
        /\ HeardOrder
        /\ next_ts \in Nat /\ next_pos \in Nat /\ iw_h.seq \in 0 .. SeqMod - 1
        /\ seqnb \in Nat /\ last_pb_ts \in Nat /\ heard.pos \in Nat
    BY DEF AccuracyInv, OrderInv, BaseInv, SrcInv, SrcTypeOK, InputTypeOK,
           HeardOrder, Header
  <1>1. seqnb' = seqnb /\ last_pb_ts' = last_pb_ts /\ heard' = heard
    BY DEF inputVars
  <1>2. ASSUME NEW f \in air
        PROVE  /\ f.seq \in Nat /\ f.timestamp \in Nat /\ f.pos \in Nat
               /\ f.length \in Nat /\ EndTs(f) \in Nat
    <2>1. f \in Frame
      BY <1>0 DEF SrcTypeOK
    <2>2. f.seq \in 0 .. SeqMod - 1 /\ SeqMod \in Nat
      BY <2>1, FrameFacts, NetAssumption
    <2> QED
      BY <2>1, <2>2, FrameFacts
  <1>3. CASE \E n \in 1 .. MaxLength, ok \in BOOLEAN : Emit(n, ok)
    <2>1. PICK n \in 1 .. MaxLength, ok \in BOOLEAN : Emit(n, ok)
      BY <1>3
    <2>2. /\ alive /\ alive' = ok /\ n \in Nat /\ n >= 1
          /\ next_pos' = next_pos + n
          /\ iw_h'.seq = (iw_h.seq + 1) % SeqMod
          /\ ~ok => air' = air
          /\ ok => /\ next_ts' = next_ts + pa_bytes_to_usec(n)
                   /\ \E f \in Frame :
                         /\ f.seq = iw_h'.seq /\ f.timestamp = next_ts
                         /\ f.pos = next_pos /\ f.length = n
                         /\ f \in air' /\ air' \subseteq air \cup {f}
      BY <1>0, <2>1, EmitFacts
    <2>3. CASE ~ok
      BY <1>0, <1>1, <2>2, <2>3 DEF GapsInv, HeardGaps, EndTs
    <2>4. CASE ok
      <3>1. PICK f \in Frame :
                /\ f.seq = iw_h'.seq /\ f.timestamp = next_ts
                /\ f.pos = next_pos /\ f.length = n
                /\ f \in air' /\ air' \subseteq air \cup {f}
        BY <2>2, <2>4
      <3>2. iw_h'.seq = iw_h.seq + 1 /\ iw_h.seq \in Nat
        BY <1>0, <2>2, NextSeq, NetAssumption
      <3>3. /\ next_ts' = next_ts + pa_bytes_to_usec(n)
            /\ EndTs(f) = next_ts' /\ EndTs(f) \in Nat
            /\ f.pos + f.length = next_pos' /\ next_pos' \in Nat
            /\ f.seq - 1 = iw_h.seq /\ f.seq \in Nat
        BY <1>0, <2>2, <2>4, <3>1, <3>2, FrameFacts DEF EndTs
      <3>4. ASSUME NEW g \in air
            PROVE  Gap(g.seq, g.pos + g.length, EndTs(g),
                       iw_h.seq, next_pos, next_ts)
        BY <1>0, <2>2 DEF GapsInv
      <3>5. ASSUME NEW g \in air'
            PROVE  Gap(g.seq, g.pos + g.length, EndTs(g),
                       iw_h'.seq, next_pos', next_ts')
        <4>1. CASE g \in air
          <5>1. /\ g.seq \in Int /\ g.pos + g.length \in Int /\ EndTs(g) \in Int
                /\ iw_h.seq \in Int /\ next_pos \in Int /\ next_ts \in Int
            BY <1>0, <1>2, <3>2, <4>1
          <5>2. Gap(g.seq, g.pos + g.length, EndTs(g),
                    iw_h.seq, next_pos, next_ts)
            BY <3>4, <4>1
          <5>3. Gap(g.seq, g.pos + g.length, EndTs(g), iw_h.seq + 1,
                    next_pos + n, next_ts + pa_bytes_to_usec(n))
            BY <2>2, <5>1, <5>2, GapGrows
          <5> QED
            BY <2>2, <3>2, <3>3, <5>3
        <4>2. CASE g = f
          <5>1. g.seq = iw_h'.seq /\ g.pos + g.length = next_pos'
                /\ EndTs(g) = next_ts'
            BY <3>1, <3>3, <4>2
          <5>2. iw_h'.seq \in Int /\ next_pos' \in Int /\ next_ts' \in Int
            BY <3>2, <3>3
          <5> QED
            BY <5>1, <5>2, GapEmpty
        <4> QED
          BY <3>1, <4>1, <4>2
      <3>6. ASSUME NEW g1 \in air', NEW g2 \in air', g1.pos < g2.pos
            PROVE  Gap(g1.seq, g1.pos + g1.length, EndTs(g1),
                       g2.seq - 1, g2.pos, g2.timestamp)
        <4>1. CASE g1 \in air /\ g2 \in air
          BY <1>0, <3>6, <4>1 DEF GapsInv
        <4>2. CASE g1 \in air /\ g2 = f
          BY <3>1, <3>3, <3>4, <4>2
        <4>3. CASE g1 = f /\ g2 \in air
          BY <1>0, <1>2, <3>1, <3>6, <4>3 DEF AirOrder
        <4>4. CASE g1 = f /\ g2 = f
          BY <1>0, <3>1, <3>6, <4>4
        <4> QED
          BY <3>1, <4>1, <4>2, <4>3, <4>4
      <3>7. \A g \in air' : g.seq >= 1
        BY <1>0, <3>1, <3>2 DEF GapsInv
      <3>8. GapsInv'
        BY <3>5, <3>6, <3>7 DEF GapsInv, EndTs
      <3>9. HeardGaps'
        <4> SUFFICES ASSUME seqnb # 0
                     PROVE  /\ Gap(seqnb, heard.pos, last_pb_ts,
                                   iw_h'.seq, next_pos', next_ts')
                            /\ \A g \in air' : heard.pos <= g.pos =>
                                 Gap(seqnb, heard.pos, last_pb_ts,
                                     g.seq - 1, g.pos, g.timestamp)
          BY <1>1 DEF HeardGaps
        <4>1. Gap(seqnb, heard.pos, last_pb_ts, iw_h.seq, next_pos, next_ts)
          BY <1>0, <2>2 DEF HeardGaps
        <4>2. Gap(seqnb, heard.pos, last_pb_ts, iw_h'.seq, next_pos', next_ts')
          <5>1. /\ seqnb \in Int /\ heard.pos \in Int /\ last_pb_ts \in Int
                /\ iw_h.seq \in Int /\ next_pos \in Int /\ next_ts \in Int
            BY <1>0, <3>2
          <5>2. Gap(seqnb, heard.pos, last_pb_ts, iw_h.seq + 1,
                    next_pos + n, next_ts + pa_bytes_to_usec(n))
            BY <2>2, <4>1, <5>1, GapGrows
          <5> QED
            BY <2>2, <3>2, <3>3, <5>2
        <4>3. ASSUME NEW g \in air', heard.pos <= g.pos
              PROVE  Gap(seqnb, heard.pos, last_pb_ts,
                         g.seq - 1, g.pos, g.timestamp)
          <5>1. CASE g \in air
            BY <1>0, <4>3, <5>1 DEF HeardGaps
          <5>2. CASE g = f
            BY <3>1, <3>3, <4>1, <5>2
          <5> QED
            BY <3>1, <5>1, <5>2
        <4> QED
          BY <4>2, <4>3
      <3> QED
        BY <3>8, <3>9
    <2> QED
      BY <2>3, <2>4
  <1>4. CASE \E ok \in BOOLEAN : Repeat(ok)
    <2>1. PICK ok \in BOOLEAN : Repeat(ok)
      BY <1>4
    <2>2. /\ alive /\ alive' = ok /\ next_ts' = next_ts
          /\ next_pos' = next_pos /\ iw_h'.seq = iw_h.seq
          /\ ~ok => air' = air
          /\ ok => \E f \in Frame, o \in air :
                          /\ f.seq = o.seq /\ f.timestamp = o.timestamp
                          /\ f.pos = o.pos /\ f.length = o.length
                          /\ f \in air' /\ air' \subseteq air \cup {f}
      BY <1>0, <2>1, RepeatFacts
    <2>3. \A g \in air' : \E o \in air :
            /\ g.seq = o.seq /\ g.pos = o.pos /\ g.timestamp = o.timestamp
            /\ g.length = o.length /\ EndTs(g) = EndTs(o)
      BY <2>2 DEF EndTs
    <2>4. GapsInv'
      <3>1. \A g \in air' :
              /\ g.seq >= 1
              /\ Gap(g.seq, g.pos + g.length, EndTs(g),
                     iw_h'.seq, next_pos', next_ts')
        BY <1>0, <2>2, <2>3 DEF GapsInv
      <3>2. ASSUME NEW g1 \in air', NEW g2 \in air', g1.pos < g2.pos
            PROVE  Gap(g1.seq, g1.pos + g1.length, EndTs(g1),
                       g2.seq - 1, g2.pos, g2.timestamp)
        BY <1>0, <2>3, <3>2 DEF GapsInv
      <3> QED
        BY <3>1, <3>2 DEF GapsInv, EndTs
    <2>5. HeardGaps'
      BY <1>0, <1>1, <2>2, <2>3 DEF HeardGaps
    <2> QED
      BY <2>4, <2>5
  <1>5. CASE Stop \/ Tick
    <2>1. /\ next_ts' = next_ts /\ next_pos' = next_pos /\ iw_h' = iw_h
          /\ air' = air
          /\ alive' => alive
      BY <1>5 DEF Stop, Tick
    <2> QED
      BY <1>0, <1>1, <2>1 DEF GapsInv, HeardGaps, EndTs
  <1> QED
    BY <1>3, <1>4, <1>5 DEF SrcNext, Rebase

\* What pa_usec_to_bytes makes of a gap of k packets, dp frames and dt clock
\* units: not more than was lost, and less by one frame, and one clock unit
\* for every packet, at most.
LEMMA GapSize ==
    ASSUME NEW dp \in Nat, NEW dt \in Nat, NEW k \in Nat, k >= 1,
           Rate * dt <= UsecPerSec * dp,
           UsecPerSec * dp <= Rate * dt + Rate * k
    PROVE  /\ pa_usec_to_bytes(dt) \in Nat /\ pa_usec_to_bytes(dt) <= dp
           /\ (dp - pa_usec_to_bytes(dt)) * UsecPerSec
                <= k * (Rate + UsecPerSec)
  <1> DEFINE m == pa_usec_to_bytes(dt)
  <1>1. Rate \in Nat \ {0} /\ UsecPerSec \in Nat \ {0}
    BY RateAssumption
  <1>2. /\ m \in Nat /\ UsecPerSec * m <= dt * Rate
        /\ dt * Rate < UsecPerSec * m + UsecPerSec
    BY SizeFacts
  <1> HIDE DEF m
  <1>3. dt * Rate = Rate * dt
    BY <1>1
  <1>4. /\ UsecPerSec * dp \in Nat /\ UsecPerSec * m \in Nat
        /\ Rate * dt \in Nat /\ Rate * k \in Nat /\ UsecPerSec * k \in Nat
    BY <1>1, <1>2
  <1>5. m <= dp
    <2> SUFFICES ASSUME m >= dp + 1 PROVE FALSE
      BY <1>2
    <2>1. UsecPerSec * m >= UsecPerSec * (dp + 1)
      BY <1>1, <1>2
    <2>2. UsecPerSec * (dp + 1) = UsecPerSec * dp + UsecPerSec
      BY <1>1
    <2> QED
      BY <1>1, <1>2, <1>3, <1>4, <2>1, <2>2
  <1>6. (dp - m) * UsecPerSec = UsecPerSec * dp - UsecPerSec * m
    BY <1>1, <1>2
  <1>7. k * (Rate + UsecPerSec) = Rate * k + UsecPerSec * k
    BY <1>1
  <1>8. UsecPerSec <= UsecPerSec * k
    BY <1>1
  <1>9. UsecPerSec * dp - UsecPerSec * m <= Rate * k + UsecPerSec * k
    BY <1>1, <1>2, <1>3, <1>4, <1>8
  <1> QED
    BY <1>2, <1>5, <1>6, <1>7, <1>9 DEF m

\* The drift a packet adds.
LEMMA DriftStep ==
    ASSUME AccuracyInv, NEW f \in air, Takes(f)
    PROVE  HistoryOK' /\ DriftBounded'
  <1> DEFINE n == queue'.write_index - queue.write_index
             m == Missing(f)
             U == UsecPerSec
             C == Rate + UsecPerSec
  <1>0. /\ OrderInv /\ GapsInv /\ HeardGaps /\ HistoryOK /\ DriftBounded
        /\ seqnb \in 0 .. SeqMod - 1 /\ last_pb_ts \in Nat /\ QueueOK(queue)
    BY DEF AccuracyInv, OrderInv, BaseInv, InputTypeOK
  <1>1. /\ f \in Frame /\ f.length >= 1 /\ heard.pos <= f.pos
        /\ heard.pos \in Nat
    BY <1>0, AcceptedIsNew DEF Takes, OrderInv, HeardOrder
  <1>2. /\ f.seq \in 0 .. SeqMod - 1 /\ f.pos \in Nat /\ f.length \in Nat
        /\ f.timestamp \in Nat /\ SeqMod \in Nat /\ f.seq >= 1
    BY <1>0, <1>1, FrameFacts, NetAssumption DEF GapsInv
  <1>3. m \in Nat /\ n \in Nat /\ n <= m + f.length
    <2>1. /\ m \in Nat /\ Appended(queue, queue', f.pos)
          /\ queue'.write_index <= queue.write_index + m + f.length
      BY DEF Takes
    <2>2. /\ queue'.write_index \in Nat /\ queue.write_index \in Nat
          /\ queue.write_index <= queue'.write_index
      BY <1>0, <2>1 DEF Appended, QueueOK
    <2> HIDE DEF m
    <2> QED
      BY <1>2, <2>1, <2>2
  <1>4. /\ seqnb' = f.seq
        /\ heard'.drift = IF seqnb = 0 THEN f.length - n
                          ELSE heard.drift + (f.pos + f.length - heard.pos) - n
        /\ heard'.lost = IF seqnb = 0 THEN 0
                         ELSE heard.lost + f.seq - seqnb - 1
        /\ heard'.overrun = (heard.overrun \/ n < m + f.length)
    BY DEF Takes, Hears
  <1>5. /\ heard'.overrun \in BOOLEAN
        /\ ~heard'.overrun => ~heard.overrun /\ ~(n < m + f.length)
    <2> HIDE DEF n, m
    <2> QED
      BY <1>4, Zenon
  <1>6. heard.drift \in Nat /\ heard.lost \in Nat
    BY <1>0 DEF HistoryOK
  <1>7. U \in Nat /\ C \in Nat
    BY RateAssumption
  <1> SUFFICES /\ heard'.drift \in Nat /\ heard'.lost \in Nat
               /\ ~heard'.overrun => heard'.drift * U <= heard'.lost * C
    BY <1>2, <1>4, <1>5 DEF HistoryOK, DriftBounded
  <1>8. CASE seqnb = 0
    <2>1. m = 0
      BY <1>8 DEF Missing, IsGap
    <2> HIDE DEF n, m, U, C
    <2>2. heard'.drift = f.length - n /\ heard'.lost = 0
      BY <1>4, <1>8
    <2>3. ~heard'.overrun => f.length - n = 0
      BY <1>2, <1>3, <1>5, <2>1
    <2>4. 0 * U <= 0 * C
      BY <1>7
    <2> QED
      BY <1>2, <1>3, <2>1, <2>2, <2>3, <2>4
  <1>9. CASE seqnb # 0
    <2> DEFINE k == f.seq - 1 - seqnb
               dp == f.pos - heard.pos
               dt == f.timestamp - last_pb_ts
    <2>1. Gap(seqnb, heard.pos, last_pb_ts, f.seq - 1, f.pos, f.timestamp)
      BY <1>0, <1>1, <1>9 DEF HeardGaps
    <2>2. /\ k \in Nat /\ dp \in Nat /\ dt \in Nat
          /\ k = 0 => dp = 0
          /\ Rate * dt <= U * dp /\ U * dp <= Rate * dt + Rate * k
      BY <1>0, <1>1, <1>2, <2>1 DEF Gap
    <2>3. /\ heard'.drift = heard.drift + dp + f.length - n
          /\ heard'.lost = heard.lost + k
      BY <1>0, <1>1, <1>2, <1>3, <1>4, <1>6, <1>9
    <2>4. (seqnb + 1) % SeqMod = seqnb + 1
      <3>1. seqnb + 1 \in Nat /\ seqnb + 1 < SeqMod
        BY <1>0, <1>2, <2>2
      <3> QED
        BY <1>2, <3>1
    <2>5. IsGap(f) <=> k >= 1
      BY <1>0, <1>2, <1>9, <2>2, <2>4 DEF IsGap
    <2>6. m <= dp /\ (dp - m) * U <= k * C
      <3>1. CASE k >= 1
        <4>1. m = pa_usec_to_bytes(dt)
          BY <2>5, <3>1 DEF Missing
        <4> HIDE DEF k, dp, dt, m
        <4> QED
          BY <2>2, <3>1, <4>1, GapSize
      <3>2. CASE k = 0
        <4>1. m = 0 /\ dp = 0
          BY <2>2, <2>5, <3>2 DEF Missing
        <4>2. (0 - 0) * U <= 0 * C
          BY <1>7
        <4> HIDE DEF k, dp, m
        <4> QED
          BY <3>2, <4>1, <4>2
      <3> QED
        BY <2>2, <3>1, <3>2
    <2> HIDE DEF k, dp, dt, m, n, U, C
    <2>7. heard'.drift \in Nat /\ heard'.lost \in Nat
      BY <1>2, <1>3, <1>6, <2>2, <2>3, <2>6
    <2>8. ASSUME ~heard'.overrun
          PROVE  heard'.drift * U <= heard'.lost * C
      <3>1. ~heard.overrun /\ n = m + f.length
        BY <1>2, <1>3, <1>5, <2>8
      <3>2. heard.drift * U <= heard.lost * C
        BY <1>0, <3>1 DEF DriftBounded, U, C
      <3>3. heard'.drift = heard.drift + (dp - m)
        BY <1>2, <1>3, <1>6, <2>2, <2>3, <3>1
      <3>4. /\ (heard.drift + (dp - m)) * U = heard.drift * U + (dp - m) * U
            /\ (heard.lost + k) * C = heard.lost * C + k * C
            /\ heard.drift * U \in Int /\ (dp - m) * U \in Int
            /\ heard.lost * C \in Int /\ k * C \in Int
        BY <1>3, <1>6, <1>7, <2>2
      <3> QED
        BY <2>3, <2>6, <3>2, <3>3, <3>4
    <2> QED
      BY <2>7, <2>8
  <1> QED
    BY <1>8, <1>9

LEMMA AccuracyInput ==
    ASSUME AccuracyInv, InputNext, UNCHANGED srcVars
    PROVE  GapsInv' /\ HeardGaps' /\ HistoryOK' /\ DriftBounded'
  <1>0. /\ OrderInv /\ SrcInv /\ InputTypeOK /\ QueueOK(queue)
        /\ GapsInv /\ HeardGaps /\ HistoryOK /\ DriftBounded
    BY DEF AccuracyInv, OrderInv, BaseInv
  <1>1. /\ air' = air /\ alive' = alive /\ iw_h' = iw_h
        /\ next_ts' = next_ts /\ next_pos' = next_pos
    BY DEF srcVars
  <1>2. GapsInv'
    BY <1>0, <1>1 DEF GapsInv, EndTs
  <1>3. CASE Reads
    <2>1. seqnb' = seqnb /\ last_pb_ts' = last_pb_ts /\ heard' = heard
      BY <1>3 DEF Reads
    <2>2. HeardGaps'
      BY <1>0, <1>1, <2>1 DEF HeardGaps
    <2>3. HistoryOK' /\ DriftBounded'
      BY <1>0, <2>1 DEF HistoryOK, DriftBounded
    <2> QED
      BY <1>2, <2>2, <2>3
  <1>4. CASE \E f \in air : Takes(f)
    <2>1. PICK f \in air : Takes(f)
      BY <1>4
    <2>2. HistoryOK' /\ DriftBounded'
      BY <2>1, DriftStep
    <2>3. /\ seqnb' = f.seq /\ last_pb_ts' = EndTs(f)
          /\ heard'.pos = f.pos + f.length
      BY <2>1 DEF Takes, Hears
    <2>4. f.pos \in Nat /\ f.length \in Nat /\ f.length >= 1
      <3>1. f \in Frame /\ f.length >= 1
        BY <1>0 DEF SrcInv, SrcTypeOK
      <3> QED
        BY <3>1, FrameFacts
    <2>5. ASSUME NEW g \in air, heard'.pos <= g.pos
          PROVE  f.pos < g.pos
      <3>1. g \in Frame
        BY <1>0 DEF SrcInv, SrcTypeOK
      <3>2. g.pos \in Nat
        BY <3>1, FrameFacts
      <3> QED
        BY <2>3, <2>4, <2>5, <3>2
    <2>6. HeardGaps'
      <3>1. alive => Gap(seqnb', heard'.pos, last_pb_ts',
                         iw_h.seq, next_pos, next_ts)
        BY <1>0, <2>3 DEF GapsInv
      <3>2. ASSUME NEW g \in air, heard'.pos <= g.pos
            PROVE  Gap(seqnb', heard'.pos, last_pb_ts',
                       g.seq - 1, g.pos, g.timestamp)
        BY <1>0, <2>3, <2>5, <3>2 DEF GapsInv
      <3> QED
        BY <1>1, <3>1, <3>2 DEF HeardGaps
    <2> QED
      BY <1>2, <2>2, <2>6
  <1> QED
    BY <1>0, <1>3, <1>4, InputSteps

LEMMA AccuracyInit ==
    ASSUME CastInit
    PROVE  AccuracyInv
  <1>1. OrderInv
    BY OrderInit
  <1>2. air = {} /\ seqnb = 0 /\ last_pb_ts = 0
    BY DEF CastInit, SrcInit, iwab_setup, InputInit
  <1>3. heard.drift = 0 /\ heard.lost = 0 /\ heard.overrun = FALSE
    BY DEF CastInit, InputInit
  <1>4. DriftBounded
    <2>1. UsecPerSec \in Nat /\ Rate + UsecPerSec \in Nat
      BY RateAssumption
    <2>2. 0 * UsecPerSec <= 0 * (Rate + UsecPerSec)
      BY <2>1
    <2> QED
      BY <1>3, <2>2 DEF DriftBounded
  <1>5. HistoryOK
    <2>1. 0 \in Nat
      OBVIOUS
    <2> QED
      BY <1>2, <1>3, <2>1, Zenon DEF HistoryOK
  <1> QED
    BY <1>1, <1>2, <1>4, <1>5 DEF AccuracyInv, GapsInv, HeardGaps

LEMMA AccuracyNext ==
    ASSUME ~Resumable, AccuracyInv, [CastNext]_castVars,
           [iw_h'.seq >= iw_h.seq]_castVars
    PROVE  AccuracyInv'
  <1>1. OrderInv'
    BY OrderNext DEF AccuracyInv
  <1>2. CASE UNCHANGED castVars
    <2>1. GapsInv' /\ HeardGaps'
      BY <1>2 DEF castVars, srcVars, inputVars, AccuracyInv, GapsInv,
                  HeardGaps, EndTs
    <2>2. HistoryOK' /\ DriftBounded'
      BY <1>2 DEF castVars, inputVars, AccuracyInv, HistoryOK, DriftBounded
    <2> QED
      BY <1>1, <2>1, <2>2 DEF AccuracyInv
  <1>3. CASE SrcNext /\ UNCHANGED inputVars /\ iw_h'.seq >= iw_h.seq
    <2>1. GapsInv' /\ HeardGaps'
      BY <1>3, GapsSource
    <2>2. HistoryOK' /\ DriftBounded'
      BY <1>3 DEF inputVars, AccuracyInv, HistoryOK, DriftBounded
    <2> QED
      BY <1>1, <2>1, <2>2 DEF AccuracyInv
  <1>4. CASE InputNext /\ UNCHANGED srcVars
    BY <1>1, <1>4, AccuracyInput DEF AccuracyInv
  <1> QED
    BY <1>2, <1>3, <1>4 DEF CastNext

LEMMA AccuracyHolds ==
    ASSUME ~Resumable
    PROVE  CastSpec /\ NoWrap => []AccuracyInv
  <1>1. /\ AccuracyInv /\ [CastNext]_castVars
        /\ [iw_h'.seq >= iw_h.seq]_castVars
        => AccuracyInv'
    BY AccuracyNext
  <1> QED
    BY <1>1, AccuracyInit, PTL DEF CastSpec, NoWrap

\* While the sender is not resumed and its uint32_t sequence counter has not
\* wrapped, rtpoll_work_cb never takes the newest audio for a repetition or a
\* disordered packet, whatever it missed before.
THEOREM NewestAccepted ==
    ~Resumable => (CastSpec /\ NoWrap => []NewestIsAccepted)
  <1> SUFFICES ASSUME ~Resumable
               PROVE  CastSpec /\ NoWrap => []NewestIsAccepted
    OBVIOUS
  <1>1. AccuracyInv => NewestIsAccepted
    <2> SUFFICES ASSUME AccuracyInv, NEW f \in air, f.pos >= heard.pos
                 PROVE  Accepts(f)
      BY DEF NewestIsAccepted
    <2>1. /\ f \in Frame /\ heard.pos \in Nat /\ f.seq >= 1
          /\ seqnb = 0 => last_pb_ts = 0
          /\ seqnb \in Nat /\ last_pb_ts \in Nat
      <3>1. seqnb \in 0 .. SeqMod - 1 /\ SeqMod \in Nat
        BY NetAssumption DEF AccuracyInv, OrderInv, BaseInv, InputTypeOK
      <3> QED
        BY <3>1 DEF AccuracyInv, OrderInv, BaseInv, SrcInv, SrcTypeOK,
                    InputTypeOK, HeardOrder, GapsInv, HistoryOK
    <2>2. f.pos \in Nat /\ f.timestamp \in Nat /\ f.seq \in Nat
      <3>1. f.seq \in 0 .. SeqMod - 1 /\ SeqMod \in Nat
        BY <2>1, FrameFacts, NetAssumption
      <3> QED
        BY <2>1, <3>1, FrameFacts
    <2>3. CASE seqnb = 0
      BY <2>1, <2>2, <2>3 DEF Accepts
    <2>4. CASE seqnb # 0
      <3>1. Gap(seqnb, heard.pos, last_pb_ts, f.seq - 1, f.pos, f.timestamp)
        BY <2>1, <2>2, <2>4 DEF AccuracyInv, HeardGaps
      <3>2. seqnb <= f.seq - 1 /\ last_pb_ts <= f.timestamp
        BY <3>1 DEF Gap
      <3> QED
        BY <2>1, <2>2, <3>2 DEF Accepts
    <2> QED
      BY <2>3, <2>4
  <1> QED
    BY <1>1, AccuracyHolds, PTL

\* Under the same conditions what rtpoll_work_cb inserts for lost packets never
\* exceeds what was lost, and, unless the memblockq refused some of it, falls
\* short of it by at most a frame and one clock unit for each lost packet.
THEOREM DriftStaysBounded ==
    ~Resumable => (CastSpec /\ NoWrap => []DriftBounded)
  <1> SUFFICES ASSUME ~Resumable
               PROVE  CastSpec /\ NoWrap => []DriftBounded
    OBVIOUS
  <1>1. AccuracyInv => DriftBounded
    BY DEF AccuracyInv
  <1> QED
    BY <1>1, AccuracyHolds, PTL
=============================================================================
