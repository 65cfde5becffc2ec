--------------------------- MODULE IwabSinkProofs ---------------------------
(***************************************************************************)
(* Proofs about the sender, for every rate, packet size, set of latencies, *)
(* sequence-number width and bound.                                        *)
(***************************************************************************)
EXTENDS IwabSink, TLAPS

-----------------------------------------------------------------------------
(* The conversions of SampleSpec.                                          *)

\* Truncating division: the facts about \div everything below rests on.
LEMMA DivFacts ==
    ASSUME NEW a \in Nat, NEW b \in Nat \ {0}
    PROVE  /\ a \div b \in Nat
           /\ b * (a \div b) <= a
           /\ a < b * (a \div b) + b
  OBVIOUS

\* A number of frames lasts a natural number of clock units.
LEMMA BytesToUsecType ==
    ASSUME NEW n \in Nat
    PROVE  pa_bytes_to_usec(n) \in Nat
  <1>1. n * UsecPerSec \in Nat
    BY RateAssumption
  <1> QED
    BY <1>1, DivFacts, RateAssumption DEF pa_bytes_to_usec

\* A latency between one frame and the duration of MaxFrame frames converts
\* to at least one and at most MaxFrame frames.
LEMMA LatencyFits ==
    ASSUME NEW l \in Latencies
    PROVE  pa_usec_to_bytes(l) \in 1 .. MaxFrame
  <1> DEFINE q == (l * Rate) \div UsecPerSec
             d == (MaxFrame * UsecPerSec) \div Rate
  <1>1. /\ l \in Nat /\ l <= d /\ UsecPerSec <= l * Rate
        /\ MaxFrame \in Nat /\ Rate \in Nat \ {0} /\ UsecPerSec \in Nat \ {0}
    BY SinkAssumption, RateAssumption DEF pa_bytes_to_usec
  <1>2. l * Rate \in Nat /\ MaxFrame * UsecPerSec \in Nat
    BY <1>1
  <1>3. q \in Nat /\ UsecPerSec * q <= l * Rate /\ l * Rate < UsecPerSec * q + UsecPerSec
    BY <1>1, <1>2, DivFacts
  <1>4. d \in Nat /\ Rate * d <= MaxFrame * UsecPerSec
    BY <1>1, <1>2, DivFacts
  <1> HIDE DEF q, d
  <1>5. q >= 1
    BY <1>1, <1>2, <1>3
  <1>6. l * Rate <= Rate * d
    BY <1>1, <1>4
  <1>7. UsecPerSec * q <= UsecPerSec * MaxFrame
    BY <1>1, <1>2, <1>3, <1>4, <1>6
  <1>8. q <= MaxFrame
    BY <1>1, <1>3, <1>7
  <1> QED
    BY <1>1, <1>3, <1>5, <1>8 DEF q, pa_usec_to_bytes
-----------------------------------------------------------------------------
(***************************************************************************)
(* The inductive invariant, part by part.                                  *)
(***************************************************************************)
\* Who waits for what: the main thread publishes the sink before anything
\* else, and requests go out only while the sink is linked.
MessageInv ==
    /\ mpc = "init" => inq = NoMsg /\ state = "INIT"
    /\ mpc = "up" => Linked(s_state)
    /\ inq.code = "SET_STATE" => inq.st = s_state
    /\ inq.code # "SET_STATE" /\ mpc # "init" => state = s_state
    /\ inq.code \in {"REWIND", "GET_LATENCY", "UPDATE_LATENCY"} => mpc = "up"

\* What u->chunk holds is determined by the retry counter.
ChunkInv ==
    /\ refs >= 0
    /\ retries = 1 => /\ chunk # NoChunk /\ refs > 0
                      /\ chunk.pos + chunk.length = render_pos
    /\ retries = 0 /\ pc \in {"loop", "run", "poll"} => stream_ts_abs <= now

\* A rewind request lives from its message to the next loop iteration.
RewindInv ==
    /\ pc \in {"start", "run", "poll"} => ~rewind_requested
    /\ RewindOnlyWhileLinked

\* The timer is armed before the thread goes to sleep.
TimerInv ==
    pc \in {"run", "poll"} /\ Opened(state) => /\ timer # Disabled
                                             /\ timer <= stream_ts_abs

\* Neither the next packet nor the ones under way exceed MaxFrame.
FitInv ==
    /\ max_request \in 1 .. MaxFrame
    /\ chunk.length <= MaxFrame
    /\ FrameFits

SinkInv == /\ SinkTypeOK /\ MessageInv /\ ChunkInv /\ RewindInv /\ TimerInv
           /\ FitInv

-----------------------------------------------------------------------------
(* Every step keeps the invariant.                                         *)

\* Sending keeps the header and the air well-formed, and adds to the air at
\* most a frame that carries the chunk.
LEMMA SendFacts ==
    ASSUME NEW ok \in BOOLEAN, NEW c \in Chunk, NEW ts \in Nat,
           NEW r \in 0 .. 1,
           iw_h \in Header, air \subseteq Frame,
           iwab_send(ok, c, ts, r)
    PROVE  /\ iw_h' \in Header
           /\ air' \subseteq Frame
           /\ \A f \in air' : f \in air \/ f.length = c.length
  <1> DEFINE h == SendHeader(ts, r)
  <1>1. (iw_h.seq + 1) % SeqMod \in 0 .. SeqMod - 1
    BY NetAssumption DEF Header
  <1>2. h \in Header
    BY <1>1 DEF SendHeader, Header
  <1>3. FrameOf(h, c) \in Frame /\ FrameOf(h, c).length = c.length
    BY <1>2 DEF FrameOf, Header, Frame, Chunk
  <1>4. air' \subseteq air \cup {FrameOf(h, c)} /\ iw_h' = h
    BY DEF iwab_send, Fade
  <1> QED
    BY <1>2, <1>3, <1>4

\* A rendered chunk is no longer than a packet.
LEMMA RenderFacts ==
    ASSUME SinkInv, NEW n \in 1 .. RenderMax
    PROVE  /\ n \in Nat \ {0} /\ n <= MaxFrame
           /\ [pos |-> render_pos, length |-> n] \in Chunk
           /\ [pos |-> render_pos, length |-> n] # NoChunk
           /\ pa_bytes_to_usec(n) \in Nat
           /\ pa_bytes_to_usec(n) \div 2 \in Nat
           /\ pa_bytes_to_usec(n) \div 2 <= pa_bytes_to_usec(n)
  <1>1. n \in Nat \ {0} /\ n <= MaxFrame
    BY SinkAssumption DEF SinkInv, FitInv, RenderMax
  <1>2. pa_bytes_to_usec(n) \in Nat
    BY <1>1, BytesToUsecType
  <1>3. render_pos \in Nat
    BY DEF SinkInv, SinkTypeOK, StreamTypeOK
  <1> QED
    BY <1>1, <1>2, <1>3 DEF Chunk, NoChunk

\* The initial states satisfy the invariant.
LEMMA InitInv == SinkInit => SinkInv
  <1> SUFFICES ASSUME SinkInit PROVE SinkInv
    OBVIOUS
  <1>1. SinkTypeOK
    <2>1. iw_h \in Header /\ air \subseteq Frame /\ chunk \in Chunk
      BY NetAssumption DEF SinkInit, iwab_setup, Header, Chunk, NoChunk
    <2>2. MessageTypeOK
      BY DEF SinkInit, MessageTypeOK, NoMsg, Plain
    <2>3. MainTypeOK /\ ThreadTypeOK
      BY DEF SinkInit, MainTypeOK, ThreadTypeOK
    <2>4. StreamTypeOK
      BY <2>1, SinkAssumption DEF SinkInit, StreamTypeOK
    <2> QED
      BY <2>1, <2>2, <2>3, <2>4 DEF SinkTypeOK
  <1>2. MessageInv /\ ChunkInv /\ RewindInv /\ TimerInv
    BY DEF SinkInit, MessageInv, ChunkInv, RewindInv, TimerInv,
           RewindOnlyWhileLinked, NoMsg, Plain
  <1>3. FitInv
    BY SinkAssumption DEF SinkInit, FitInv, FrameFits, iwab_setup, NoChunk
  <1> QED
    BY <1>1, <1>2, <1>3 DEF SinkInv

\* A step of the main thread leaves the real-time thread's half of the
\* invariant alone.
LEMMA MainKeeps ==
    ASSUME SinkInv, UNCHANGED mainFrame
    PROVE  /\ ThreadTypeOK' /\ StreamTypeOK'
           /\ iw_h' \in Header /\ air' \subseteq Frame
           /\ ChunkInv' /\ RewindInv' /\ TimerInv' /\ FitInv'
  <1> USE DEF mainFrame, threadInfo, streamVars, netVars, SinkInv, SinkTypeOK
  <1>1. ThreadTypeOK'
    BY DEF ThreadTypeOK
  <1>2. StreamTypeOK' /\ iw_h' \in Header /\ air' \subseteq Frame
    BY DEF StreamTypeOK
  <1>3. ChunkInv'
    BY DEF ChunkInv
  <1>4. RewindInv'
    BY DEF RewindInv, RewindOnlyWhileLinked, Linked
  <1>5. TimerInv'
    BY DEF TimerInv, Opened
  <1>6. FitInv'
    BY DEF FitInv, FrameFits
  <1> QED
    BY <1>1, <1>2, <1>3, <1>4, <1>5, <1>6

\* The messages the main thread sends are well-formed.
LEMMA MessageTypes ==
    /\ \A s \in {"RUNNING", "IDLE", "SUSPENDED", "UNLINKED"} :
          inq' = SetStateMsg(s) =>
              MessageTypeOK' /\ inq'.code = "SET_STATE" /\ inq'.st = s
    /\ \A l \in Latencies \cup {-1} :
          inq' = LatencyMsg(l) =>
              MessageTypeOK' /\ inq'.code = "UPDATE_LATENCY"
    /\ \A code \in {"GET_LATENCY", "REWIND", "SHUTDOWN"} :
          inq' = Plain(code) => MessageTypeOK' /\ inq'.code = code
    /\ inq' = NoMsg => MessageTypeOK' /\ inq'.code = "NONE"
  <1> USE DEF MessageTypeOK, Plain, NoMsg
  <1>1. \A s \in {"RUNNING", "IDLE", "SUSPENDED", "UNLINKED"} :
          inq' = SetStateMsg(s) =>
              MessageTypeOK' /\ inq'.code = "SET_STATE" /\ inq'.st = s
    BY DEF SetStateMsg
  <1>2. \A l \in Latencies \cup {-1} :
          inq' = LatencyMsg(l) =>
              MessageTypeOK' /\ inq'.code = "UPDATE_LATENCY"
    <2> SUFFICES ASSUME NEW l \in Latencies \cup {-1}, inq' = LatencyMsg(l)
                 PROVE  MessageTypeOK' /\ inq'.code = "UPDATE_LATENCY"
      OBVIOUS
    <2>1. l \in Int
      BY SinkAssumption
    <2> QED
      BY <2>1 DEF LatencyMsg
  <1>3. \A code \in {"GET_LATENCY", "REWIND", "SHUTDOWN"} :
          inq' = Plain(code) => MessageTypeOK' /\ inq'.code = code
    OBVIOUS
  <1>4. inq' = NoMsg => MessageTypeOK' /\ inq'.code = "NONE"
    OBVIOUS
  <1> QED
    BY <1>1, <1>2, <1>3, <1>4

\* The invariant survives every step of the main thread.
LEMMA MainInv ==
    ASSUME SinkInv, Main
    PROVE  SinkInv'
  <1>0. /\ MainTypeOK /\ MessageTypeOK /\ MessageInv /\ NoMsg.code = "NONE"
        /\ Linked("RUNNING") /\ Linked("IDLE") /\ Linked("SUSPENDED")
    BY DEF SinkInv, SinkTypeOK, NoMsg, Plain, Linked
  <1> SUFFICES /\ UNCHANGED mainFrame
               /\ MainTypeOK' /\ MessageTypeOK' /\ MessageInv'
    BY MainKeeps DEF SinkInv, SinkTypeOK
  <1>1. ASSUME NEW s \in {"IDLE", "SUSPENDED"}, pa_sink_put(s)
        PROVE  /\ UNCHANGED mainFrame
               /\ MainTypeOK' /\ MessageTypeOK' /\ MessageInv'
    <2>1. MessageTypeOK' /\ inq'.code = "SET_STATE" /\ inq'.st = s
      BY <1>1, MessageTypes DEF pa_sink_put, Send
    <2>2. MainTypeOK' /\ UNCHANGED mainFrame
      BY <1>0, <1>1 DEF pa_sink_put, MainTypeOK
    <2> QED
      BY <1>0, <1>1, <2>1, <2>2 DEF pa_sink_put, MessageInv, Linked
  <1>2. ASSUME NEW s \in {"RUNNING", "IDLE", "SUSPENDED"}, sink_set_state(s)
        PROVE  /\ UNCHANGED mainFrame
               /\ MainTypeOK' /\ MessageTypeOK' /\ MessageInv'
    <2>1. MessageTypeOK' /\ inq'.code = "SET_STATE" /\ inq'.st = s
      BY <1>2, MessageTypes DEF sink_set_state, Send
    <2>2. MainTypeOK' /\ UNCHANGED mainFrame
      BY <1>0, <1>2 DEF sink_set_state, MainTypeOK
    <2> QED
      BY <1>0, <1>2, <2>1, <2>2 DEF sink_set_state, MessageInv, Linked
  <1>3. ASSUME NEW m, SendRequest(m), MessageTypeOK', inq'.code # "SET_STATE"
        PROVE  /\ UNCHANGED mainFrame
               /\ MainTypeOK' /\ MessageTypeOK' /\ MessageInv'
    <2>1. MainTypeOK' /\ UNCHANGED mainFrame
      BY <1>0, <1>3 DEF SendRequest, MainTypeOK
    <2> QED
      BY <1>0, <1>3, <2>1
      DEF SendRequest, Send, MessageInv, Linked, mainFrame, threadInfo
  <1>4. ASSUME Unload
        PROVE  /\ UNCHANGED mainFrame
               /\ MainTypeOK' /\ MessageTypeOK' /\ MessageInv'
    <2>1. MessageTypeOK' /\ inq'.code = "SET_STATE" /\ inq'.st = "UNLINKED"
      BY <1>4, MessageTypes DEF Unload, Send
    <2>2. MainTypeOK' /\ UNCHANGED mainFrame
      BY <1>0, <1>4 DEF Unload, MainTypeOK
    <2> QED
      BY <1>0, <1>4, <2>1, <2>2 DEF Unload, MessageInv
  <1>5. ASSUME SendShutdown
        PROVE  /\ UNCHANGED mainFrame
               /\ MainTypeOK' /\ MessageTypeOK' /\ MessageInv'
    <2>1. MessageTypeOK' /\ inq'.code = "SHUTDOWN"
      BY <1>5, MessageTypes DEF SendShutdown, Send
    <2>2. MainTypeOK' /\ UNCHANGED mainFrame
      BY <1>0, <1>5 DEF SendShutdown, MainTypeOK
    <2> QED
      BY <1>0, <1>5, <2>1, <2>2
      DEF SendShutdown, Send, MessageInv, mainFrame, threadInfo
  <1>6. ASSUME Free
        PROVE  /\ UNCHANGED mainFrame
               /\ MainTypeOK' /\ MessageTypeOK' /\ MessageInv'
    <2>1. MainTypeOK' /\ UNCHANGED mainFrame
      BY <1>0, <1>6 DEF Free, MainTypeOK
    <2>2. MessageTypeOK' /\ inq'.code = "NONE"
      BY <1>6, MessageTypes DEF Free
    <2> QED
      BY <1>0, <1>6, <2>1, <2>2
      DEF Free, MessageInv, mainFrame, threadInfo
  <1>7. \A code \in {"GET_LATENCY", "REWIND"} : SendRequest(Plain(code)) =>
            MessageTypeOK' /\ inq'.code # "SET_STATE"
    BY MessageTypes DEF SendRequest, Send
  <1>8. \A l \in Latencies \cup {-1} : SendRequest(LatencyMsg(l)) =>
            MessageTypeOK' /\ inq'.code # "SET_STATE"
    BY MessageTypes DEF SendRequest, Send
  <1> QED
    BY <1>1, <1>2, <1>3, <1>4, <1>5, <1>6, <1>7, <1>8 DEF Main

\* A step that leaves the messages and the sink's state alone keeps the main
\* thread's half of the invariant.
LEMMA ThreadKeeps ==
    ASSUME SinkInv, UNCHANGED <<mainVars, inq, state>>
    PROVE  MainTypeOK' /\ MessageTypeOK' /\ MessageInv'
  <1> USE DEF mainVars, SinkInv, SinkTypeOK
  <1>1. MainTypeOK'
    BY DEF MainTypeOK
  <1>2. MessageTypeOK'
    BY DEF MessageTypeOK, NoMsg, Plain
  <1>3. MessageInv'
    BY DEF MessageInv, Linked, NoMsg, Plain
  <1> QED
    BY <1>1, <1>2, <1>3

\* Handling a message keeps the invariant, in the loop and after a failure.
LEMMA DispatchInv ==
    ASSUME SinkInv, Dispatch,
           \/ pc = "run" /\ pc' \in {"loop", "done"}
           \/ pc = "fail" /\ pc' \in {"fail", "done"}
    PROVE  SinkInv'
  <1>0. /\ MainTypeOK /\ MessageTypeOK /\ ThreadTypeOK /\ StreamTypeOK
        /\ iw_h \in Header /\ air \subseteq Frame
        /\ MessageInv /\ ChunkInv /\ RewindInv /\ TimerInv /\ FitInv
    BY DEF SinkInv, SinkTypeOK
  <1>1. /\ UNCHANGED <<now, mpc, s_state, calls, unload_posted, retries, chunk>>
        /\ UNCHANGED <<stream_resend_abs, render_pos, refs, timer, iw_h, air>>
        /\ inq' = NoMsg /\ inq # NoMsg /\ inq.code # "NONE"
    BY <1>0 DEF Dispatch, mainVars, netVars, MessageTypeOK
  <1>2. /\ state' \in {"INIT", "RUNNING", "IDLE", "SUSPENDED", "UNLINKED"}
        /\ state' = s_state
        /\ stream_ts_abs' \in {stream_ts_abs, now}
    <2>1. CASE inq.code = "SET_STATE"
      BY <1>0, <1>1, <2>1
      DEF Dispatch, HandleSetState, sink_set_state_in_io_thread_cb, MessageInv,
          MessageTypeOK
    <2>2. CASE inq.code # "SET_STATE"
      BY <1>0, <1>1, <2>2
      DEF Dispatch, HandleLatency, HandleRewind, MessageInv, ThreadTypeOK,
          threadInfo
    <2> QED
      BY <2>1, <2>2
  <1>3. max_request' \in 1 .. MaxFrame
    <2>1. CASE inq.code = "UPDATE_LATENCY"
      <3>1. inq.usec \in Latencies \cup {-1}
        BY <1>0, <2>1 DEF MessageTypeOK
      <3>2. max_request' = IF inq.usec = -1 THEN MaxFrame
                                            ELSE pa_usec_to_bytes(inq.usec)
        BY <2>1 DEF Dispatch, HandleLatency
      <3> QED
        BY <3>1, <3>2, LatencyFits, SinkAssumption
    <2>2. CASE inq.code # "UPDATE_LATENCY"
      BY <1>0, <2>2 DEF Dispatch, HandleSetState, HandleRewind, threadInfo, FitInv
    <2> QED
      BY <2>1, <2>2
  <1>4. rewind_requested' \in BOOLEAN
    BY <1>0 DEF Dispatch, HandleSetState, HandleLatency, HandleRewind,
                threadInfo, ThreadTypeOK
  <1>5. pc = "run" /\ rewind_requested' => Linked(state')
    <2>1. CASE inq.code = "REWIND"
      BY <1>0, <1>1, <1>2, <2>1 DEF MessageInv, Linked
    <2>2. CASE inq.code # "REWIND"
      BY <1>0, <2>2
      DEF Dispatch, HandleSetState, HandleLatency, threadInfo, RewindInv
    <2> QED
      BY <2>1, <2>2
  <1>6. MainTypeOK' /\ MessageTypeOK'
    BY <1>0, <1>1, MessageTypes DEF MainTypeOK
  <1>7. ThreadTypeOK'
    BY <1>0, <1>1, <1>2, <1>4 DEF ThreadTypeOK
  <1>8. StreamTypeOK' /\ iw_h' \in Header /\ air' \subseteq Frame
    BY <1>0, <1>1, <1>2, <1>3, SinkAssumption DEF StreamTypeOK
  <1>9. MessageInv'
    <2>1. mpc # "init"
      BY <1>0, <1>1 DEF MessageInv
    <2>2. inq'.code = "NONE"
      BY <1>1, MessageTypes
    <2> QED
      BY <1>0, <1>1, <1>2, <2>1, <2>2 DEF MessageInv, Linked
  <1>10. ChunkInv'
    BY <1>0, <1>1, <1>2 DEF ChunkInv, StreamTypeOK
  <1>11. RewindInv' /\ TimerInv'
    BY <1>5 DEF RewindInv, RewindOnlyWhileLinked, TimerInv, Linked
  <1>12. FitInv'
    BY <1>0, <1>1, <1>3 DEF FitInv, FrameFits
  <1> QED
    BY <1>6, <1>7, <1>8, <1>9, <1>10, <1>11, <1>12 DEF SinkInv, SinkTypeOK

\* Rendering and sending the next packet keeps the invariant.
LEMMA RenderInv ==
    ASSUME SinkInv, NEW n \in 1 .. RenderMax, NEW ok \in BOOLEAN,
           RenderAndSend(n, ok)
    PROVE  SinkInv'
  <1> DEFINE c == [pos |-> render_pos, length |-> n]
             t == pa_bytes_to_usec(n)
  <1>0. /\ ThreadTypeOK /\ StreamTypeOK
        /\ iw_h \in Header /\ air \subseteq Frame
        /\ ChunkInv /\ FitInv
    BY DEF SinkInv, SinkTypeOK
  <1>1. /\ n \in Nat \ {0} /\ n <= MaxFrame /\ c \in Chunk /\ c # NoChunk
        /\ t \in Nat /\ t \div 2 \in Nat /\ t \div 2 <= t
    BY RenderFacts
  <1> HIDE DEF t
  <1>2. /\ UNCHANGED <<now, mainVars, inq, state, max_request>>
        /\ rewind_requested' = FALSE
        /\ chunk' = c /\ render_pos' = render_pos + n /\ refs' = refs + 1
        /\ iwab_send(ok, c, stream_ts_abs, 0)
        /\ stream_ts_abs <= now
    BY <1>0 DEF RenderAndSend, threadFrame, StreamTypeOK
  <1>3. \/ /\ retries' = 1 /\ pc' = "run" /\ UNCHANGED unload_posted
           /\ stream_resend_abs' = stream_ts_abs + t \div 2
           /\ stream_ts_abs' = stream_ts_abs + t
           /\ timer' = stream_resend_abs'
        \/ /\ retries' = 0 /\ pc' = "fail" /\ unload_posted' = TRUE
           /\ UNCHANGED <<stream_resend_abs, stream_ts_abs, timer>>
    BY DEF RenderAndSend, Fail, t
  <1>4. MainTypeOK' /\ MessageTypeOK' /\ MessageInv'
    BY <1>2, ThreadKeeps
  <1>5. ThreadTypeOK'
    BY <1>0, <1>2, <1>3 DEF ThreadTypeOK
  <1>6. StreamTypeOK'
    BY <1>0, <1>1, <1>2, <1>3 DEF StreamTypeOK
  <1>7. /\ iw_h' \in Header /\ air' \subseteq Frame
        /\ \A f \in air' : f \in air \/ f.length = c.length
    <2>1. 0 \in 0 .. 1 /\ stream_ts_abs \in Nat
      BY <1>0 DEF StreamTypeOK
    <2> QED
      BY <1>0, <1>1, <1>2, <2>1, SendFacts
  <1>8. ChunkInv'
    BY <1>0, <1>1, <1>2, <1>3 DEF ChunkInv, StreamTypeOK
  <1>9. RewindInv'
    BY <1>2 DEF RewindInv, RewindOnlyWhileLinked
  <1>10. TimerInv'
    BY <1>0, <1>1, <1>3 DEF TimerInv, StreamTypeOK, Disabled
  <1>11. FitInv'
    BY <1>0, <1>1, <1>2, <1>7 DEF FitInv, FrameFits
  <1> QED
    BY <1>4, <1>5, <1>6, <1>7, <1>8, <1>9, <1>10, <1>11 DEF SinkInv, SinkTypeOK

\* The second transmission keeps the invariant; it only happens after a first
\* one, because a packet that was never sent is due already.
LEMMA ResendInv ==
    ASSUME SinkInv, NEW ok \in BOOLEAN, Resend(ok)
    PROVE  SinkInv' /\ retries = 1
  <1>0. /\ ThreadTypeOK /\ StreamTypeOK
        /\ iw_h \in Header /\ air \subseteq Frame
        /\ ChunkInv /\ FitInv
    BY DEF SinkInv, SinkTypeOK
  <1>1. retries = 1
    BY <1>0 DEF Resend, ChunkInv, StreamTypeOK
  <1>2. /\ UNCHANGED <<now, mainVars, inq, state, max_request>>
        /\ UNCHANGED <<stream_ts_abs, stream_resend_abs, render_pos>>
        /\ rewind_requested' = FALSE
        /\ iwab_send(ok, chunk, iw_h.timestamp, 1)
    BY <1>1 DEF Resend, threadFrame
  <1>3. \/ /\ retries' = 2 /\ pc' = "run" /\ UNCHANGED unload_posted
           /\ chunk' = NoChunk /\ refs' = refs - 1
           /\ timer' = stream_ts_abs
        \/ /\ retries' = 1 /\ pc' = "fail" /\ unload_posted' = TRUE
           /\ UNCHANGED <<chunk, refs, timer>>
    BY <1>1 DEF Resend, Fail
  <1>4. MainTypeOK' /\ MessageTypeOK' /\ MessageInv'
    BY <1>2, ThreadKeeps
  <1>5. ThreadTypeOK'
    BY <1>0, <1>2, <1>3 DEF ThreadTypeOK
  <1>6. StreamTypeOK'
    BY <1>0, <1>1, <1>2, <1>3 DEF StreamTypeOK, Chunk, NoChunk
  <1>7. /\ iw_h' \in Header /\ air' \subseteq Frame
        /\ \A f \in air' : f \in air \/ f.length = chunk.length
    <2>1. 1 \in 0 .. 1 /\ iw_h.timestamp \in Nat /\ chunk \in Chunk
      BY <1>0 DEF StreamTypeOK, Header
    <2> QED
      BY <1>0, <1>2, <2>1, SendFacts
  <1>8. ChunkInv'
    BY <1>0, <1>1, <1>2, <1>3 DEF ChunkInv, StreamTypeOK
  <1>9. RewindInv'
    BY <1>2 DEF RewindInv, RewindOnlyWhileLinked
  <1>10. TimerInv'
    BY <1>0, <1>2, <1>3 DEF TimerInv, StreamTypeOK, Disabled
  <1>11. FitInv'
    BY <1>0, <1>2, <1>3, <1>7, SinkAssumption DEF FitInv, FrameFits, NoChunk
  <1> QED
    BY <1>1, <1>4, <1>5, <1>6, <1>7, <1>8, <1>9, <1>10, <1>11
    DEF SinkInv, SinkTypeOK

\* The steps of the real-time thread that neither send nor handle a message.
LEMMA QuietInv ==
    ASSUME SinkInv,
           \/ ThreadStart \/ NothingDue \/ NotOpened
           \/ PollSleep \/ PollWake \/ PollFail
    PROVE  SinkInv'
  <1>0. /\ ThreadTypeOK /\ StreamTypeOK
        /\ iw_h \in Header /\ air \subseteq Frame
        /\ ChunkInv /\ RewindInv /\ TimerInv /\ FitInv
    BY DEF SinkInv, SinkTypeOK
  <1> USE DEF ThreadStart, NothingDue, NotOpened, PollSleep, PollWake, PollFail,
              Fail, threadFrame, streamVars, netVars
  <1>1. /\ UNCHANGED <<now, mainVars, inq, state, max_request>>
        /\ UNCHANGED <<stream_resend_abs, chunk, render_pos, refs, iw_h, air>>
    OBVIOUS
  <1>2. MainTypeOK' /\ MessageTypeOK' /\ MessageInv'
    BY <1>1, ThreadKeeps
  <1>3. ThreadTypeOK'
    BY <1>0 DEF ThreadTypeOK
  <1>4. StreamTypeOK' /\ iw_h' \in Header /\ air' \subseteq Frame
    BY <1>0 DEF StreamTypeOK
  <1>5. ChunkInv'
    BY <1>0 DEF ChunkInv, StreamTypeOK
  <1>6. RewindInv'
    BY <1>0 DEF RewindInv, RewindOnlyWhileLinked, Linked, ThreadTypeOK
  <1>7. TimerInv'
    BY <1>0 DEF TimerInv, Opened, StreamTypeOK, Disabled
  <1>8. FitInv'
    BY <1>0, <1>1 DEF FitInv, FrameFits
  <1> QED
    BY <1>2, <1>3, <1>4, <1>5, <1>6, <1>7, <1>8 DEF SinkInv, SinkTypeOK

\* The passage of time, and steps that change nothing.
LEMMA TickInv ==
    ASSUME SinkInv, Tick \/ UNCHANGED sinkVars
    PROVE  SinkInv'
  <1>0. /\ ThreadTypeOK /\ StreamTypeOK
        /\ iw_h \in Header /\ air \subseteq Frame
        /\ ChunkInv /\ RewindInv /\ TimerInv /\ FitInv
    BY DEF SinkInv, SinkTypeOK
  <1>1. /\ now' \in {now, now + 1}
        /\ UNCHANGED <<mainVars, inq, unload_posted, pc, threadInfo, streamVars,
                       timer, netVars>>
    BY DEF Tick, sinkVars
  <1>2. MainTypeOK' /\ MessageTypeOK' /\ MessageInv'
    BY <1>1, ThreadKeeps DEF threadInfo
  <1> USE <1>0, <1>1 DEF threadInfo, streamVars, netVars
  <1>3. ThreadTypeOK'
    BY DEF ThreadTypeOK
  <1>4. StreamTypeOK' /\ iw_h' \in Header /\ air' \subseteq Frame
    BY DEF StreamTypeOK
  <1>5. ChunkInv'
    BY DEF ChunkInv, StreamTypeOK
  <1>6. RewindInv' /\ TimerInv'
    BY DEF RewindInv, RewindOnlyWhileLinked, Linked, TimerInv, Opened
  <1>7. FitInv'
    BY DEF FitInv, FrameFits
  <1> QED
    BY <1>2, <1>3, <1>4, <1>5, <1>6, <1>7 DEF SinkInv, SinkTypeOK

\* Every step keeps the invariant.
LEMMA NextInv == SinkInv /\ [SinkNext]_sinkVars => SinkInv'
  <1> SUFFICES ASSUME SinkInv, [SinkNext]_sinkVars PROVE SinkInv'
    OBVIOUS
  <1>1. CASE Main
    BY <1>1, MainInv
  <1>2. CASE \E n \in 1 .. RenderMax, ok \in BOOLEAN : RenderAndSend(n, ok)
    BY <1>2, RenderInv
  <1>3. CASE \E ok \in BOOLEAN : Resend(ok)
    BY <1>3, ResendInv
  <1>4. CASE PollWork
    BY <1>4, DispatchInv DEF PollWork
  <1>5. CASE WaitForShutdown
    BY <1>5, DispatchInv DEF WaitForShutdown
  <1>6. CASE \/ ThreadStart \/ NothingDue \/ NotOpened
             \/ PollSleep \/ PollWake \/ PollFail
    BY <1>6, QuietInv
  <1>7. CASE Tick \/ UNCHANGED sinkVars
    BY <1>7, TickInv
  <1> QED
    BY <1>1, <1>2, <1>3, <1>4, <1>5, <1>6, <1>7 DEF SinkNext, Thread, ThreadDuties

-----------------------------------------------------------------------------
(* The theorems.                                                           *)

\* The invariant holds throughout every behaviour of the sender.
THEOREM SinkInvariance == SinkSpec => []SinkInv
  BY InitInv, NextInv, PTL DEF SinkSpec

\* No handler or loop iteration ever leaves a variable of the sink outside its
\* type, whatever the messages and whatever the rate.
THEOREM SinkTypes == SinkSpec => []SinkTypeOK
  <1>1. SinkInv => SinkTypeOK
    BY DEF SinkInv
  <1> QED
    BY <1>1, SinkInvariance, PTL

\* The resend branch of thread_func never touches a chunk that was freed or
\* never rendered: the retry counter is 0 only while a packet is due.
THEOREM ResendIsSafe == SinkSpec => []ResendHoldsChunk
  <1>1. SinkInv => ResendHoldsChunk
    BY DEF SinkInv, SinkTypeOK, StreamTypeOK, ChunkInv, ResendHoldsChunk
  <1> QED
    BY <1>1, SinkInvariance, PTL

\* pa_sink_process_rewind is only ever called on a linked sink.
THEOREM RewindIsSafe == SinkSpec => []RewindOnlyWhileLinked
  <1>1. SinkInv => RewindOnlyWhileLinked
    BY DEF SinkInv, RewindInv
  <1> QED
    BY <1>1, SinkInvariance, PTL

\* The thread of an opened sink never sleeps past the next packet.
THEOREM NeverOversleeps == SinkSpec => []WakesForNextPacket
  <1>1. SinkInv => WakesForNextPacket
    BY DEF SinkInv, TimerInv, WakesForNextPacket
  <1> QED
    BY <1>1, SinkInvariance, PTL

\* No requested latency makes a packet longer than MAX_FRAME_SIZE.
THEOREM PacketsFit == SinkSpec => []FrameFits
  <1>1. SinkInv => FrameFits
    BY DEF SinkInv, FitInv
  <1> QED
    BY <1>1, SinkInvariance, PTL

\* The two views of the sink's state agree between messages.
THEOREM ViewsAgreeAlways == SinkSpec => []ViewsAgree
  <1>1. SinkInv => ViewsAgree
    BY DEF SinkInv, MessageInv, ViewsAgree, NoMsg, Plain
  <1> QED
    BY <1>1, SinkInvariance, PTL

-----------------------------------------------------------------------------
(* The sender implements IwabSource.                                       *)

\* Initial states map to initial states.
LEMMA RefinesInit == SinkInit => Src!SrcInit
  BY SinkAssumption
  DEF SinkInit, Src!SrcInit, iwab_setup, Src!iwab_setup, NoChunk, Src!NoChunk

\* Both modules send the same way.
LEMMA SameSend ==
    ASSUME NEW ok, NEW c, NEW ts, NEW r
    PROVE  iwab_send(ok, c, ts, r) <=> Src!iwab_send(ok, c, ts, r)
  BY DEF iwab_send, Src!iwab_send, SendHeader, Src!SendHeader, FrameOf,
         Src!FrameOf, Fade, Src!Fade

\* Every step of the sender is a step of the abstract sender or stutters.
LEMMA RefinesNext ==
    SinkInv /\ [SinkNext]_sinkVars => [Src!SrcNext]_(Src!srcVars)
  <1> SUFFICES ASSUME SinkInv, [SinkNext]_sinkVars
               PROVE  Src!SrcNext \/ UNCHANGED Src!srcVars
    OBVIOUS
  <1> DEFINE alive == pc \notin {"fail", "done"}
  <1>1. CASE Main
    <2>1. UNCHANGED mainFrame
      BY <1>1 DEF Main, pa_sink_put, sink_set_state, SendRequest, Unload,
                  SendShutdown, Free
    <2> QED
      BY <2>1 DEF mainFrame, streamVars, netVars, Src!srcVars
  <1>2. ASSUME NEW n \in 1 .. RenderMax, NEW ok \in BOOLEAN,
               RenderAndSend(n, ok)
        PROVE  Src!SrcNext
    <2>1. n \in 1 .. MaxFrame
      <3>1. n \in Nat \ {0} /\ n <= MaxFrame
        BY RenderFacts
      <3> QED
        BY <3>1, SinkAssumption
    <2>2. alive /\ alive' = ok
      BY <1>2 DEF RenderAndSend, Fail
    <2>3. stream_ts_abs <= now /\ UNCHANGED now
      BY <1>2 DEF RenderAndSend, threadFrame, SinkInv, SinkTypeOK, StreamTypeOK
    <2>4. Src!iwab_send(ok, [pos |-> render_pos, length |-> n], stream_ts_abs, 0)
      BY <1>2, SameSend DEF RenderAndSend
    <2>5. stream_ts_abs' = IF ok THEN stream_ts_abs + Src!pa_bytes_to_usec(n)
                                 ELSE stream_ts_abs
      BY <1>2 DEF RenderAndSend, pa_bytes_to_usec, Src!pa_bytes_to_usec
    <2>6. /\ chunk' = [pos |-> render_pos, length |-> n]
          /\ render_pos' = render_pos + n
      BY <1>2 DEF RenderAndSend
    <2>7. Src!Emit(n, ok)
      BY <2>2, <2>3, <2>4, <2>5, <2>6 DEF Src!Emit
    <2> QED
      BY <2>1, <2>7 DEF Src!SrcNext
  <1>3. ASSUME NEW ok \in BOOLEAN, Resend(ok)
        PROVE  Src!SrcNext
    <2>1. retries = 1 /\ chunk # Src!NoChunk
      BY <1>3, ResendInv DEF SinkInv, ChunkInv, NoChunk, Src!NoChunk
    <2>2. alive /\ alive' = ok
      BY <1>3 DEF Resend, Fail
    <2>3. Src!iwab_send(ok, chunk, iw_h.timestamp, 1)
      BY <1>3, <2>1, SameSend DEF Resend
    <2>4. chunk' = IF ok THEN Src!NoChunk ELSE chunk
      BY <1>3 DEF Resend, NoChunk, Src!NoChunk
    <2>5. UNCHANGED <<now, stream_ts_abs, render_pos>>
      BY <1>3 DEF Resend, threadFrame
    <2>6. Src!Repeat(ok)
      BY <2>1, <2>2, <2>3, <2>4, <2>5 DEF Src!Repeat
    <2> QED
      BY <2>6 DEF Src!SrcNext
  <1>4. ASSUME Dispatch, \/ pc = "run" /\ pc' = IF inq.code = "SHUTDOWN"
                                                THEN "done" ELSE "loop"
                         \/ pc = "fail" /\ pc' \in {"fail", "done"}
        PROVE  Src!SrcNext \/ UNCHANGED Src!srcVars
    <2>1. UNCHANGED <<now, render_pos, chunk, iw_h, air>>
      BY <1>4 DEF Dispatch, netVars
    <2>2. CASE inq.code = "SHUTDOWN"
      <3>1. UNCHANGED stream_ts_abs /\ ~alive'
        BY <1>4, <2>2 DEF Dispatch
      <3> QED
        BY <2>1, <3>1 DEF Src!SrcNext, Src!Stop, Src!srcVars
    <2>3. CASE inq.code = "SET_STATE"
      <3>1. stream_ts_abs' = now \/ UNCHANGED stream_ts_abs
        BY <1>4, <2>3
        DEF Dispatch, HandleSetState, sink_set_state_in_io_thread_cb
      <3>2. alive' = alive
        BY <1>4, <2>3
      <3> QED
        BY <2>1, <3>1, <3>2 DEF Src!SrcNext, Src!Rebase, Src!srcVars
    <2>4. CASE inq.code \notin {"SHUTDOWN", "SET_STATE"}
      <3>1. UNCHANGED stream_ts_abs /\ alive' = alive
        BY <1>4, <2>4 DEF Dispatch, HandleLatency, HandleRewind
      <3> QED
        BY <2>1, <3>1 DEF Src!srcVars
    <2> QED
      BY <2>2, <2>3, <2>4
  <1>5. CASE ThreadStart
    BY <1>5 DEF ThreadStart, threadFrame, netVars, Src!SrcNext, Src!Rebase
  <1>6. CASE NothingDue \/ NotOpened \/ PollSleep \/ PollWake
    BY <1>6 DEF NothingDue, NotOpened, PollSleep, PollWake, threadFrame,
                streamVars, netVars, Src!srcVars
  <1>7. CASE PollFail
    BY <1>7 DEF PollFail, Fail, threadFrame, streamVars, netVars,
                Src!SrcNext, Src!Stop
  <1>8. CASE Tick
    BY <1>8 DEF Tick, streamVars, netVars, Src!SrcNext, Src!Tick
  <1>9. CASE UNCHANGED sinkVars
    BY <1>9 DEF sinkVars, streamVars, netVars, Src!srcVars
  <1>10. CASE PollWork \/ WaitForShutdown
    BY <1>4, <1>10 DEF PollWork, WaitForShutdown
  <1> QED
    BY <1>1, <1>2, <1>3, <1>5, <1>6, <1>7, <1>8, <1>9, <1>10
    DEF SinkNext, Thread, ThreadDuties

\* Threads, messages, timers and the two state views together implement the
\* abstract sender: to a listener, the module is nothing but IwabSource.
THEOREM SinkImplementsSource == SinkSpec => ImplementsSource
  BY RefinesInit, RefinesNext, SinkInvariance, PTL
  DEF SinkSpec, ImplementsSource, Src!SrcSpec

-----------------------------------------------------------------------------
(* Sequence numbers identify packets: the proof of RepeatsAreCopies.  The  *)
(* counter wraps, so the argument has to count packets modulo SeqMod: from *)
(* one frame on the air to a later one there are at least one and at most  *)
(* as many packets as audio frames between them, every packet holding at   *)
(* least one, and a frame fades away before SeqMod packets have followed.  *)

\* Between sequence numbers a and b lie at least lo and at most hi packets.
Steps(a, b, lo, hi) ==
    \E k \in lo .. hi, j \in Nat : b = a + k - j * SeqMod

\* A new packet is one step further.
LEMMA StepsNext ==
    ASSUME NEW a \in 0 .. SeqMod - 1, NEW b \in 0 .. SeqMod - 1, NEW d \in Int,
           Steps(a, b, 0, d)
    PROVE  Steps(a, (b + 1) % SeqMod, 1, d + 1)
  <1>1. PICK k \in 0 .. d, j \in Nat : b = a + k - j * SeqMod
    BY DEF Steps
  <1>2. SeqMod \in Nat \ {0, 1}
    BY NetAssumption
  <1>3. CASE b + 1 < SeqMod
    <2>1. (b + 1) % SeqMod = b + 1
      BY <1>2, <1>3
    <2>2. j * SeqMod \in Int
      BY <1>2
    <2>3. b + 1 = a + (k + 1) - j * SeqMod
      BY <1>1, <1>2, <2>2
    <2> QED
      BY <1>1, <2>1, <2>3 DEF Steps
  <1>4. CASE b + 1 = SeqMod
    <2>1. (b + 1) % SeqMod = 0
      BY <1>2, <1>4
    <2>2. j * SeqMod \in Int /\ (j + 1) * SeqMod = j * SeqMod + SeqMod
      BY <1>2
    <2>3. 0 = a + (k + 1) - (j + 1) * SeqMod
      BY <1>1, <1>2, <1>4, <2>2
    <2> QED
      BY <1>1, <2>1, <2>3 DEF Steps
  <1> QED
    BY <1>2, <1>3, <1>4

\* The bounds may be widened.
LEMMA StepsWiden ==
    ASSUME NEW a, NEW b, NEW d \in Int, NEW e \in Int, d <= e,
           Steps(a, b, 1, d)
    PROVE  Steps(a, b, 0, e)
  BY DEF Steps

\* Fewer than SeqMod packets later the number is a different one.
LEMMA StepsDiffer ==
    ASSUME NEW a \in 0 .. SeqMod - 1, NEW b, NEW d \in Int, d < SeqMod,
           Steps(a, b, 1, d)
    PROVE  a # b
  <1>1. PICK k \in 1 .. d, j \in Nat : b = a + k - j * SeqMod
    BY DEF Steps
  <1>2. SeqMod \in Nat \ {0, 1}
    BY NetAssumption
  <1> SUFFICES ASSUME a = b PROVE FALSE
    OBVIOUS
  <1>3. j * SeqMod \in Int /\ k = j * SeqMod
    BY <1>1, <1>2
  <1>4. CASE j = 0
    BY <1>1, <1>2, <1>3, <1>4
  <1>5. CASE j >= 1
    <2>1. j * SeqMod >= SeqMod
      BY <1>2, <1>5
    <2> QED
      BY <1>1, <1>2, <1>3, <2>1
  <1> QED
    BY <1>4, <1>5

-----------------------------------------------------------------------------
(* The inductive invariant.                                                *)

Copies(f, g) ==
    f.seq = g.seq /\ f.length = g.length /\ f.timestamp = g.timestamp

\* The frames on the air lie behind the render position, and the header's
\* sequence number is ahead of theirs.
BehindInv ==
    \A f \in air : /\ f.pos < render_pos
                   /\ Steps(f.seq, iw_h.seq, 0, render_pos - f.pos - 1)

\* Frames at one position are copies; frames at different positions are apart.
ApartInv ==
    \A f, g \in air :
        /\ f.pos = g.pos => Copies(f, g)
        /\ f.pos < g.pos => /\ g.pos < f.pos + AirWindow
                            /\ Steps(f.seq, g.seq, 1, g.pos - f.pos)

\* While a resend is due, the packet's first transmission is on the air.
PendingInv ==
    retries = 1 => \E f \in air : /\ f.seq = iw_h.seq
                                  /\ f.timestamp = iw_h.timestamp
                                  /\ f.pos = chunk.pos
                                  /\ f.length = chunk.length

AirInv == BehindInv /\ ApartInv /\ PendingInv

\* A first transmission keeps the invariant.
LEMMA RenderAir ==
    ASSUME SinkInv, AirInv, NEW n \in 1 .. RenderMax, NEW ok \in BOOLEAN,
           RenderAndSend(n, ok)
    PROVE  AirInv'
  <1> DEFINE c == [pos |-> render_pos, length |-> n]
             h == SendHeader(stream_ts_abs, 0)
             new == FrameOf(h, c)
  <1>0. /\ n \in Nat \ {0} /\ render_pos \in Nat /\ stream_ts_abs \in Nat
        /\ iw_h \in Header /\ SeqMod \in Nat \ {0, 1} /\ AirWindow \in Nat
        /\ \A f \in air : f.pos \in Nat /\ f.seq \in 0 .. SeqMod - 1
    BY RenderFacts, NetAssumption
    DEF SinkInv, SinkTypeOK, StreamTypeOK, Frame
  <1>1. iw_h' = h /\ h.seq = (iw_h.seq + 1) % SeqMod
    BY DEF RenderAndSend, iwab_send, SendHeader
  <1>2. h.seq \in 0 .. SeqMod - 1 /\ iw_h.seq \in 0 .. SeqMod - 1
    BY <1>0, <1>1 DEF Header
  <1>3. /\ new.seq = h.seq /\ new.timestamp = h.timestamp
        /\ new.pos = render_pos /\ new.length = n
    BY DEF FrameOf
  <1>4. \A f \in air : f.pos < render_pos /\ Steps(f.seq, h.seq, 1, render_pos - f.pos)
    <2> SUFFICES ASSUME NEW f \in air
                 PROVE  f.pos < render_pos
                        /\ Steps(f.seq, h.seq, 1, render_pos - f.pos)
      OBVIOUS
    <2>1. /\ f.pos < render_pos
          /\ Steps(f.seq, iw_h.seq, 0, render_pos - f.pos - 1)
      BY DEF AirInv, BehindInv
    <2>2. render_pos - f.pos - 1 \in Int
          /\ (render_pos - f.pos - 1) + 1 = render_pos - f.pos
      BY <1>0
    <2>3. Steps(f.seq, h.seq, 1, (render_pos - f.pos - 1) + 1)
      BY <1>0, <1>1, <1>2, <2>1, <2>2, StepsNext
    <2> QED
      BY <2>1, <2>2, <2>3
  <1>5. render_pos' = render_pos + n /\ chunk' = c
    BY DEF RenderAndSend
  <1>6. \A f \in air : Steps(f.seq, h.seq, 0, render_pos' - f.pos - 1)
    <2> SUFFICES ASSUME NEW f \in air
                 PROVE  Steps(f.seq, h.seq, 0, render_pos' - f.pos - 1)
      OBVIOUS
    <2>1. /\ render_pos - f.pos \in Int /\ render_pos' - f.pos - 1 \in Int
          /\ render_pos - f.pos <= render_pos' - f.pos - 1
      BY <1>0, <1>5
    <2> QED
      BY <1>4, <2>1, StepsWiden
  <1>7. Steps(new.seq, h.seq, 0, render_pos' - new.pos - 1)
    <2>1. render_pos' - new.pos - 1 \in Nat
      BY <1>0, <1>3, <1>5
    <2>2. h.seq = new.seq + 0 - 0 * SeqMod
      BY <1>0, <1>2, <1>3
    <2> QED
      BY <2>1, <2>2 DEF Steps
  <1> HIDE DEF h, new, c
  <1>8. air' \subseteq air \cup {new}
        /\ \A f \in air' : f = new \/ (air' # air => render_pos < f.pos + AirWindow)
    BY <1>0, <1>3 DEF RenderAndSend, iwab_send, Fade, h, new, c
  <1>9. BehindInv'
    BY <1>0, <1>1, <1>3, <1>4, <1>5, <1>6, <1>7, <1>8 DEF BehindInv
  <1>10. ApartInv'
    <2> SUFFICES ASSUME NEW f \in air', NEW g \in air'
                 PROVE  /\ f.pos = g.pos => Copies(f, g)
                        /\ f.pos < g.pos =>
                              /\ g.pos < f.pos + AirWindow
                              /\ Steps(f.seq, g.seq, 1, g.pos - f.pos)
      BY DEF ApartInv, Copies, Steps
    <2>1. CASE f \in air /\ g \in air
      BY <2>1 DEF AirInv, ApartInv
    <2>2. CASE f = new /\ g = new
      BY <1>0, <1>3, <2>2 DEF Copies
    <2>3. CASE f = new /\ g \in air
      BY <1>0, <1>3, <1>4, <2>3
    <2>4. CASE f \in air /\ g = new /\ f # new
      <3>1. g.pos < f.pos + AirWindow
        BY <1>0, <1>3, <1>4, <1>8, <2>4
      <3> QED
        BY <1>0, <1>3, <1>4, <2>4, <3>1
    <2> QED
      BY <1>8, <2>1, <2>2, <2>3, <2>4
  <1>11. PendingInv'
    <2>1. CASE ok
      <3>1. new \in air' /\ chunk'.pos = render_pos /\ chunk'.length = n
        BY <1>5, <2>1 DEF RenderAndSend, iwab_send, Fade, h, new, c
      <3> QED
        BY <1>1, <1>3, <3>1 DEF PendingInv
    <2>2. CASE ~ok
      <3>1. retries' = 0
        BY <2>2 DEF RenderAndSend
      <3> QED
        BY <3>1 DEF PendingInv
    <2> QED
      BY <2>1, <2>2
  <1> QED
    BY <1>9, <1>10, <1>11 DEF AirInv

\* A second transmission keeps the invariant: it only adds a copy of a frame
\* that is on the air.
LEMMA ResendAir ==
    ASSUME SinkInv, AirInv, NEW ok \in BOOLEAN, Resend(ok)
    PROVE  AirInv'
  <1>1. /\ retries = 1 /\ render_pos' = render_pos
        /\ chunk \in Chunk /\ iw_h \in Header
    BY ResendInv DEF Resend, SinkInv, SinkTypeOK, StreamTypeOK
  <1>2. /\ iw_h'.seq = iw_h.seq /\ iw_h'.timestamp = iw_h.timestamp
    BY <1>1 DEF Resend, iwab_send, SendHeader
  <1>3. PICK f0 \in air : /\ f0.seq = iw_h.seq /\ f0.timestamp = iw_h.timestamp
                          /\ f0.pos = chunk.pos /\ f0.length = chunk.length
    BY <1>1 DEF AirInv, PendingInv
  <1>4. \A f \in air' : \E g \in air : f.pos = g.pos /\ Copies(f, g)
    <2> DEFINE h == SendHeader(iw_h.timestamp, 1)
    <2>1. air' \subseteq air \cup {FrameOf(h, chunk)}
      BY <1>1 DEF Resend, iwab_send, Fade
    <2>2. FrameOf(h, chunk).pos = f0.pos /\ Copies(FrameOf(h, chunk), f0)
      BY <1>3 DEF FrameOf, SendHeader, Copies
    <2> QED
      BY <2>1, <2>2 DEF Copies
  <1>5. BehindInv'
    BY <1>1, <1>2, <1>4 DEF AirInv, BehindInv, Copies, Steps
  <1>6. ApartInv'
    <2> SUFFICES ASSUME NEW f \in air', NEW g \in air'
                 PROVE  /\ f.pos = g.pos => Copies(f, g)
                        /\ f.pos < g.pos =>
                              /\ g.pos < f.pos + AirWindow
                              /\ Steps(f.seq, g.seq, 1, g.pos - f.pos)
      BY DEF ApartInv, Copies, Steps
    <2>1. PICK a \in air, b \in air : /\ f.pos = a.pos /\ Copies(f, a)
                                      /\ g.pos = b.pos /\ Copies(g, b)
      BY <1>4
    <2> QED
      BY <2>1 DEF AirInv, ApartInv, Copies
  <1>7. PendingInv'
    <2>1. CASE ok
      <3>1. retries' = 2
        BY <1>1, <2>1 DEF Resend
      <3> QED
        BY <3>1 DEF PendingInv
    <2>2. CASE ~ok
      <3>1. air' = air /\ chunk' = chunk
        BY <2>2 DEF Resend, iwab_send
      <3> QED
        BY <1>2, <1>3, <3>1 DEF PendingInv
    <2> QED
      BY <2>1, <2>2
  <1> QED
    BY <1>5, <1>6, <1>7 DEF AirInv

\* Every other step leaves what is on the air alone.
LEMMA NextAir == SinkInv /\ AirInv /\ [SinkNext]_sinkVars => AirInv'
  <1> SUFFICES ASSUME SinkInv, AirInv, [SinkNext]_sinkVars PROVE AirInv'
    OBVIOUS
  <1>1. CASE \E n \in 1 .. RenderMax, ok \in BOOLEAN : RenderAndSend(n, ok)
    BY <1>1, RenderAir
  <1>2. CASE \E ok \in BOOLEAN : Resend(ok)
    BY <1>2, ResendAir
  <1>3. ASSUME UNCHANGED <<iw_h, air, render_pos, chunk>>,
               retries' \in {retries, 0}
        PROVE  AirInv'
    BY <1>3 DEF AirInv, BehindInv, ApartInv, PendingInv, Copies, Steps
  <1>4. CASE Main
    <2>1. UNCHANGED mainFrame
      BY <1>4 DEF Main, pa_sink_put, sink_set_state, SendRequest, Unload,
                  SendShutdown, Free
    <2> QED
      BY <1>3, <2>1 DEF mainFrame, streamVars, netVars
  <1>5. CASE ThreadStart
    BY <1>3, <1>5 DEF ThreadStart, netVars
  <1>6. CASE PollWork \/ WaitForShutdown
    BY <1>3, <1>6 DEF PollWork, WaitForShutdown, Dispatch, netVars
  <1>7. CASE NothingDue \/ NotOpened \/ PollSleep \/ PollWake \/ PollFail
    BY <1>3, <1>7 DEF NothingDue, NotOpened, PollSleep, PollWake, PollFail,
                      streamVars, netVars
  <1>8. CASE Tick \/ UNCHANGED sinkVars
    BY <1>3, <1>8 DEF Tick, sinkVars, streamVars, netVars
  <1> QED
    BY <1>1, <1>2, <1>4, <1>5, <1>6, <1>7, <1>8 DEF SinkNext, Thread, ThreadDuties

-----------------------------------------------------------------------------
\* What a listener drops as a repetition really is one: equal sequence numbers
\* on the air mean copies of one packet, although the counter wraps.
THEOREM SequenceNumbersIdentify == SinkSpec => []RepeatsAreCopies
  <1>1. SinkInit => AirInv
    BY DEF SinkInit, iwab_setup, AirInv, BehindInv, ApartInv, PendingInv
  <1>2. SinkInv /\ AirInv => RepeatsAreCopies
    <2> SUFFICES ASSUME SinkInv, AirInv, NEW f \in air, NEW g \in air
                 PROVE  (f.seq = g.seq) <=>
                            /\ f.pos = g.pos /\ f.length = g.length
                            /\ f.timestamp = g.timestamp
      BY DEF RepeatsAreCopies
    <2>0. /\ f.pos \in Nat /\ f.seq \in 0 .. SeqMod - 1
          /\ g.pos \in Nat /\ g.seq \in 0 .. SeqMod - 1
          /\ SeqMod \in Nat /\ AirWindow \in Nat /\ AirWindow <= SeqMod
      BY NetAssumption DEF SinkInv, SinkTypeOK, Frame
    <2>1. ASSUME NEW a \in air, NEW b \in air, a.pos < b.pos,
                 a.pos \in Nat, b.pos \in Nat, a.seq \in 0 .. SeqMod - 1
          PROVE  a.seq # b.seq
      <3>1. /\ b.pos < a.pos + AirWindow
            /\ Steps(a.seq, b.seq, 1, b.pos - a.pos)
        BY <2>1 DEF AirInv, ApartInv
      <3>2. b.pos - a.pos \in Int /\ b.pos - a.pos < SeqMod
        BY <2>0, <2>1, <3>1
      <3> QED
        BY <2>1, <3>1, <3>2, StepsDiffer
    <2>2. f.pos = g.pos => Copies(f, g)
      BY DEF AirInv, ApartInv
    <2>3. f.seq = g.seq => f.pos = g.pos
      BY <2>0, <2>1
    <2> QED
      BY <2>2, <2>3 DEF Copies
  <1> QED
    BY <1>1, <1>2, NextAir, SinkInvariance, PTL DEF SinkSpec
=============================================================================
