------------------------------ MODULE IwabSink ------------------------------
(***************************************************************************)
(* module-iwab-sink (modules/iwab/iwab-sink.c): the main thread that owns  *)
(* the module and talks to the sink through synchronous messages, and the  *)
(* real-time thread (thread_func) that renders a packet when it is due,    *)
(* sends it, sends it a second time half a packet later, and sleeps in     *)
(* pa_rtpoll_run in between.  Messages are handled inside pa_rtpoll_run,   *)
(* at most one per call, so every message makes the loop body run again.   *)
(*                                                                         *)
(* The main thread blocks in pa_asyncmsgq_send until its message has been  *)
(* handled, so the inbound queue holds at most one message.                *)
(***************************************************************************)
EXTENDS IwabNet

CONSTANTS MaxTime,     \* bound on the clock
          MaxFrame,    \* MAX_FRAME_SIZE, in audio frames
          MixBuffer,   \* MIX_BUFFER_LENGTH (a memory page), in audio frames
          Latencies,   \* latencies clients may request, in clock units
          MaxCalls     \* bound on the number of main-thread requests

ASSUME SinkAssumption ==
    /\ MaxTime \in Nat
    /\ MaxFrame \in Nat \ {0}
    /\ MixBuffer \in Nat \ {0}
    /\ MaxCalls \in Nat
    \* pa_sink_set_latency_range keeps every latency between 500 us (at least
    \* one frame) and the duration of MAX_FRAME_SIZE.
    /\ \A l \in Latencies :
          /\ l \in Nat
          /\ l <= pa_bytes_to_usec(MaxFrame)
          /\ UsecPerSec <= l * Rate

VARIABLES now,                \* CLOCK_MONOTONIC of the sending host
          mpc,                \* where the main thread is
          s_state,            \* s->state, the main thread's view
          calls,              \* main-thread requests so far
          inq,                \* thread_mq.inq: the message being sent
          unload_posted,      \* UNLOAD_MODULE waits in thread_mq.outq
          pc,                 \* where the real-time thread is
          state,              \* s->thread_info.state
          max_request,        \* s->thread_info.max_request
          rewind_requested,   \* s->thread_info.rewind_requested
          stream_ts_abs, stream_resend_abs, retries, chunk,
          render_pos,         \* audio frames rendered so far
          refs,               \* references to rendered memblocks not given back
          timer               \* rtpoll's next_elapse

mainVars == <<mpc, s_state, calls>>
threadInfo == <<state, max_request, rewind_requested>>
streamVars == <<stream_ts_abs, stream_resend_abs, retries, chunk, render_pos,
                refs>>
sinkVars == <<now, mainVars, inq, unload_posted, pc, threadInfo, streamVars,
              timer, netVars>>

Disabled == -1

Plain(code) == [code |-> code, st |-> "NONE", usec |-> 0]
NoMsg == Plain("NONE")
SetStateMsg(s) == [Plain("SET_STATE") EXCEPT !.st = s]
LatencyMsg(l) == [Plain("UPDATE_LATENCY") EXCEPT !.usec = l]

\* PA_SINK_IS_OPENED and PA_SINK_IS_LINKED
Opened(s) == s \in {"RUNNING", "IDLE"}
Linked(s) == s \in {"RUNNING", "IDLE", "SUSPENDED"}

SinkInit ==
    /\ iwab_setup
    /\ now \in 1 .. MaxTime
    /\ mpc = "init" /\ s_state = "INIT" /\ calls = 0
    /\ inq = NoMsg /\ unload_posted = FALSE
    /\ pc = "start" /\ state = "INIT"
    /\ max_request = MaxFrame /\ rewind_requested = FALSE
    /\ stream_ts_abs = 0 /\ stream_resend_abs = 0 /\ retries = 0
    /\ chunk = NoChunk /\ render_pos = 0 /\ refs = 0
    /\ timer = Disabled

-----------------------------------------------------------------------------
(***************************************************************************)
(* The main thread.                                                        *)
(***************************************************************************)
Send(m) == inq = NoMsg /\ inq' = m

mainFrame == <<now, unload_posted, pc, threadInfo, streamVars, timer, netVars>>

\* The tail of pa__init: the sink is published, running or suspended.
pa_sink_put(s) ==
    /\ mpc = "init" /\ s \in {"IDLE", "SUSPENDED"}
    /\ Send(SetStateMsg(s))
    /\ s_state' = s /\ mpc' = "up"
    /\ UNCHANGED <<calls, mainFrame>>

\* Suspend, resume, start or stop playing.
sink_set_state(s) ==
    /\ mpc = "up" /\ calls < MaxCalls
    /\ s \in {"RUNNING", "IDLE", "SUSPENDED"} \ {s_state}
    /\ Send(SetStateMsg(s))
    /\ s_state' = s /\ calls' = calls + 1
    /\ UNCHANGED <<mpc, mainFrame>>

\* Every other message of a linked sink: a latency query, a stream that
\* asks for a rewind, a change of the requested latency (-1: no request).
SendRequest(m) ==
    /\ mpc = "up" /\ calls < MaxCalls
    /\ Send(m)
    /\ calls' = calls + 1
    /\ UNCHANGED <<mpc, s_state, mainFrame>>

\* pa__done, first half: by the user's wish or at the thread's request.
Unload ==
    /\ mpc = "up"
    /\ Send(SetStateMsg("UNLINKED"))
    /\ s_state' = "UNLINKED" /\ mpc' = "unlinked"
    /\ UNCHANGED <<calls, mainFrame>>

SendShutdown ==
    /\ mpc = "unlinked"
    /\ Send(Plain("SHUTDOWN"))
    /\ mpc' = "stopping"
    /\ UNCHANGED <<s_state, calls, mainFrame>>

\* pa__done, second half: pa_thread_free joins the thread, then everything
\* is freed.
Free ==
    /\ mpc = "stopping" /\ inq = NoMsg /\ pc = "done"
    /\ mpc' = "freed"
    /\ UNCHANGED <<s_state, calls, inq, mainFrame>>

Main ==
    \/ \E s \in {"IDLE", "SUSPENDED"} : pa_sink_put(s)
    \/ \E s \in {"RUNNING", "IDLE", "SUSPENDED"} : sink_set_state(s)
    \/ \E code \in {"GET_LATENCY", "REWIND"} : SendRequest(Plain(code))
    \/ \E l \in Latencies \cup {-1} : SendRequest(LatencyMsg(l))
    \/ Unload
    \/ SendShutdown
    \/ Free

-----------------------------------------------------------------------------
(***************************************************************************)
(* The message handlers, run by the real-time thread.                      *)
(***************************************************************************)
\* sink_set_state_in_io_thread_cb: the assignment is outside the inner if,
\* whatever its indentation says.
sink_set_state_in_io_thread_cb ==
    stream_ts_abs' = IF state \in {"SUSPENDED", "INIT"} THEN now
                                                        ELSE stream_ts_abs

HandleSetState(s) ==
    /\ sink_set_state_in_io_thread_cb
    /\ state' = s
    /\ rewind_requested' = (rewind_requested /\ s # "SUSPENDED")
    /\ UNCHANGED max_request

\* Mutant: (pa_usec_t) -1 is not recognised as "no latency requested".
Bug_HandleLatency(l) ==
    /\ max_request' = pa_usec_to_bytes(l)
    /\ UNCHANGED <<state, rewind_requested, stream_ts_abs>>

\* sink_update_requested_latency_cb
HandleLatency(l) ==
    /\ max_request' = IF l = -1 THEN MaxFrame ELSE pa_usec_to_bytes(l)
    /\ UNCHANGED <<state, rewind_requested, stream_ts_abs>>

\* pa_sink_request_rewind
HandleRewind ==
    /\ rewind_requested' = TRUE
    /\ UNCHANGED <<state, max_request, stream_ts_abs>>

\* The handler of the waiting message, and the answer to the sender.
Dispatch ==
    /\ inq # NoMsg
    /\ \/ inq.code = "SET_STATE" /\ HandleSetState(inq.st)
       \/ inq.code = "UPDATE_LATENCY" /\ HandleLatency(inq.usec)
       \/ inq.code = "REWIND" /\ HandleRewind
       \/ inq.code \in {"GET_LATENCY", "SHUTDOWN"}
          /\ UNCHANGED <<threadInfo, stream_ts_abs>>
    /\ inq' = NoMsg
    /\ UNCHANGED <<now, mainVars, unload_posted, stream_resend_abs, retries,
                   chunk, render_pos, refs, timer, netVars>>

-----------------------------------------------------------------------------
(***************************************************************************)
(* The real-time thread.                                                   *)
(***************************************************************************)
threadFrame == <<now, mainVars, inq, state, max_request>>

ThreadStart ==
    /\ pc = "start"
    /\ stream_ts_abs' = now /\ retries' = 0
    /\ pc' = "loop"
    /\ UNCHANGED <<threadFrame, rewind_requested, unload_posted,
                   stream_resend_abs, chunk, render_pos, refs, timer, netVars>>

\* goto fail
Fail == pc' = "fail" /\ unload_posted' = TRUE

\* The longest chunk pa_sink_render may return: a length of 0 means "as much
\* as the mix buffer holds".
RenderMax == IF max_request <= 0 THEN MixBuffer ELSE max_request

\* Mutant: the timeline follows the clock instead of the audio.
Bug_RenderAndSend(n, ok) ==
    LET c == [pos |-> render_pos, length |-> n]
        chunk_time == pa_bytes_to_usec(n) IN
    /\ pc = "loop" /\ Opened(state)
    /\ now >= stream_ts_abs
    /\ rewind_requested' = FALSE
    /\ chunk' = c /\ render_pos' = render_pos + n /\ refs' = refs + 1
    /\ iwab_send(ok, c, stream_ts_abs, 0)
    /\ retries' = 1
    /\ stream_resend_abs' = now + chunk_time \div 2
    /\ stream_ts_abs' = now + chunk_time
    /\ timer' = stream_resend_abs'
    /\ pc' = "run"
    /\ UNCHANGED <<threadFrame, unload_posted>>

\* now >= stream_ts_abs: the next packet is due.
RenderAndSend(n, ok) ==
    LET c == [pos |-> render_pos, length |-> n]
        chunk_time == pa_bytes_to_usec(n) IN
    /\ pc = "loop" /\ Opened(state)
    /\ now >= stream_ts_abs
    /\ rewind_requested' = FALSE
    /\ chunk' = c /\ render_pos' = render_pos + n /\ refs' = refs + 1
    /\ iwab_send(ok, c, stream_ts_abs, 0)
    /\ \/ /\ ok
          /\ retries' = 1
          /\ stream_resend_abs' = stream_ts_abs + chunk_time \div 2
          /\ stream_ts_abs' = stream_ts_abs + chunk_time
          /\ timer' = stream_resend_abs'
          /\ pc' = "run" /\ UNCHANGED unload_posted
       \/ /\ ~ok
          /\ retries' = 0
          /\ Fail
          /\ UNCHANGED <<stream_resend_abs, stream_ts_abs, timer>>
    /\ UNCHANGED threadFrame

\* Mutant: the resend is not counted.
Bug_Resend(ok) ==
    /\ pc = "loop" /\ Opened(state)
    /\ now < stream_ts_abs
    /\ now >= stream_resend_abs /\ retries <= 1
    /\ rewind_requested' = FALSE
    /\ iwab_send(ok, chunk, iw_h.timestamp, retries)
    /\ chunk' = NoChunk /\ refs' = refs - 1
    /\ timer' = stream_ts_abs
    /\ pc' = "run"
    /\ UNCHANGED <<threadFrame, unload_posted, stream_ts_abs,
                   stream_resend_abs, retries, render_pos>>

\* Mutant: the number of retries is not limited.
Bug_ResendAlways(ok) ==
    /\ pc = "loop" /\ Opened(state)
    /\ now < stream_ts_abs /\ now >= stream_resend_abs
    /\ rewind_requested' = FALSE
    /\ iwab_send(ok, chunk, iw_h.timestamp, 1)
    /\ retries' = retries + 1
    /\ timer' = stream_ts_abs
    /\ pc' = "run"
    /\ UNCHANGED <<threadFrame, unload_posted, stream_ts_abs,
                   stream_resend_abs, chunk, refs, render_pos>>

\* now >= stream_resend_abs && retries <= 1
Resend(ok) ==
    /\ pc = "loop" /\ Opened(state)
    /\ now < stream_ts_abs
    /\ now >= stream_resend_abs /\ retries <= 1
    /\ rewind_requested' = FALSE
    /\ iwab_send(ok, chunk, iw_h.timestamp, retries)
    /\ \/ /\ ok
          /\ chunk' = NoChunk /\ refs' = refs - 1
          /\ retries' = retries + 1
          /\ timer' = stream_ts_abs
          /\ pc' = "run" /\ UNCHANGED unload_posted
       \/ /\ ~ok
          /\ Fail
          /\ UNCHANGED <<chunk, refs, retries, timer>>
    /\ UNCHANGED <<threadFrame, stream_ts_abs, stream_resend_abs, render_pos>>

\* Mutant: no timer is set when nothing is due.
Bug_NothingDue ==
    /\ pc = "loop" /\ Opened(state)
    /\ now < stream_ts_abs
    /\ ~(now >= stream_resend_abs /\ retries <= 1)
    /\ rewind_requested' = FALSE
    /\ timer' = Disabled
    /\ pc' = "run"
    /\ UNCHANGED <<threadFrame, unload_posted, streamVars, netVars>>

\* Nothing is due: sleep until the next render.
NothingDue ==
    /\ pc = "loop" /\ Opened(state)
    /\ now < stream_ts_abs
    /\ ~(now >= stream_resend_abs /\ retries <= 1)
    /\ rewind_requested' = FALSE
    /\ timer' = stream_ts_abs
    /\ pc' = "run"
    /\ UNCHANGED <<threadFrame, unload_posted, streamVars, netVars>>

\* Not opened: sleep until a message arrives.
NotOpened ==
    /\ pc = "loop" /\ ~Opened(state)
    /\ rewind_requested' = FALSE
    /\ timer' = Disabled
    /\ pc' = "run"
    /\ UNCHANGED <<threadFrame, unload_posted, streamVars, netVars>>

\* Mutant: one run handles all waiting messages.
Bug_PollWork ==
    /\ pc = "run"
    /\ Dispatch
    /\ pc' = IF inq.code = "SHUTDOWN" THEN "done" ELSE "run"

\* pa_rtpoll_run, work phase: one message, then the run is over; SHUTDOWN
\* makes it return 0.
PollWork ==
    /\ pc = "run"
    /\ Dispatch
    /\ pc' = IF inq.code = "SHUTDOWN" THEN "done" ELSE "loop"

\* pa_rtpoll_run: no message waits, go to sleep.
PollSleep ==
    /\ pc = "run" /\ inq = NoMsg
    /\ pc' = "poll"
    /\ UNCHANGED <<threadFrame, rewind_requested, unload_posted, streamVars,
                   timer, netVars>>

\* pa_rtpoll_run, end of the sleep: the timer elapsed, or a message came in
\* that the next run will handle.
PollWake ==
    /\ pc = "poll"
    /\ (timer # Disabled /\ now >= timer) \/ inq # NoMsg
    /\ pc' = "loop"
    /\ UNCHANGED <<threadFrame, rewind_requested, unload_posted, streamVars,
                   timer, netVars>>

\* pa_rtpoll_run returns a negative value.
PollFail ==
    /\ pc = "poll"
    /\ Fail
    /\ UNCHANGED <<threadFrame, rewind_requested, streamVars, timer, netVars>>

\* Mutant: any message ends the wait.
Bug_WaitForShutdown ==
    /\ pc = "fail"
    /\ Dispatch
    /\ pc' = "done"

\* Mutant: messages are answered without being handled.
Bug_WaitWithoutDispatch ==
    /\ pc = "fail" /\ inq # NoMsg
    /\ inq' = NoMsg
    /\ pc' = IF inq.code = "SHUTDOWN" THEN "done" ELSE "fail"
    /\ UNCHANGED <<now, mainVars, unload_posted, threadInfo, streamVars, timer,
                   netVars>>

\* fail: handle messages until SHUTDOWN (pa_asyncmsgq_wait_for).
WaitForShutdown ==
    /\ pc = "fail"
    /\ Dispatch
    /\ pc' = IF inq.code = "SHUTDOWN" THEN "done" ELSE "fail"

\* What the thread does by itself; the failure of poll() is not its doing.
ThreadDuties ==
    \/ ThreadStart
    \/ \E n \in 1 .. RenderMax, ok \in BOOLEAN : RenderAndSend(n, ok)
    \/ \E ok \in BOOLEAN : Resend(ok)
    \/ NothingDue
    \/ NotOpened
    \/ PollWork
    \/ PollSleep
    \/ PollWake
    \/ WaitForShutdown

Thread == ThreadDuties \/ PollFail

Tick ==
    /\ now < MaxTime
    /\ now' = now + 1
    /\ UNCHANGED <<mainVars, inq, unload_posted, pc, threadInfo, streamVars,
                   timer, netVars>>

SinkNext == Main \/ Thread \/ Tick

SinkSpec == SinkInit /\ [][SinkNext]_sinkVars

(***************************************************************************)
(* The real-time thread is scheduled whenever it can run, the main loop    *)
(* finishes pa__init, answers the thread's unload request and completes an *)
(* unload it began.  Nobody is obliged to use or unload the sink, poll()   *)
(* is not obliged to fail and the clock is not required to advance.        *)
(***************************************************************************)
MainDuties ==
    \/ \E s \in {"IDLE", "SUSPENDED"} : pa_sink_put(s)
    \/ unload_posted /\ Unload
    \/ SendShutdown
    \/ Free

FairSinkSpec == SinkSpec /\ WF_sinkVars(ThreadDuties) /\ WF_sinkVars(MainDuties)

-----------------------------------------------------------------------------
(***************************************************************************)
(* Properties.                                                             *)
(***************************************************************************)
MainTypeOK ==
    /\ mpc \in {"init", "up", "unlinked", "stopping", "freed"}
    /\ s_state \in {"INIT", "RUNNING", "IDLE", "SUSPENDED", "UNLINKED"}
    /\ calls \in Nat

MessageTypeOK ==
    /\ inq \in [code : {"NONE", "SET_STATE", "UPDATE_LATENCY", "GET_LATENCY",
                        "REWIND", "SHUTDOWN"},
                st : {"NONE", "RUNNING", "IDLE", "SUSPENDED", "UNLINKED"},
                usec : Int]
    /\ inq.code = "NONE" => inq = NoMsg
    /\ inq.code = "SET_STATE" => inq.st # "NONE"
    /\ inq.code = "UPDATE_LATENCY" => inq.usec \in Latencies \cup {-1}

ThreadTypeOK ==
    /\ unload_posted \in BOOLEAN
    /\ rewind_requested \in BOOLEAN
    /\ pc \in {"start", "loop", "run", "poll", "fail", "done"}
    /\ state \in {"INIT", "RUNNING", "IDLE", "SUSPENDED", "UNLINKED"}

StreamTypeOK ==
    /\ now \in Nat
    /\ max_request \in Nat
    /\ stream_ts_abs \in Nat /\ stream_resend_abs \in Nat
    /\ retries \in 0 .. 2
    /\ chunk \in Chunk
    /\ render_pos \in Nat
    /\ refs \in Int
    /\ timer \in Nat \cup {Disabled}

\* Every variable of the sink has its type, and a message under way carries
\* the payload its handler reads.
SinkTypeOK ==
    /\ MainTypeOK /\ MessageTypeOK /\ ThreadTypeOK /\ StreamTypeOK
    /\ iw_h \in Header
    /\ air \subseteq Frame

\* Whenever the resend branch of thread_func can be taken, u->chunk is the
\* packet that was sent last and its memblock is still referenced: the
\* branch never touches a chunk that was freed or never rendered.
ResendHoldsChunk ==
    (/\ pc = "loop" /\ Opened(state)
     /\ now < stream_ts_abs /\ now >= stream_resend_abs /\ retries <= 1)
    => /\ chunk # NoChunk /\ refs > 0
       /\ retries = 1
       /\ chunk.pos + chunk.length = render_pos

\* pa_sink_process_rewind asserts that the sink is linked; the loop calls it
\* whenever a rewind is requested, so no request may survive an unlink.
RewindOnlyWhileLinked ==
    pc = "loop" /\ rewind_requested => Linked(state)

\* While the thread of an opened sink sleeps, its timer is armed for the next
\* packet's due time at the latest: a state change or a late iteration never
\* leaves it sleeping through a packet.
WakesForNextPacket ==
    pc = "poll" /\ Opened(state) => /\ timer # Disabled
                                   /\ timer <= stream_ts_abs

\* Two frames on the air that claim the same sequence number are copies of
\* one packet, and a packet keeps one sequence number: what a listener
\* discards as a repetition really is one.
RepeatsAreCopies ==
    \A f, g \in air :
        (f.seq = g.seq) <=> (/\ f.pos = g.pos /\ f.length = g.length
                             /\ f.timestamp = g.timestamp)

\* No packet is longer than MAX_FRAME_SIZE, whatever latency is requested:
\* "We can send 1400 bytes frames max" (iwab-sink.c).
FrameFits == \A f \in air : f.length <= MaxFrame

\* Both sides agree on the state of the sink once no message is under way,
\* also while the thread is on its way out.
ViewsAgree == inq = NoMsg /\ mpc # "init" => state = s_state

\* Threads, messages and the poll loop implement the abstract sender.
Src == INSTANCE IwabSource
         WITH next_ts <- stream_ts_abs, next_pos <- render_pos, last <- chunk,
              alive <- pc \notin {"fail", "done"},
              MaxLength <- MaxFrame, Resumable <- TRUE

ImplementsSource == Src!SrcSpec

\* An unload that has begun, or that the thread asked for after an error,
\* runs to its end: the two threads never wait for each other forever.
UnloadCompletes == unload_posted \/ mpc = "unlinked" ~> mpc = "freed"

\* A packet that is due on an opened sink is sent, unless the thread fails or
\* the sink is closed meanwhile: the thread never sleeps on forever.
DuePacketIsSent ==
    Opened(state) /\ now >= stream_ts_abs
        ~> \/ now < stream_ts_abs \/ ~Opened(state) \/ pc \in {"fail", "done"}

\* When the module is gone, every memblock it was given has been given back:
\* pa_mempool_unref complains "Memory pool destroyed but not all memory
\* blocks freed!" (pulsecore/memblock.c).
NoChunkLeak == mpc = "freed" => refs = 0
=============================================================================
