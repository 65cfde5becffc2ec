----------------------------- MODULE MCPlayback -----------------------------
(***************************************************************************)
(* A playback stream of the native protocol: its flow control, and its way *)
(* through the sink input to a sink that can rewind.  Each is explored     *)
(* with the other at rest, as `part` says.                                 *)
(*                                                                         *)
(* A queue of four bytes with a prebuffer of two and requests of at least  *)
(* two has every relation of the attributes the code tells apart; a        *)
(* handful of bytes written in ones and twos wraps the credit around       *)
(* several times.  The sink has a buffer of a few bytes that can be        *)
(* rewound, and the tape is longer than it.                                *)
(***************************************************************************)
EXTENDS PlaybackStream, SinkInputRender, TLC

\* An application that writes what it is asked for, and one that seeks and
\* writes more than that while the latency changes.  Both drain, pause, flush,
\* prebuffer and trigger.
Commands == {"drain", "cork", "uncork", "trigger", "flush", "prebuf"}

MCUses ==
    {[lengths |-> {2}, seeks |-> {<<"RELATIVE", 0>>}, commands |-> Commands,
      bytes |-> 6, calls |-> 2, excess |-> FALSE, requests |-> {}],
     [lengths |-> {1, 2},
      seeks |-> {<<"RELATIVE", 0>>, <<"RELATIVE", 2>>, <<"RELATIVE", -1>>,
                 <<"ABSOLUTE", 0>>},
      commands |-> Commands,
      bytes |-> 2, calls |-> 1, excess |-> TRUE, requests |-> {1}]}

Plain == [extra |-> 0, tape |-> 4, length |-> 7, requests |-> 2, rewrites |-> {},
          arrivals |-> {}, pieces |-> FALSE, corks |-> FALSE, others |-> FALSE,
          rewinds |-> {}]

\* A client that overwrites what it has sent while other inputs have the sink
\* rewound; one that does so, with a resampler, and is paused; and underruns, of
\* a stream among others, of one that is paused, of one that is paused while other
\* inputs have the sink rewound, and of one that overwrites.  A
\* block may arrive at any time, the second of an underrun too.
MCScenes ==
    {[Plain EXCEPT !.tape = 8, !.length = 8, !.rewrites = {1, 2}, !.rewinds = {1, 3},
                   !.pieces = TRUE],
     [Plain EXCEPT !.tape = 8, !.rewrites = {2}, !.extra = 1, !.others = TRUE,
                   !.corks = TRUE],
     [Plain EXCEPT !.arrivals = {1, 3}, !.others = TRUE, !.requests = 1],
     [Plain EXCEPT !.arrivals = {1, 3}, !.corks = TRUE, !.pieces = TRUE],
     [Plain EXCEPT !.tape = 3, !.arrivals = {1}, !.corks = TRUE, !.pieces = TRUE,
                   !.rewinds = {1, 3}],
     [Plain EXCEPT !.arrivals = {1, 3}, !.rewrites = {2}, !.rewinds = {3}]}

VARIABLE part

mcVars == <<part, pbVars, riVars>>

MCInit ==
    /\ part \in {"stream", "render"}
    /\ PbInit /\ RiInit
    \* those at rest need one initial state only
    /\ part = "stream" \/ use = CHOOSE u \in MCUses : TRUE
    /\ part = "render" \/ scene = CHOOSE s \in MCScenes : TRUE

MCNext ==
    \/ part = "stream" /\ PbNext /\ UNCHANGED <<part, riVars>>
    \/ part = "render" /\ RiNext /\ UNCHANGED <<part, pbVars>>

\* The fairness of PbSpec, for the application that writes what it is asked for.
Asking == part = "stream" /\ ~use.excess
Stream(A) == Asking /\ A /\ UNCHANGED use

MCSpec ==
    /\ MCInit /\ [][MCNext]_mcVars
    /\ WF_pbVars(Stream(Write)) /\ WF_pbVars(Stream(ClientReceives))
    /\ WF_pbVars(Stream(MainThread)) /\ WF_pbVars(Stream(Render))
    /\ WF_pbVars(Stream(sink_input_process_msg))

\* The flow control of a stream: what the client may send and what the server
\* misses agree through seeks, flushes and overruns, no request and no seek is
\* forgotten but for the exceptions these state, a drain that had to wait is
\* answered when the data was played and not before, and an application that
\* writes when it is asked to gets rid of all it has.
FlowControlCorrect ==
    /\ [](/\ PbTypeOK /\ RequestPosted
          /\ CreditConserved /\ SeekNotForgotten /\ RewriteReported)
    /\ DrainedMeansPlayed
    /\ Asking => DrainAnswered /\ ApplicationServed
=============================================================================
