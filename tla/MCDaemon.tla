----------------------------- MODULE MCDaemon ------------------------------
(***************************************************************************)
(* The life of the daemon and of what it has loaded: which process is the  *)
(* daemon, its modules, the poll loop of a real-time thread and the        *)
(* reading of one packet in a work callback of that loop.  Each is         *)
(* explored with the others at rest, as `part` says.                       *)
(*                                                                         *)
(* Four loads are enough for two sinks and two streams: a stream moved     *)
(* from the sink it was loaded for to one that was loaded before or after  *)
(* it, and a module unloaded twice over.  Two daemons start, stop, crash   *)
(* and are killed by a third process.  A stream comes and goes while the   *)
(* sink is suspended and resumed, with the entries of the device behind    *)
(* its own in the array.  The packets have sizes on both sides of every    *)
(* comparison, radiotap headers of common drivers, and one that claims     *)
(* more than was received; the buffer is small enough for the longest      *)
(* frames to be cut.                                                       *)
(***************************************************************************)
EXTENDS IwabModules, PidFile, RtPoll, IwabRead

MCForeignSizes ==
    UNION {{n, n + 1} : n \in {1, DOT11, DOT11 + QOS + L2, Headers, Headers + FCS}}

VARIABLE part

mcVars == <<part, modVars, pfVars, rtVars, rdVars>>

MCInit ==
    /\ part \in {"modules", "pid file", "rtpoll", "iwab_read"}
    /\ ModInit /\ PfInit /\ RtInit /\ RdInit
    \* those at rest need one initial state only
    /\ part = "iwab_read" \/ errno = "other"

MCNext ==
    \/ part = "modules" /\ ModNext /\ UNCHANGED <<part, pfVars, rtVars, rdVars>>
    \/ part = "pid file" /\ PfNext /\ UNCHANGED <<part, modVars, rtVars, rdVars>>
    \/ part = "rtpoll" /\ RtNext /\ UNCHANGED <<part, modVars, pfVars, rdVars>>
    \/ part = "iwab_read" /\ RdNext /\ UNCHANGED <<part, modVars, pfVars, rtVars>>

MCSpec ==
    /\ MCInit /\ [][MCNext]_mcVars
    /\ WF_modVars(part = "modules" /\ MainLoop)
    /\ WF_rtVars(part = "rtpoll" /\ Thread)
    /\ SF_rtVars(part = "rtpoll" /\ PollSucceeds)
    /\ WF_rdVars(part = "iwab_read" /\ (WouldBlock \/ Received))
=============================================================================
