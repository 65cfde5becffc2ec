----------------------------- MODULE IwabStream -----------------------------
(***************************************************************************)
(* The whole path: the sender of iwab-sink.c with its two threads, the     *)
(* air, and the receiver of iwab-input.c.                                  *)
(***************************************************************************)
EXTENDS IwabSink, IwabInput

streamAllVars == <<sinkVars, inputVars>>

StreamInit == SinkInit /\ InputInit

StreamNext ==
    \/ SinkNext /\ UNCHANGED inputVars
    \/ InputNext /\ UNCHANGED sinkVars

StreamSpec == StreamInit /\ [][StreamNext]_streamAllVars

\* The assertion in rtpoll_work_cb, "pa_assert(u->istream.iw_in->timestamp >
\* u->last_pb_ts)", never brings the receiving daemon down.
ReceiverSurvives == ~aborted
=============================================================================
