----------------------------- MODULE MCIwabSink -----------------------------
(***************************************************************************)
(* A small sender.  One audio frame lasts 2.5 clock units, so a packet of  *)
(* one frame is dated 2 units long and one of two frames 5: the conversions *)
(* truncate as they do at 44100 Hz.                                        *)
(***************************************************************************)
EXTENDS IwabSink

MCLatencies == {3, 5}
=============================================================================
