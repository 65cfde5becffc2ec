----------------------------- MODULE MCIwabCast -----------------------------
(* A small broadcast; one audio frame lasts 2.5 clock units.               *)
EXTENDS IwabCast

\* A sender that may be resumed at any time can send without end at one
\* instant; its stream is cut off here.
MaxPos == 4
StreamBound == next_pos <= MaxPos
=============================================================================
