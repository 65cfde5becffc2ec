---------------------------- MODULE MCTransport ----------------------------
(***************************************************************************)
(* How a client and the server exchange packets and audio: the ring in     *)
(* shared memory, the packet stream that begins on a socket and moves to   *)
(* the ring, and blocks of memory shared by threads and by processes.      *)
(* Each is explored with the others at rest, as `part` says.               *)
(*                                                                         *)
(* Rings of two bytes and up to three bytes in each direction: both rings  *)
(* wrap and fill, so that both kinds of signal are needed.  The stream     *)
(* carries the handshake and three blocks with their releases; the socket  *)
(* takes one small frame and a byte, so that writes to it are cut, and its *)
(* rings take one byte.  Two blocks of one pool, whose owners may want     *)
(* them back at once, are accessed by two users and by one.  A client's    *)
(* pool of three cells has two export slots, so that slots are reused and  *)
(* blocks are also sent as data when no slot is free; the import table is  *)
(* no larger than the export table, where the code has 160 against 128.    *)
(***************************************************************************)
EXTENDS SrbChannel, PStream, MemBlock, MemShare

CONSTANTS c1, c2, c3, b1, b2, u1, u2
MCCells == {c1, c2, c3}
MCBlocks == {b1, b2}
MCSharings == {[b \in MCBlocks |-> IF b = b1 THEN {u1, u2} ELSE {u2}]}

VARIABLE part

mcVars == <<part, srbVars, psVars, mbVars, msVars>>

MCInit ==
    /\ part \in {"srbchannel", "pstream", "threads", "processes"}
    /\ SrbInit /\ PsInit /\ MbInit /\ MsInit

MCNext ==
    \/ part = "srbchannel" /\ SrbNext /\ UNCHANGED <<part, psVars, mbVars, msVars>>
    \/ part = "pstream" /\ PsNext /\ UNCHANGED <<part, srbVars, mbVars, msVars>>
    \/ part = "threads" /\ MbNext /\ UNCHANGED <<part, srbVars, psVars, msVars>>
    \/ part = "processes" /\ MsNext /\ UNCHANGED <<part, srbVars, psVars, mbVars>>

MCSpec ==
    /\ MCInit /\ [][MCNext]_mcVars
    /\ \A s \in Sides : WF_srbVars(part = "srbchannel" /\ Pass(s))
    /\ \A e \in Ends : WF_psVars(part = "pstream" /\ MainLoopPass(e))
    /\ \A b \in Blocks :
        /\ WF_mbVars(part = "threads" /\ pa_memblock_unref_fixed(b))
        /\ \A u \in Users : WF_mbVars(part = "threads" /\ UserDuties(u, b))
    /\ WF_msVars(part = "processes" /\ pa_memexport_process_release)
    /\ WF_msVars(part = "processes" /\ Receive)
    /\ WF_msVars(part = "processes" /\ Rt)
    /\ WF_msVars(part = "processes" /\ SendRelease)
    /\ \A k \in Numbers :
        /\ WF_msVars(part = "processes" /\ RtUnref(k))
        /\ \A who \in {"main", "export"} :
             WF_msVars(part = "processes" /\ MainUnref(who, k))

\* The packet stream keeps frames whole and in order across the switch from the
\* socket to the ring, and as long as both sides live everything that was sent
\* arrives (which is said of behaviours in which the stream is what moves).
PacketStreamCorrect ==
    /\ [](PsTypeOK /\ FramesIntact /\ InOrder)
    /\ part = "pstream" => AllReceived
=============================================================================
