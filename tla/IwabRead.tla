------------------------------ MODULE IwabRead ------------------------------
(***************************************************************************)
(* The receiving half of modules/iwab/net.c: iwab_read takes a packet off  *)
(* a raw socket, which delivers every frame the interface hears, behind a  *)
(* radiotap header whose length the driver chooses, and decides from sizes *)
(* alone where the audio is.  All sizes are compared as size_t, so a       *)
(* packet shorter than its headers makes the differences wrap; errno is    *)
(* not set on that path.  The caller is the loop of rtpoll_work_cb in      *)
(* iwab-input.c, which reads errno.                                        *)
(*                                                                         *)
(* A packet is described by what the code looks at: its size, the length   *)
(* its radiotap header claims, and whether the 802.11 header is that of a  *)
(* QoS data frame with the iwab addresses.                                 *)
(***************************************************************************)
EXTENDS Integers, Sequences, FiniteSets

CONSTANTS SizeMod,      \* 2^64: size_t wraps here
          RtLengths,    \* radiotap lengths of the drivers in use
          Payloads,     \* payload sizes of iwab senders
          ForeignSizes, \* sizes of the frames of other stations
          BufferSize,   \* MAX_FRAME_SIZE of iwab-input.c
          MaxPackets    \* bound on the packets taken

RADIOTAP == 13
DOT11    == 24
QOS      == 2
L2       == 14
IWAB     == 24
FCS      == 4
Headers  == DOT11 + QOS + L2 + IWAB

ASSUME ReadAssumption ==
    /\ SizeMod \in Nat /\ BufferSize \in Nat
    /\ RtLengths \subseteq Nat /\ Payloads \subseteq Nat \ {0}
    /\ ForeignSizes \subseteq Nat
    /\ \A r \in RtLengths : r + BufferSize + Headers + FCS < SizeMod \div 2

VARIABLES socket,     \* packets in the receive buffer
          taken,      \* how many have been received
          errno,      \* of the real-time thread
          in_loop,    \* the callback is in its for (;;)
          out         \* what the last iwab_read did, and to which packet

rdVars == <<socket, taken, errno, in_loop, out>>

\* size_t
Minus(a, b) == (a - b) % SizeMod
\* The value of a size_t returned as ssize_t
Signed(a) == IF a < SizeMod \div 2 THEN a ELSE a - SizeMod

AtMostBuffer(n) == IF n < BufferSize THEN n ELSE BufferSize

Bug_iwab_read(pk) ==
    LET size == AtMostBuffer(pk.size)
        at(n) == pk.rt + n
    IN  IF size <= RADIOTAP \/ ~ pk.iwab \/ Minus(size, at(Headers)) <= FCS
        THEN [l |-> -2, offset |-> 0, sets |-> TRUE]
        ELSE [l |-> Signed(Minus(size, at(Headers))),
              offset |-> at(Headers), sets |-> FALSE]

\* iwab_read of packet pk after a successful recv: the value returned, the
\* offset of the audio, and whether errno was set to EAGAIN.
iwab_read(pk) ==
    LET size == AtMostBuffer(pk.size)
        dot11 == pk.rt
        l2 == dot11 + DOT11 + QOS
        iw == l2 + L2
        data == iw + IWAB
        reject(l, o) == [l |-> l, offset |-> o, sets |-> TRUE]
    IN  CASE size <= RADIOTAP                              -> reject(-2, 0)
          [] OTHER ->
        CASE Minus(size, dot11) <= DOT11                   -> reject(-3, dot11)
          [] OTHER ->
        CASE Minus(size, l2) <= L2 \/ ~ pk.qosdata         -> reject(-4, l2)
          [] OTHER ->
        CASE ~ pk.iwab                                     -> reject(-5, l2)
          [] OTHER ->
        CASE Minus(size, iw) <= IWAB                       -> reject(-6, iw)
          [] OTHER ->
        CASE Minus(size, data) <= FCS                      -> reject(-7, data)
          [] OTHER -> [l |-> Signed(Minus(size, data + FCS)),
                       offset |-> data, sets |-> FALSE]

\* A frame of an iwab sender: iwab_send puts the headers before the payload,
\* the radio adds the checksum, the driver the radiotap header.
IwabPacket(r, n) ==
    [rt |-> r, size |-> r + Headers + n + FCS, qosdata |-> TRUE, iwab |-> TRUE]

\* Any other frame.  Whatever its size, its addresses may look like those of
\* an iwab frame (they are all zero), and on an interface that is not in
\* monitor mode there is no radiotap header: the length is then any two bytes.
ForeignPacket(r, n, q, w) == [rt |-> r, size |-> n, qosdata |-> q, iwab |-> w]

Nothing == [packet |-> <<>>, l |-> -1, offset |-> 0]

RdInit == /\ socket = <<>> /\ taken = 0 /\ errno \in {"EAGAIN", "EINTR", "other"}
          /\ in_loop = FALSE /\ out = Nothing

Hear(pk) == /\ taken < MaxPackets /\ taken' = taken + 1
            /\ socket' = Append(socket, pk)
            /\ UNCHANGED <<errno, in_loop, out>>

\* rtpoll_work_cb is called because the socket was readable
WorkCallback == /\ ~ in_loop /\ socket # <<>>
                /\ in_loop' = TRUE
                /\ UNCHANGED <<socket, taken, errno, out>>

Interrupted == /\ in_loop
               /\ errno' = "EINTR"
               /\ out' = Nothing
               /\ UNCHANGED <<socket, taken, in_loop>>

WouldBlock == /\ in_loop /\ socket = <<>>
              /\ errno' = "EAGAIN" /\ in_loop' = FALSE
              /\ out' = Nothing
              /\ UNCHANGED <<socket, taken>>

\* A negative value with EINTR left over from an earlier call is retried, and
\* so takes the next packet.
Received ==
    LET r == iwab_read(Head(socket)) IN
    /\ in_loop /\ socket # <<>>
    /\ socket' = Tail(socket)
    /\ out' = [packet |-> <<Head(socket)>>, l |-> r.l, offset |-> r.offset]
    /\ errno' = IF r.sets THEN "EAGAIN" ELSE errno
    /\ in_loop' = (r.l < 0 /\ errno' = "EINTR")
    /\ UNCHANGED taken

RdNext ==
    \/ \E r \in RtLengths, n \in Payloads : Hear(IwabPacket(r, n))
    \/ \E r \in RtLengths, n \in ForeignSizes, q, w \in BOOLEAN :
          Hear(ForeignPacket(r, n, q, w)) \/ Hear(ForeignPacket(r, r + n, q, w))
    \/ WorkCallback \/ Interrupted \/ WouldBlock \/ Received

\* The thread runs, and signals do not interrupt every recv().
RdSpec == RdInit /\ [][RdNext]_rdVars /\ WF_rdVars(WouldBlock \/ Received)

-----------------------------------------------------------------------------
(* Properties                                                              *)

RdTypeOK ==
    /\ Len(socket) <= MaxPackets /\ taken \in 0 .. MaxPackets
    /\ errno \in {"EAGAIN", "EINTR", "other"} /\ in_loop \in BOOLEAN

\* However short the packet and however long its radiotap header claims to be,
\* a chunk that is accepted lies inside what was received, in front of the
\* checksum, and is not empty: every difference that wrapped makes the value
\* returned negative in the end.
AcceptedInside ==
    out.l >= 0 =>
        LET pk == out.packet[1] IN
        /\ out.l > 0
        /\ out.offset + out.l + FCS <= AtMostBuffer(pk.size)

\* What an iwab sender put into a frame is what its receiver takes out,
\* whatever the length of the driver's radiotap header, as long as the whole
\* frame fits into the buffer.
PayloadKept ==
    out.packet # <<>> =>
        LET pk == out.packet[1] IN
        \A r \in RtLengths, n \in Payloads :
            pk = IwabPacket(r, n) /\ r + Headers + n + FCS <= BufferSize
                /\ r + Headers + n + FCS > RADIOTAP
                => out.l = n /\ out.offset = r + Headers

\* The callback gives the real-time thread back: a stale EINTR makes it read
\* again but not for ever.
CallbackReturns == []<>(~ in_loop)

\* What iwab_read hands on lies inside the packet and is the whole payload, and
\* the callback that reads packets ends.
DecodingCorrect == [](RdTypeOK /\ AcceptedInside /\ PayloadKept) /\ CallbackReturns
=============================================================================
