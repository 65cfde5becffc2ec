------------------------------ MODULE PStream ------------------------------
(***************************************************************************)
(* pulsecore/pstream.c and iochannel.c: two processes exchange frames over *)
(* a socket and, after a handshake, over the shared ring buffers of        *)
(* srbchannel.c.  A frame is a descriptor and a payload; both are written  *)
(* and read in pieces.  A pass of do_pstream_read_write writes and reads   *)
(* the ring first, then reads the socket once, then writes while it can.   *)
(* The traffic is that of a connection being set up (pulse/context.c,      *)
(* protocol-native.c): the server offers the ring after the client has     *)
(* authenticated, the client accepts, and data and releases follow once    *)
(* the client is ready.                                                    *)
(***************************************************************************)
EXTENDS Integers, Sequences, FiniteSetsExt, SequencesExt

CONSTANTS IoRoom,      \* bytes the socket takes in each direction
          RingRoom,    \* bytes a ring takes
          MaxData      \* bound: blocks the client sends

ASSUME PStreamAssumption ==
    IoRoom \in Nat \ {0} /\ RingRoom \in Nat \ {0} /\ MaxData \in Nat

VARIABLES queue, current, windex,   \* send_queue, write.current, write.index
          srb, srbpending,          \* the ring is in use; it is to be used
          defer_event,                 \* the defer event is enabled
          readable, writable,       \* of the iochannel
          dead,
          io, ring,                 \* bytes on their way, by sender
          rio, rring,               \* the frame being read from each
          sent, received,           \* all items, by sender and by receiver
          ready,                    \* the client has got its name
          data,                     \* blocks the client has sent
          epc, back                  \* where each side is in its pass

psVars == <<queue, current, windex, srb, srbpending, defer_event, readable,
            writable, dead, io, ring, rio, rring, sent, received, ready, data,
            epc, back>>
readVars == <<rio, rring, received>>
passVars == <<epc, back>>

Ends == {"client", "server"}
FarEnd(e) == CHOOSE f \in Ends : f # e

\* The descriptor takes two of the model's bytes
Descriptor == 2

\* PA_PSTREAM_DESCRIPTOR_LENGTH of a frame: a release has no payload
Length(item) == CASE item.cmd = "release" -> 0 [] item.cmd = "data" -> 2 [] OTHER -> 1

\* Small frames are copied to the minibuf and written in one piece
Mini(item) == item.cmd \notin {"release", "data"}

Byte(item, k) == [item |-> item, k |-> k]
Cmd(c) == [cmd |-> c, n |-> 0]

PsInit ==
    /\ queue = [e \in Ends |-> IF e = "client" THEN <<Cmd("auth")>> ELSE <<>>]
    /\ sent = queue
    /\ current = [e \in Ends |-> <<>>] /\ windex = [e \in Ends |-> 0]
    /\ srb = [e \in Ends |-> FALSE] /\ srbpending = [e \in Ends |-> FALSE]
    /\ defer_event = [e \in Ends |-> e = "client"]
    /\ readable = [e \in Ends |-> FALSE] /\ writable = [e \in Ends |-> FALSE]
    /\ dead = [e \in Ends |-> FALSE]
    /\ io = [e \in Ends |-> <<>>] /\ ring = [e \in Ends |-> <<>>]
    /\ rio = [e \in Ends |-> <<>>] /\ rring = [e \in Ends |-> <<>>]
    /\ received = [e \in Ends |-> <<>>]
    /\ ready = FALSE /\ data = 0
    /\ epc = [e \in Ends |-> "idle"] /\ back = [e \in Ends |-> "idle"]

-----------------------------------------------------------------------------
(* do_write                                                                *)

GoOn(e, at) == epc' = [epc EXCEPT ![e] = at]

Pending(e) == current[e] # <<>> \/ queue[e] # <<>>

\* check_srbpending, when there is nothing left to write
Switch(e) ==
    /\ ~Pending(e)
    /\ srb' = [srb EXCEPT ![e] = @ \/ srbpending[e]]
    /\ srbpending' = [srbpending EXCEPT ![e] = FALSE]
    /\ UNCHANGED <<queue, current, windex, writable, io, ring>>

\* What is written: the current item or the next one, the piece it is in (l)
\* and how much of it the ring or the socket takes (r).  A short write on the
\* socket makes the iochannel wait until it is writable again.
Piece(item, at) ==
    IF Mini(item) THEN Descriptor + Length(item) - at
    ELSE IF at < Descriptor THEN Descriptor - at ELSE Descriptor + Length(item) - at

Room(e) == IF srb[e] THEN RingRoom - Len(ring[e]) ELSE IoRoom - Len(io[e])

WriteItem(e) == IF current[e] = <<>> THEN Head(queue[e]) ELSE current[e][1]
WriteAt(e) == IF current[e] = <<>> THEN 0 ELSE windex[e]
WriteLen(e) == Piece(WriteItem(e), WriteAt(e))
Written(e) == Min({WriteLen(e), Room(e)})

Write(e) ==
    LET item == WriteItem(e)
        at == WriteAt(e)
        r == Written(e)
        bytes == [k \in 1..r |-> Byte(item, at + k)]
        complete == at + r >= Descriptor + Length(item)
    IN /\ Pending(e)
       /\ queue' = IF current[e] = <<>> THEN [queue EXCEPT ![e] = Tail(@)] ELSE queue
       /\ current' = [current EXCEPT ![e] = IF complete THEN <<>> ELSE <<item>>]
       /\ windex' = [windex EXCEPT ![e] = IF complete THEN 0 ELSE at + r]
       /\ IF srb[e] THEN ring' = [ring EXCEPT ![e] = @ \o bytes] /\ UNCHANGED io
                    ELSE io' = [io EXCEPT ![e] = @ \o bytes] /\ UNCHANGED ring
       /\ writable' = [writable EXCEPT ![e] = @ /\ (srb[e] \/ r = WriteLen(e))]
       /\ UNCHANGED <<srb, srbpending>>

do_write(e) == Switch(e) \/ Write(e)

\* do_write returns 1 when it has written its whole piece
WroteAll(e) == Pending(e) /\ Written(e) = WriteLen(e)

-----------------------------------------------------------------------------
(* do_read                                                                 *)

\* The next piece of the frame f: the rest of its descriptor or of its payload
ReadLen(f) ==
    IF Len(f) < Descriptor THEN Descriptor - Len(f)
    ELSE Descriptor + Length(f[1].item) - Len(f)

\* A frame is complete with its last byte; a release with its descriptor
Complete(f) == Len(f) >= Descriptor /\ Len(f) >= Descriptor + Length(f[1].item)

\* What the server sends in return: setup_srbchannel follows authentication
ServerAnswer(item) ==
    CASE item.cmd = "auth"     -> <<Cmd("auth_reply"), Cmd("enable"), Cmd("block")>>
      [] item.cmd = "set_name" -> <<Cmd("name_reply")>>
      [] item.cmd = "data"     -> <<[cmd |-> "release", n |-> item.n]>>
      [] OTHER -> <<>>

\* ... and the client: setup_complete_callback, handle_srbchannel_memblock
ClientAnswer(item) ==
    CASE item.cmd = "auth_reply" -> <<Cmd("set_name")>>
      [] item.cmd = "block"      -> <<Cmd("ack")>>
      [] OTHER -> <<>>

Answer(e, item) == IF e = "server" THEN ServerAnswer(item) ELSE ClientAnswer(item)

Bug_Ready(item) == item.cmd = "auth_reply"

\* The client may create streams once it has got its name
Ready(item) == item.cmd = "name_reply"

\* pa_pstream_set_srbchannel: the switch is tried at once, by a do_write
SetsChannel(item) == item.cmd \in {"block", "ack"}

Deliver(e, item, next) ==
    /\ received' = [received EXCEPT ![e] = Append(@, item)]
    /\ queue' = [queue EXCEPT ![e] = @ \o Answer(e, item)]
    /\ sent' = [sent EXCEPT ![e] = @ \o Answer(e, item)]
    /\ defer_event' = [defer_event EXCEPT ![e] = @ \/ Answer(e, item) # <<>>]
    /\ ready' = (ready \/ Ready(item))
    /\ srbpending' = [srbpending EXCEPT ![e] = @ \/ SetsChannel(item)]
    /\ IF SetsChannel(item)
       THEN GoOn(e, "set_srbchannel") /\ back' = [back EXCEPT ![e] = next]
       ELSE GoOn(e, next) /\ UNCHANGED back

Read(e, f, next) ==
    IF Complete(f)
    THEN Deliver(e, f[1].item, next)
    ELSE /\ GoOn(e, next)
         /\ UNCHANGED <<received, queue, sent, defer_event, ready, srbpending, back>>

Incomplete(f) == IF Complete(f) THEN <<>> ELSE f

-----------------------------------------------------------------------------
(* A pass of do_pstream_read_write                                         *)

FirstStep(e) == IF srb[e] THEN "srb_write" ELSE "io_read"

\* The main loop calls the iochannel: the socket has become readable or
\* writable
IoCallback(e) ==
    LET in == ~readable[e] /\ io[FarEnd(e)] # <<>>
        out == ~writable[e] /\ Len(io[e]) < IoRoom
    IN /\ ~dead[e] /\ epc[e] = "idle" /\ (in \/ out)
       /\ readable' = [readable EXCEPT ![e] = @ \/ in]
       /\ writable' = [writable EXCEPT ![e] = @ \/ out]
       /\ defer_event' = [defer_event EXCEPT ![e] = FALSE]
       /\ GoOn(e, FirstStep(e))
       /\ UNCHANGED <<queue, current, windex, srb, srbpending, dead, io, ring,
                      readVars, sent, ready, data, back>>

DeferCallback(e) ==
    /\ ~dead[e] /\ epc[e] = "idle" /\ defer_event[e]
    /\ defer_event' = [defer_event EXCEPT ![e] = FALSE]
    /\ GoOn(e, FirstStep(e))
    /\ UNCHANGED <<queue, current, windex, srb, srbpending, readable, writable,
                   dead, io, ring, readVars, sent, ready, data, back>>

\* The semaphore of the ring is signalled: there is something in it, or room
SrbCallback(e) ==
    /\ ~dead[e] /\ epc[e] = "idle" /\ srb[e]
    /\ ring[FarEnd(e)] # <<>> \/ (Pending(e) /\ Room(e) > 0)
    /\ defer_event' = [defer_event EXCEPT ![e] = FALSE]
    /\ GoOn(e, FirstStep(e))
    /\ UNCHANGED <<queue, current, windex, srb, srbpending, readable, writable,
                   dead, io, ring, readVars, sent, ready, data, back>>

SrbWrite(e) ==
    /\ epc[e] = "srb_write"
    /\ do_write(e)
    /\ GoOn(e, "srb_read")
    /\ UNCHANGED <<defer_event, readable, dead, readVars, sent, ready, data, back>>

\* The ring is read until it is empty
SrbRead(e) ==
    LET from == ring[FarEnd(e)]
        r == Min({Len(from), ReadLen(rring[e])})
        f == rring[e] \o SubSeq(from, 1, r)
    IN /\ epc[e] = "srb_read"
       /\ \/ /\ from = <<>>
             /\ GoOn(e, "io_read")
             /\ UNCHANGED <<ring, rring, received, queue, sent, defer_event, ready,
                            srbpending, back>>
          \/ /\ from # <<>>
             /\ ring' = [ring EXCEPT ![FarEnd(e)] = SubSeq(from, r + 1, Len(from))]
             /\ rring' = [rring EXCEPT ![e] = Incomplete(f)]
             /\ Read(e, f, "srb_read")
       /\ UNCHANGED <<current, windex, srb, readable, writable, dead, io, rio, data>>

\* The socket is read once; the kernel may give less than what is there
IoRead(e) ==
    LET from == io[FarEnd(e)] IN
    /\ epc[e] = "io_read"
    /\ \/ /\ ~readable[e]
          /\ GoOn(e, "io_write")
          /\ UNCHANGED <<io, rio, readable, received, queue, sent, defer_event,
                         ready, srbpending, back>>
       \/ /\ readable[e]
          /\ readable' = [readable EXCEPT ![e] = FALSE]
          /\ \E r \in 1..Min({Len(from), ReadLen(rio[e])}) :
                LET f == rio[e] \o SubSeq(from, 1, r) IN
                /\ io' = [io EXCEPT ![FarEnd(e)] = SubSeq(from, r + 1, Len(from))]
                /\ rio' = [rio EXCEPT ![e] = Incomplete(f)]
                /\ Read(e, f, "io_write")
    /\ UNCHANGED <<current, windex, srb, writable, dead, ring, rring, data>>

\* The do_write of pa_pstream_set_srbchannel, called from a callback
SetSrbChannel(e) ==
    /\ epc[e] = "set_srbchannel"
    /\ do_write(e)
    /\ GoOn(e, back[e])
    /\ UNCHANGED <<defer_event, readable, dead, readVars, sent, ready, data, back>>

\* The end of the pass: writes while the socket is writable and pieces are
\* written whole
IoWrite(e) ==
    /\ epc[e] = "io_write"
    /\ IF writable[e]
       THEN /\ do_write(e)
            /\ GoOn(e, IF WroteAll(e) THEN "io_write" ELSE "idle")
       ELSE /\ GoOn(e, "idle")
            /\ UNCHANGED <<queue, current, windex, srb, srbpending, writable, io, ring>>
    /\ UNCHANGED <<defer_event, readable, dead, readVars, sent, ready, data, back>>

\* The application sends a block: pa_pstream_send_memblock
SendData ==
    LET item == [cmd |-> "data", n |-> data + 1] IN
    /\ ready /\ data < MaxData /\ epc["client"] = "idle" /\ ~dead["client"]
    /\ data' = data + 1
    /\ queue' = [queue EXCEPT !["client"] = Append(@, item)]
    /\ sent' = [sent EXCEPT !["client"] = Append(@, item)]
    /\ defer_event' = [defer_event EXCEPT !["client"] = TRUE]
    /\ UNCHANGED <<current, windex, srb, srbpending, readable, writable, dead,
                   io, ring, readVars, ready, passVars>>

\* The other side has gone: the next pass fails and the stream is unlinked
Hangup(e) ==
    /\ ~dead[e] /\ epc[e] = "idle"
    /\ dead' = [dead EXCEPT ![e] = TRUE]
    /\ UNCHANGED <<queue, current, windex, srb, srbpending, defer_event, readable,
                   writable, io, ring, readVars, sent, ready, data, passVars>>

MainLoopPass(e) ==
    \/ IoCallback(e) \/ DeferCallback(e) \/ SrbCallback(e)
    \/ SrbWrite(e) \/ SrbRead(e) \/ IoRead(e) \/ SetSrbChannel(e) \/ IoWrite(e)

PsNext == SendData \/ \E e \in Ends : MainLoopPass(e) \/ Hangup(e)

\* Both main loops run.
PsSpec == PsInit /\ [][PsNext]_psVars /\ \A e \in Ends : WF_psVars(MainLoopPass(e))

-----------------------------------------------------------------------------
(* Properties                                                              *)

Frame(f) == \A k \in DOMAIN f : f[k] = Byte(f[1].item, k)

PsTypeOK ==
    /\ \A e \in Ends : /\ Len(io[e]) <= IoRoom /\ Len(ring[e]) <= RingRoom
                       /\ Len(current[e]) <= 1
                       /\ windex[e] \in 0..(Descriptor + 2)
    /\ srb \in [Ends -> BOOLEAN] /\ srbpending \in [Ends -> BOOLEAN]
    /\ readable \in [Ends -> BOOLEAN] /\ writable \in [Ends -> BOOLEAN]
    /\ epc \in [Ends -> {"idle", "srb_write", "srb_read", "io_read",
                         "io_write", "set_srbchannel"}]

\* What a side is reading is always the beginning of one frame, on the socket
\* as well as on the ring: a frame is never continued on the other channel, and
\* pieces are put together as they were cut.
FramesIntact == \A e \in Ends : Frame(rio[e]) /\ Frame(rring[e])

\* Frames arrive in the order in which they were sent, also across the switch
\* from the socket to the ring ("The out queue is empty, so switching channels
\* is safe").
InOrder == \A e \in Ends : IsPrefix(received[e], sent[FarEnd(e)])

\* As long as both sides live, everything that was sent arrives: the switch
\* happens, and no side waits for the other for ever.
AllReceived ==
    <>[](\/ \E e \in Ends : dead[e]
         \/ \A e \in Ends : Len(received[FarEnd(e)]) = Len(sent[e]))
=============================================================================
