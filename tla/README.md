# iwab: audio broadcast over raw 802.11, modelled in TLA+

`iwab` is a fork of PulseAudio with two modules of its own: `module-iwab-sink`
broadcasts what is played to it as raw 802.11 frames through a monitor
interface, `module-iwab-input` receives such a broadcast and plays it to a sink.
Nothing is acknowledged; every packet is simply sent twice. This directory holds
TLA+ modules that model the two modules and the concurrent core of PulseAudio
around them (queues, poll loops, memory sharing, packet streams, playback
streams, start-up locks), the TLC runs that check them on small instances, and
TLAPS proofs.

`PROJECT.json` maps each definition to the source lines it models and lists
runs, mutants, hazards, findings and theorems.

## 1. Inventory

| Component | State | Operations | Interacts with |
|---|---|---|---|
| **iwab sink** `src/modules/iwab/iwab-sink.c` | `stream_ts_abs`, `stream_resend_abs`, `retries`, `chunk`, the packet header; shared with the sink core: `state`, `max_request`, `rewind_requested` | `thread_func` (render and send, resend, sleep), handlers for SET_STATE, GET_LATENCY, latency updates and rewinds, `pa__init`, `pa__done` | main thread by synchronous messages, poll loop by timer, receiver by frames |
| **iwab input** `iwab-input.c` | `seqnb`, `last_pb_ts`, the audio queue, `rtpoll_item` | `rtpoll_work_cb` (read, accept or ignore, fill gaps, queue), pop, rewind, attach, detach, kill | runs in the real-time thread of whatever sink it plays to |
| **wire protocol** `net.c`, `net.h` | the header kept between sends; the socket | `iwab_send`, `iwab_read`, `iwab_open`, `iwab_close` | both modules |
| **memblockq** `pulsecore/memblockq.c` | list of memchunks with read and write index, attributes, `in_prebuf`, `missing`, `requested` | push, seek, peek, drop, rewind, flush, setters, `pop_missing` | receiver, playback stream, render queue |
| **sample conversions** `pulse/sample.c` | none | `pa_bytes_to_usec`, `pa_usec_to_bytes`, both truncating | timestamps, gap lengths |
| **sink core** `pulsecore/sink.c` | `s->state` (main thread), `thread_info` (real-time thread) | `sink_set_state`, put, unlink, `process_msg`, render, rewind | both threads |
| **message queues** `asyncmsgq.c`, `asyncq.c`, `fdsem.c`, `flist.c`, `thread-mq.c` | lock-free ring, counting descriptor, free lists | post, send, get, done, poll hooks | every pair of threads |
| **lock-free update** `aupdate.c` | `read_lock` (bit and counter), `write_lock`, semaphore, two copies | read and write sections | hook lists read from real-time code |
| **poll loop** `rtpoll.c` | items, pollfd array, timer, `quit` | `pa_rtpoll_run`, item new and free, rebuild | every real-time thread |
| **module lifecycle** `module.c`, `core.c`, `pa__init`, `pa__done` | modules, `modules_pending_unload`, descriptors, streams, sinks | load with its failure paths, unload by user, message, deferred event and shutdown | everything above |
| **PID file** `pid.c` | file, lock, process id | create, remove, kill | daemons, other processes |
| **memory pool** `memblock.c` | reference and access counts, export slots, import tables, segments | ref, unref, acquire, release, `unref_fixed`, export, import, release, revoke | threads and processes |
| **packet stream** `pstream.c`, `iochannel.c`, `srbchannel.c` | send queue, partial frames, two rings and a semaphore | queue, read and write in pieces, switch from socket to ring | client and server |
| **main loop** `mainloop.c`, `thread-mainloop.c` | event lists, counters, cached timer, wake-up pipe; lock, conditions | new, enable, restart, free, prepare, poll, dispatch, quit; lock, wait, signal, accept, start, stop | applications |
| **client context** `context.c`, `operation.c`, `pdispatch.c` | registered replies, operations, drain callbacks | send, reply, time out, cancel, drain, disconnect | packet stream |
| **autospawn lock** `lock-autospawn.c`, lock file functions of `core-util.c` | lock file, state, pipe, helper thread | acquire, release, unref | contexts of several processes |
| **playback stream** `protocol-native.c`, `stream.c` | queue, credit, atomics shared by two threads, drain request | write, request, seek, flush, prebuf, trigger, cork, drain | client, main thread, sink thread |
| **sink input** `sink-input.c`, rewinds of `sink.c`, `module-null-sink.c` | render queue, `rewrite_nbytes`, `underrun_for`, `playing_for` | peek, drop, request and process rewinds, cork | implementor and sink |
| rest of PulseAudio | | start-up, remaining commands, volumes, sources, drivers, DSP | not modelled (section 6) |

What is hard here:

- *Two threads.* The main thread sends messages and waits; the real-time thread
  handles at most one in each `pa_rtpoll_run`, so messages interleave with the
  render/resend/sleep decisions, which depend on clock, counter and state.
- *No locks.* Queues, semaphores, free lists and reference counts are built
  from single atomic operations whose order matters.
- *Time.* Timestamps are sums of truncated durations; the receiver recovers gap
  lengths from them, again with truncation.
- *Loss.* Frames are lost, repeated and overtaken; the sender may be suspended
  and its timeline then jumps; the sequence counter is 32 bits wide.
- *Failure.* A failed send or poll makes the thread ask for the unload of its
  own module, while the main thread may be waiting for it; an init fails half
  way; a connection ends with replies outstanding; a process crashes with a lock.
- *Bounded queues.* Prebuffering, overrun, underrun and rewinds; rings that are
  full; export slots that run out.
- *Reentrance.* Callbacks free the events being dispatched, items are freed by
  messages handled while the list is walked, unloading a sink kills streams
  whose modules ask to be unloaded.
- *Long call sequences.* A memblockq is edited by seeks, overwrites and a dozen
  other calls whose bookkeeping is incremental.

What makes each component correct is stated by the properties of section 3; the
40 hazards behind them are listed in `PROJECT.json`.

## 2. Modules

    SampleSpec ── IwabNet ─┬─ IwabSource ────────────┐
                           ├─ IwabSink ──┬─ IwabStream   IwabCast
                           │             │     │            │
    MemBlockQOps ─┬────────┴─ IwabInput ─┴─────┴────────────┘
                  ├─ MemBlockQ
                  ├─ PlaybackStream
                  └─ SinkInputRender
    FdSem ⇒ Semaphore ── AsyncMsgQ ⇒ MsgChannel
                      └─ SrbChannel ── PStream

(a line is EXTENDS or use as an assumption, ⇒ a refinement)

The iwab modules:

- **SampleSpec**: the two conversions. Sizes are counted in audio frames: the C
  code divides by the frame size before and multiplies after, so nothing is
  lost. `Rate` and `UsecPerSec` are constants with `Rate <= UsecPerSec`.
- **IwabNet**: `iwab_send`, the header `iw_h` it keeps, and `air`, the radio
  channel together with the receiver's socket buffer. `air` is a set of frames
  of which a receiver may read any, any number of times or never: loss,
  duplication and reordering need no action. A frame fades once the stream is
  `AirWindow` audio frames past it (`Fade`, external).
  Samples are abstracted to their position in the stream.
- **IwabSource**: the abstract specification of a sender: `Emit`, `Repeat`,
  `Rebase` (the jump on resume), `Stop`.
- **IwabSink**: `iwab-sink.c` with its two threads. `pc` is the place in
  `thread_func`: `start`, `loop` (top of the loop), `run` (entering
  `pa_rtpoll_run`), `poll` (asleep), `fail` (`pa_asyncmsgq_wait_for`), `done`;
  `mpc` is the place in the main thread. The branches of the loop body are
  actions (`RenderAndSend`, `Resend`, `NothingDue`, `NotOpened`), each including
  the rewind processing before it and the timer call after it; `PollWork`,
  `PollSleep`, `PollWake` and `PollFail` are `pa_rtpoll_run`. `inq` holds at
  most one message because `pa_asyncmsgq_send` blocks its caller. `refs` counts
  references to rendered memblocks; after a resend `chunk = NoChunk` stands for
  the pointer to the freed memblock. Streams that are moved or killed by
  `pa_sink_unlink` send their messages before the state change: these are the
  ordinary requests of `SendRequest`.
- **IwabInput**: `iwab-input.c` from a decoded packet on. `heard` is a history
  variable. The queue is a MemBlockQOps record whose unit is the audio frame;
  the memblock of a packet is named by the packet's stream position. `aborted`
  records a failed `pa_assert`.
- **IwabRead**: the decoding before that: `iwab_read` on packets given by their
  size, the radiotap length they claim and their addresses, with the unsigned
  subtractions modulo `SizeMod`, and the loop around it that looks at `errno`.
- **IwabCast** composes IwabSource and IwabInput, **IwabStream** composes
  IwabSink and IwabInput. Since IwabSink implements IwabSource (proved), what
  holds in IwabCast with `Resumable = TRUE` holds for the real sender.
- **IwabModules**: `module.c` with the two modules as what it loads. All of it
  runs in nested calls of the main thread, so the daemon is one record and each
  function an operator on it; the table of descriptors is part of it, because
  both modules close one in their cleanup. The real-time threads step between.

The core they run in:

- **MemBlockQOps**: one operator per function of `memblockq.c` on a record. The
  sorted, overlap-free list becomes the set of its items; that it stays free of
  overlaps is checked (`BlocksDisjoint`). The cursors `current_read` and
  `current_write` only cache a list position and are computed where used.
  **MemBlockQ**: any sequence of these calls; `written` is a history of what was
  pushed to each position.
- **FdSem**: `fdsem.c`, one step for each atomic operation and system call;
  **Semaphore** is what it promises. **AsyncMsgQ**: `asyncq.c` and
  `asyncmsgq.c` on top of that semaphore, with the loops of reader and writers;
  **MsgChannel** is what it promises (accepted once, handled once, in order).
- **FList**: `flist.c`, load and compare-and-swap apart, heads with tags.
  **AUpdate**: `aupdate.c`; the two halves of `read_lock` change together.
- **RtPoll**: `rtpoll.c` with the items a sink's thread has when it plays iwab
  streams; each function is an operator on the record of the loop.
- **PidFile**: `pid.c`; daemons start, stop and crash, ids are reused.

Between client and server:

- **MemBlock**: reference and access counts of a block and
  `pa_memblock_unref_fixed`, one step for each atomic operation. **MemShare**:
  export slots, import tables, releases and the end of a connection.
- **SrbChannel**: the rings. **PStream**: frames cut anywhere, over socket and
  ring, through the handshake that switches from one to the other.
- **MainLoop**: `mainloop.c` with callbacks and other threads changing its
  events. **ThreadedMainloop**: the lock, the two conditions and the three ways
  to use them `thread-mainloop.h` describes. **ClientContext**: operations,
  replies, timeouts, drains. **LockAutospawn**: the lock file, the helper thread
  and the pipe, between threads and processes.
- **PlaybackStream**: the flow control of a stream from `pa_stream_write` to
  the sink input and back, over four queues. **SinkInputRender**: the render
  queue with rewinds, underruns and corking, to the byte that is heard.

- **\*Proofs**: theorems. **MemBlockQFacts**: what the calls of a memblockq
  leave alone and the lemmas about least and greatest numbers, shared by
  MemBlockQProofs and IwabCastProofs. **MC\***: constants for TLC. Definitions named `Bug_*`
  are mutants: plausible mistakes in the definition that follows them, one for
  each property, that TLC must refute.

## 3. Runs

Components that do not share state are checked in one run: its MC module has a
variable `part` that is chosen initially and says which of them moves while the
others rest, so the state graph is the disjoint union of theirs. Fairness is
that of each component, guarded by `part`. The same device lets one run cover
several ways to use a component (`use`, `scene` and `app` are chosen initially
and never change).

| Run | Components | What it shows |
|---|---|---|
| `sink` | IwabSink | Safety and liveness of the sender and the refinement of IwabSource. `MaxTime = 8`: the first packet and at least three more; `MaxCalls = 2` requests besides put and unload: suspend and resume, or a rewind followed by an unlink; packets of 1 or 2 frames; `SeqMod = 4`: the counter wraps. |
| `buffer` | IwabCast, MemBlockQ | The receiver of an uninterrupted sender (`MaxTime = 9`: at least 4 packets, any of them lost; a queue of 4 frames that prebuffers 2, so overrun, underrun and prebuffering happen; rewinds of one frame), and a memblockq of three frames of two bytes under any calls: two memblocks fill, overwrite and split, attributes change to lengths that are no multiple of a frame. |
| `cast_resume` | IwabCast | The receiver with `Rebase` at any time, `MaxTime = 4`; a resumed sender may send without limit at one instant, so the constraint `StreamBound` cuts the stream at 4 frames. |
| `queues` | FdSem, AsyncMsgQ, FList, AUpdate | Two posters against a sleeping owner with one byte per read; a ring of two cells with two writers, a polling writer or a main loop, four messages; two threads on a table of two elements with up to six tags; three read sections and two writers. |
| `daemon` | IwabModules, PidFile, RtPoll, IwabRead | Four loads (two sinks and two streams, moved, killed and unloaded twice over; every step of either init may fail, and everything may be unloaded at any time); two daemons, a crash, a killer and ids given out again, the daemon's own too; a stream attached and detached while messages arrive; packets on both sides of every comparison. |
| `transport` | SrbChannel, PStream, MemBlock, MemShare | Rings of two bytes that wrap and fill; the handshake and three blocks over a socket that takes a frame and a byte; two blocks of one pool, one with two users and one with one (`Sharings`), whose owners may wait at the same time; three cells with two export slots. |
| `client` | MainLoop, ThreadedMainloop, ClientContext, LockAutospawn | Four events changed three times from callbacks and another thread; four application threads; two commands with a drain or with a stream, and a command and a stream with two drains (`Applications`), any of which may be cancelled or ended at any time; two processes, three contexts, a crash and a lock file that cannot be locked. |
| `playback` | PlaybackStream, SinkInputRender | An application that writes what it is asked for and one that seeks and writes more than that; both drain, pause, flush, prebuffer and trigger, blocks may fail to be mapped and a resampler may leave audio in the render queue; a sink with a block of 3 bytes and six scenes: overwriting, other inputs, underruns with data arriving in any number of blocks, corking. |
| `stream_resume`, `sink_leak`, `mbq_split`, `mbq_length` | | The findings of section 4; each expects a violation. |

The broadcast runs use `Rate = 2`, `UsecPerSec = 5`: one audio frame lasts 2.5
clock units, so one frame is dated 2 units and two frames 5, and both
conversions truncate as they do at 44100 Hz.

Bounds only cut behaviours off: clocks (`MaxTime`), calls (`MaxCalls`, `MaxOps`,
`MaxLoads`, `MaxReads`, `MaxUpdates`, `MaxSends`, `MaxMsgs`, `MaxStarts`), data
(`MaxIndex`, `MaxBytes`, `MaxData`, `MaxPackets`) faults (`MaxCrashes`,
`MaxSpurious`), the users of a block (`MaxAcquire`, `Sharings`), what one
application does (`Applications`, `Uses`) and what happens to a stream
(`Scenes`, `MaxSilence`). Each is large enough for the situation its component is about:
a counter that wraps, a full ring, a second owner, a resource reused. Deadlock
is not checked: a freed module, an ended process, an aborted receiver and the
end of a bounded clock really stop. No symmetry is used: most runs have
liveness, and positions, memblocks and times are ordered or few.

The properties. Where a component promises several things that only make sense
together, they are defined one by one in its module, and one property at its end
conjoins them; that is what the cfg names, and what has a mutant in
`PROJECT.json`. TLC's message names the conjunct.

| Property | Conjuncts (besides the type invariant) |
|---|---|
| *Sender:* `ResendHoldsChunk`, `RewindOnlyWhileLinked`, `WakesForNextPacket`, `ViewsAgree` | interleavings of messages with the loop |
| `RepeatsAreCopies`, `FrameFits`, `ImplementsSource` | what reaches the air |
| `UnloadCompletes`, `DuePacketIsSent` | no lost wake-up, no mutual waiting |
| *Receiver:* `CallbackSound` | `AssertionHolds` |
| `PlayedInOrder`, `NewestIsAccepted` | `QueueInOrder`, `HeardAdvances`, `ReadBehindWrite`: underruns, loss, repetition, reordering, a resumed sender |
| `DriftBounded` | the queue never gains frames against the stream and loses less than a frame per gap and a clock unit per lost packet |
| `QueueWithinMax` | overrun |
| `DecodingCorrect` | `AcceptedInside`, `PayloadKept`, `CallbackReturns` |
| *memblockq:* `Balanced`, `AttributesConsistent`, `KeepsRewindable` | accounting; setters; what a rewind can still reach |
| `ItemsSound` | `BlocksDisjoint`, `RightMemblock` |
| *Queues:* `FdSemSafe`, `ImplementsSemaphore` | `NoLostPost`, `FlushNeverHangs`, `WaitingCounts` |
| `MessageQueueCorrect` | `ReplyMatches`, `ImplementsChannel`, `SubmittedIsHandled` |
| `FreeListCorrect` | `TableIntact`, `PointersKept`: no element is lost, held twice or reachable twice |
| `AUpdateSafe`, `UpdateEnds` | `NoTornRead`, `UpdateVisible` |
| *Daemon:* `PollLoopCorrect` | `PollSetExact`, `EntriesKept` (the array has exactly the entries of the items, with what they were told), `HooksPaired` (who announced a sleep hears of its end), `MessagesHandled`, `FramesRead` |
| `ModulesCorrect` | `PendingAreLoaded`, `NothingLeftBehind`, `CoreFreeAsserts`, `OnlyKnownDamage`, `FailedIsUnloaded`, `KilledIsUnloaded` |
| `PidFileCorrect` | `OneDaemon`, `FileNamesDaemon`, `TurnedAwayForCause` |
| *Transport:* `BlockCorrect` | `MemoryTakenBack` (when the owner returns nobody uses its memory), `FreedByTheLast`, `CopyIsOwned`, `OwnerReturns` |
| `SharingCorrect` | `DataStays`, `SlotAccounted`, `SegmentCounts`, `FreedWhileImported`, `NothingDropped`, `SlotReleased` |
| `RingCorrect` | `NothingGarbled`, `CountSeparates`, `AllArrives` |
| `PacketStreamCorrect` | `FramesIntact`, `InOrder` (across the switch of channels), `AllReceived` |
| *Client:* `MainLoopCorrect` | `CountsExact`, `CachedIsNext`, `SleepsOnlyWhenIdle`, `FreedIsSilent`, `TimersFire`, `FilesServed`, `QuitEnds` |
| `ThreadedLoopCorrect` | `DataStays`, `WaitingCounted`, `OneAtATime`, `OperationsComplete`, `StopReturns` |
| `OperationsCorrect` | `RefsExact`, `DrainAssertions`, `CalledOnceUncancelled`, `CommandsEnd`, `DrainsEnd` |
| `AutospawnCorrect` | `OneStarter`, `LockIsReal`, `EveryoneAnswered` |
| *Playback:* `FlowControlCorrect` | `RequestPosted`, `CreditConserved`, `SeekNotForgotten`, `RewriteReported`, `DrainedMeansPlayed`, `DrainAnswered`, `ApplicationServed` |
| `RenderingCorrect` | `EachByteOnce`, `LossExplained`, `NoStaleAudio`, `UnderrunCut` |

**Fairness.** A thread that has begun a call is scheduled until the call returns
or blocks; nobody is obliged to begin one. So fairness is weak and on what a
thread does by itself: `ThreadDuties` and `MainDuties` of the sender,
`OwnerDuties`, `PosterDuties`, `ReaderDuties`, `WriterDuties`, `SectionDuties`,
`UpdaterDuties`, `UserDuties`, the passes of `do_pstream_read_write` the main
loop makes while there is something to do, the loop itself (`Loop`,
`WorkerNext`), timeouts of a context, the helper thread of the autospawn lock,
and in PlaybackStream the writing application. In `sink` the failure of `poll()`
is not among the duties and the clock need not advance. One assumption is
strong: in RtPoll `poll()` does not fail every time (`PollSucceeds`).

## 4. Findings

Shown by runs that expect a violation:

1. `NoChunkLeak` (`sink_leak`): the reference to a rendered chunk is given back
   only in the resend branch. If the next packet is due first, if a message
   between the two transmissions re-arms the timer (`iwab-sink.c:220`), on
   failure and at unload, the memblock is lost to the pool.
2. `ReceiverSurvives` (`stream_resume`): `iwab-input.c:208` lets `timestamp =
   last_pb_ts` pass, line 218 asserts `>`. A resumed sender restarts its
   timeline at the current time and can hit equality after a packet was
   discarded as overlapping. It takes a coincidence of one microsecond.
3. `ContentKept` (`mbq_split`): splitting an item in `pa_memblockq_push`
   (`memblockq.c:356`) does not advance the offset into the memblock, so the
   saved end has the samples of the beginning. The test for splitting cannot see
   it when both parts hold equal bytes. The receiver never seeks and is not
   affected.
4. `LengthWithinMax` (`mbq_length`): `memblockq-test.c` lists `length <=
   maxlength` among the rules of a queue; seeks and `set_maxlength` do not keep
   it.

Exceptions the properties name. In these cases the code does not do what one
would expect of it. The models contain them, the runs reach them, and the
formulas say exactly when they happen: a property would fail if anything else
had the same effect.

| Property | Exception | Where in the code |
|---|---|---|
| `OnlyKnownDamage` | a load of iwab-input that fails before its socket is open follows a NULL pointer, closes an uninitialised descriptor or uses a stream that was not made; one of iwab-sink whose `iwab_open` fails closes descriptor 0 | error paths of `pa__init`, `pa__done` of both modules |
| `OnlyKnownDamage` | unloading iwab-input, or the end of the daemon, while its stream plays: `pa__done` does not unlink the stream, whose callbacks then use freed memory | `iwab-input.c:397-414` |
| `NothingLeftBehind` | an `iwab_open` that fails after `socket` leaves the socket open | `net.c:154-194` |
| `TurnedAwayForCause` | the process the file names ends between `kill(pid, 0)` and the look at its name: the start fails though nobody runs | `pid.c:212-220` |
| `TurnedAwayForCause` | a daemon that was given the id its crashed predecessor left in the file takes itself, or is taken, for it | `pid.c:203-229` |
| `OwnerReturns` | all waits for blocks of a pool share a semaphore: of two owners that wait at once, one may take the post meant for the other | `memblock.c:557`, `702` |
| `FreedWhileImported` | a connection ends while the real-time thread is inside `memblock_free` of one of its blocks | `memblock.c:622-635`, `1159-1193` |
| `DrainAssertions` | a drain that was cancelled runs into `pa_assert(o->context)` when its event comes | `context.c:1137` |
| `DrainsEnd` | a second drain replaces the callback of the first; a reply dropped with its stream does not tell the drain that waits for it | `pdispatch.c:411-417`, `stream.c:258-259` |
| `EveryoneAnswered` | when the lock file cannot be locked, one of the waiting contexts of a process is told, the others may not be | `lock-autospawn.c` |
| `SubmittedIsHandled` | the local queue of a main loop is only pushed on by its next post; the property speaks of threads that poll | `asyncq.c` |
| `CreditConserved` | a seek that is not relative and a block that is not mapped: the bytes become an offset the new position forgets | `protocol-native.c:5053-5080`, `1333-1339` |
| `RewriteReported` | a lowest position of -1, which is also the mark for none | `protocol-native.c:1350` |
| `DrainedMeansPlayed` | a drain on an empty queue is acknowledged at once, whatever the render queue holds; `stream.h:576` promises more | `protocol-native.c:1408` |
| `EachByteOnce`, `LossExplained` | audio is dropped when data arrives again in the same underrun, when the stream is uncorked with audio not played yet, when a flush meets a sink that went further back for another input, and by rewinds in a row that go back further than the last flush or `max_rewind` | `protocol-native.c:1281-1295`, `sink-input.c:933`, `948`, `1104`, `2055-2069` |
| `EachByteOnce` | the order itself is lost when a stream is corked before a rewound queue was filled again, or when rewinds in a row go back over an underrun, since `playing_for` is not reduced by a rewind | `sink-input.c:2213-2221`, `1079-1153` |
| `NoStaleAudio` | overwritten audio is heard when the sink had nothing left to rewind, or went further back for another input | `sink-input.c:1110`, `memblockq.c` (peek) |

What the passing runs leave out: with `pollers |-> {w1}` for two writers in
`queues`, TLC refutes `ImplementsChannel`, because
`pa_asyncmsgq_write_before_poll` flushes the local queue without the mutex. The
run has one writer on a queue that its writer polls, and several writers on one
that nobody polls for writing.

What the properties do not say. `CallbackSound` is about the assertion on
timestamps; the one on frame alignment (`iwab-input.c:201`) is not modelled,
since IwabInput counts whole frames. `DriftBounded` assumes the same rate at both
ends; the receiver always plays S16LE at 44100 Hz with two channels
(`iwab-input.c:313-316`), so it says nothing about a sender with another format.
`SinkAssumption` asks for latencies of at least one frame, a little more than a
valid sample rate gives. A client that overwrites during an underrun is not part
of SinkInputRender, where `Rewrite` needs `underrun_for = 0`.

## 5. Proofs

TLAPS checks, for every value of the constants allowed by their named
assumptions:

- **IwabSinkProofs.** `SinkInvariance`: `SinkSpec => []SinkInv`. None of the
  safety properties is inductive by itself. `SinkInv` adds to `SinkTypeOK`:
  `MessageInv` (who waits for which message and what both threads then know of
  the state), `ChunkInv` (the retry counter determines what `chunk` holds; a
  counter of 0 inside the loop means the packet is due, so the resend branch,
  which tests only `retries <= 1`, is reached with `retries = 1`), `RewindInv` (a
  rewind request lives from its message to the next iteration and the main
  thread unlinks only after that message was answered), `TimerInv` (the timer
  against `stream_ts_abs` at each `pc`), `FitInv` (`max_request` is between 1
  and `MaxFrame`; this is `LatencyFits`, arithmetic on the two truncating
  conversions). From it follow `SinkTypes`, `ResendIsSafe`, `RewindIsSafe`,
  `NeverOversleeps`, `PacketsFit`, `ViewsAgreeAlways` and the refinement
  `SinkImplementsSource` (mapping: `next_ts <- stream_ts_abs`, `next_pos <-
  render_pos`, `last <- chunk`, `alive <- pc \notin {"fail", "done"}`).
  About the frames on the air, `SequenceNumbersIdentify`: `[]RepeatsAreCopies`,
  across the wrap of the counter, from `AirWindow <= SeqMod` (no frame stays
  readable for a whole turn of the counter). `AirInv` counts the packets between
  two frames on the air modulo `SeqMod`: at least one, at most as many as audio
  frames between them.
- **IwabCastProofs**, a broadcast and its listener for every rate, packet size
  and queue size.
  - `GapsFitTheQueue` (`CastSpec => QueueWithinMax`) and `PlayedInOrderAlways`
    (`CastSpec => PlayedInOrder`) hold without hypotheses, wrap and resume
    included. `BaseInv` types sender and receiver and says that the queue's list
    is sound (`QueueOK`); `OrderInv` adds that positions on the air, accepted and
    queued are in the order of the list. The gap filling is a recursive
    function; what the proof needs of it (`IsFill`) is obtained from the first
    step at which the loop stops, a least number, and no induction.
  - `AssertionNeverFails`: `~Resumable => (CastSpec => []CallbackSound)`. The
    assertion compares timestamps and its guard sequence numbers; `TimeInv` ties
    the two together where one packet ends and the next begins. Finding 2 is why
    it needs a sender that is never resumed.
  - `NewestAccepted` and `DriftStaysBounded`: `[]NewestIsAccepted` and
    `[]DriftBounded`, for a sender that is never resumed and as long as its
    counter does not wrap (`NoWrap`): after a wrap the code takes new packets for
    old ones. `AccuracyInv` relates, for any two packets, the difference of
    positions, of sequence numbers and of timestamps; each packet adds less than
    one clock unit of rounding.
- **MemBlockQProofs**, with MemBlockQFacts. `AccountingBalances`: `MbqSpec =>
  []Balanced`. One lemma per call says that it keeps `Balance`; the inductive
  invariant `BalanceInv` adds that the record has its fields and that they are
  integers. `AttributesStayConsistent`: `[]AttributesConsistent`, whatever values
  the setters are called with; the invariant says that every attribute is a
  multiple of the frame size, which the rounding of one setter needs of the
  others. `ListStaysSound`: `[]ItemsSound`. `ItemsInv` says that both indices are
  on frame boundaries, that items do not overlap (`IsList`) and that each shows
  the right part of its memblock; a write is a cut of the list (`Cut`) followed
  by an insertion. `RewindFindsData`: `MbqSpec => KeepsRewindable`;
  only a call that flushes may take away what a rewind could reach.
- **FdSemProofs.** `FdSemIsSafe`: `FdSpec => []FdSemSafe`, for any number of
  posters; its parts are `PostsAreNotLost`, `FlushDoesNotHang`, `WaitersCounted`
  and `FdTypes`. `FdInv` adds to the properties
  `PipeBalanced` (`in_pipe` is what the descriptor holds, what was read and not
  yet subtracted, and one for each poster between its increment and its write:
  a cardinality), `DrainBalanced` and `SleepsFor`. `NoLostPost` alone is not
  inductive: that a poster which saw the semaphore unsignalled goes on to write
  needs `WaitingCounts`. `FdSemIsSemaphore` is the safety part of
  `ImplementsSemaphore`.
- **AUpdateProofs.** `AUpdateIsSafe`: `AuSpec => []AUpdateSafe`, for any number
  of readers and writers; its parts are `NeverTorn`, `UpdatesVisible` and
  `AuTypes`. `AuInv` says that the lock makes the writer unique, that
  the counter is the number of open read sections, that all of them read the
  copy the uppermost bit names and the writer has the other one, and how far the
  update has come at each place of the writer.
- **FListProofs**, for any table size and any number of threads.
  `PoolStaysCorrect`: `[]FreeListCorrect` if no element about to be pushed gets
  the head, index and tag, that a thread between the load and the compare-and-
  exchange of `stack_pop` still holds (`FreshTags`). This is exactly what the
  tag is there for, and it may hold for ever, across wraps of the counter.
  `PoolCorrectUntilWrap`: `[]FreeListCorrect` as long as the counter has not
  wrapped, with no further hypothesis. The invariant `FlInv` says that each stack
  is a list that reaches `Nil` and meets each element once (`Stacks`), that the
  elements of the two stacks and those held by threads are apart (`Apart`), that
  a link read by `stack_pop` is still the link if the head is unchanged
  (`LinksKnown`), and where the pointers are (`PointersPlaced`). That a list of
  distinct elements ends within the table is a pigeonhole argument over an
  explicit walk.
- **PidFileProofs**, for any number of processes and files. `OneDaemonAlways`:
  at most one daemon believes it is running and the file names it, even when
  process ids are reused. `PidFileIsCorrect`: `PfSpec => PidFileCorrect`,
  without hypotheses, which adds that a start is turned away only for one of the
  three causes of `TurnedAwayForCause`. `PfInv`
  says who holds which file's lock (`LockHeld`), that a process that has compared
  the two `stat` results holds the file the name still means (`NameKept`), what
  it knows of its content (`ContentKnown`), and that nobody runs while someone is
  past the check (`NobodyRuns`). For the causes `CauseInv` adds that a file which
  the name no longer means is empty, who is removing its file, that an id in the file which
  was not given out again belongs to the daemon that wrote it, and that this
  daemon is not the one that starts.

Assumptions about constants: `RateAssumption`, `NetAssumption`,
`SourceAssumption`, `SinkAssumption` (latencies are within the range
`pa_sink_set_latency_range` sets), `InputAssumption`, `QueueAssumption`,
`FdSemAssumption`, `AUpdateAssumption`, `FListAssumption`, `PidAssumption`.

Only model-checked: liveness (temporal reasoning under fairness is out of this
prover's reach); which bytes a memblockq returns, beyond `ItemsSound`; AsyncMsgQ
and RtPoll; IwabModules and IwabRead; SrbChannel, PStream, MemBlock and MemShare;
MainLoop, ThreadedMainloop, ClientContext and LockAutospawn; PlaybackStream and
SinkInputRender. What a recursive function computes for every input would need
induction over data, which the installed provers cannot instantiate; it is proved
only where a least-number argument replaces it (the gap filling, the walk along a
stack).

A proof attempt found one mistake in the model: two guards of a CASE in
MemBlockQOps overlapped, which leaves the value open although the code tests
them in order. The definition is an IF/ELSE now.

## 6. Not modelled

- *Most of PulseAudio.* The repository has 211000 lines, of which the iwab
  modules are under a thousand. What is modelled is their code and the
  concurrent and stateful core they and every client depend on. Left out, with
  the reason: drivers and their mixers (ALSA, Bluetooth, OSS, ...) and the
  modules that drive them, because their behaviour is that of hardware and
  external libraries; resampling, mixing, conversion and filters, because they
  are arithmetic over samples; volumes, ports, cards, profiles and the
  introspection commands of the native protocol, because they are sequential
  and copy values between structures; the text protocols, utilities and tests;
  vendored code. A map that covered a large share of these lines would have to
  claim lines it does not translate.
- *Sources and source outputs*, the mirror image of sinks and sink inputs,
  which iwab does not use.
- In the modelled components: argument parsing and logging; spurious wake-ups of
  the sender's poll by signals (they only run the loop body once more, like a
  message); memory that runs out; system calls that fail other than where the
  code goes on after the failure; `push_align`, `peek_fixed_size`, `splice`,
  `set_silence` and `willneed` of memblockq; ancillary data and malformed frames
  of pstream; creating, deleting and moving streams; latency reports; record and
  upload streams; `load_once` and the loader in `module.c`.
- Sizes are unbounded integers except in IwabRead, sequence numbers
  (`SeqMod`), tags of FList (`TagMod`) and ring indices: `size_t` overflow is
  excluded by the arguments. Memory is sequentially consistent, as the
  full-barrier atomics of `atomic.h` provide.

## 7. Plan

Done: the sender, its abstract specification and proofs; the receiver with its
decoding, and the proofs of the broadcast; the memblockq with the proofs of its
accounting, attributes and list; module life, queues, poll loops, memory,
transport, client library, playback and start-up locks; proofs of the semaphore,
the two-copy structure, the free list and the PID file. Next, in this order:

1. Proofs: order and single delivery of AsyncMsgQ for any ring size and number
   of writers (safety part of `ImplementsChannel`).
2. Proofs: `NothingGarbled` and `CountSeparates` of SrbChannel, `MemoryTakenBack`
   of MemBlock.
3. Proofs: `OneStarter` of LockAutospawn, `AcceptedInside` and `PayloadKept` of
   IwabRead.
