------------------------------ MODULE MainLoop ------------------------------
(***************************************************************************)
(* The event loop of the client library and the daemon, pulse/mainloop.c:  *)
(* IO, time and deferred events, kept in three lists, counted, polled for  *)
(* and dispatched.                                                         *)
(*                                                                         *)
(* One thread runs the loop (prepare, poll, dispatch).  The events are     *)
(* created, changed and freed from the callbacks it calls and, as          *)
(* thread-mainloop.c makes possible, by other threads while it polls: its  *)
(* poll function lets go of the lock around poll(2).  A freed event is     *)
(* only marked dead; the memory goes when the loop next prepares.          *)
(*                                                                         *)
(* The time is the value of pa_rtclock_now, a flag set of an IO event is   *)
(* either empty or not, and an event keeps its identity as a member of     *)
(* IoE, TimeE or DeferE which a later pa_*_new may use again.              *)
(***************************************************************************)
EXTENDS Integers, Sequences, FiniteSets, SequencesExt

CONSTANTS IoE, TimeE, DeferE,  \* the events there may be at a time
          None,                \* no event (a null pointer)
          MaxTime,             \* bound: the last value of the clock
          MaxOps               \* bound: calls that change events

ASSUME MainLoopAssumption ==
  /\ MaxTime \in Nat /\ MaxOps \in Nat
  /\ IoE \intersect TimeE = {} /\ IoE \intersect DeferE = {}
  /\ TimeE \intersect DeferE = {} /\ None \notin IoE \union TimeE \union DeferE

VARIABLES
  ev,        \* the events: unused, live or dead, enabled, when
  lst,       \* the three lists, the newest event first
  n,         \* n_io_events, n_enabled_time_events, n_enabled_defer_events
  scan,      \* the three please_scan counters
  rebuild,   \* rebuild_pollfds
  pollfd,    \* the IO events whose pollfd is set
  rev,       \* ... and whose revents is not 0
  size,      \* max_pollfds
  cached,    \* cached_next_time_event
  wake,      \* something is in the wake-up pipe
  quit,
  pc,        \* where the thread of the loop is
  todo,      \* the part of the list still to be walked
  cur,       \* the event whose callback runs
  ret,       \* poll_func_ret, then k of dispatch_pollfds
  watch,     \* what poll(2) was asked to watch
  deadline,  \* when it times out
  tnow,      \* now of dispatch_timeout
  ready,     \* the file descriptors with something to report
  now,       \* the clock
  ops

evvars   == <<ev, lst, n, scan, rebuild, pollfd, size, cached>>
loopvars == <<pc, todo, cur, ret, watch, deadline, tnow>>
mlVars     == <<evvars, rev, wake, quit, loopvars, ready, now, ops>>

Events == IoE \union TimeE \union DeferE
Kinds  == {"io", "time", "defer"}
KindOf(e) == IF e \in IoE THEN "io" ELSE IF e \in TimeE THEN "time" ELSE "defer"
Never  == MaxTime + 1           \* PA_USEC_INVALID

Live(e)    == ev[e].st = "live"
Enabled(e) == Live(e) /\ ev[e].on
Dead(e)    == ev[e].st = "dead"

MlTypeOK ==
  /\ ev \in [Events -> [st : {"none", "live", "dead"}, on : BOOLEAN, time : 0..Never]]
  /\ \A k \in Kinds : Range(lst[k]) = {e \in Events : KindOf(e) = k /\ ev[e].st # "none"}
                      /\ Len(lst[k]) = Cardinality(Range(lst[k]))
  /\ n \in [Kinds -> Nat] /\ scan \in [Kinds -> Nat]
  /\ rebuild \in BOOLEAN /\ pollfd \subseteq IoE /\ rev \subseteq IoE /\ size \in Nat
  /\ cached \in TimeE \union {None} /\ cur \in Events \union {None}
  /\ wake \in BOOLEAN /\ quit \in BOOLEAN
  /\ pc \in {"passive", "poll", "woken", "defer", "time", "io", "quit", "error", "freed"}
  /\ todo \in Seq(Events) /\ ret \in 0..(Cardinality(IoE) + 1)
  /\ watch \subseteq IoE /\ ready \subseteq IoE
  /\ deadline \in 0..Never /\ tnow \in 0..MaxTime /\ now \in 0..MaxTime
  /\ ops \in 0..MaxOps

MlInit ==
  /\ ev = [e \in Events |-> [st |-> "none", on |-> FALSE, time |-> 0]]
  /\ lst = [k \in Kinds |-> <<>>]
  /\ n = [k \in Kinds |-> 0] /\ scan = [k \in Kinds |-> 0]
  /\ rebuild = TRUE /\ pollfd = {} /\ rev = {} /\ size = 0 /\ cached = None
  /\ wake = FALSE /\ quit = FALSE
  /\ pc = "passive" /\ todo = <<>> /\ cur = None /\ ret = 0
  /\ watch = {} /\ deadline = Never /\ tnow = 0
  /\ ready = {} /\ now = 0 /\ ops = 0

-----------------------------------------------------------------------------
(* The calls.  They are made before the loop runs, from a callback, or by   *)
(* another thread while the loop's thread has let go of the lock in poll.   *)

Locked == pc \in {"defer", "time", "io"} /\ cur = None
Call   == /\ ops < MaxOps /\ ops' = ops + 1
          /\ ~Locked /\ pc \notin {"quit", "error", "freed"}
          /\ UNCHANGED <<rev, loopvars, ready, now>>

Wakeup(b) == wake' = (wake \/ b)

Add(e, on, t) ==
  /\ ev[e].st = "none"
  /\ ev' = [ev EXCEPT ![e] = [st |-> "live", on |-> on, time |-> t]]
  /\ lst' = [lst EXCEPT ![KindOf(e)] = <<e>> \o @]

io_new(e, on) ==
  /\ Call /\ Add(e, on, 0)
  /\ rebuild' = TRUE /\ n' = [n EXCEPT !["io"] = @ + 1]
  /\ pollfd' = pollfd \ {e}
  /\ Wakeup(TRUE) /\ UNCHANGED <<scan, size, cached, quit>>

io_enable(e, on) ==
  /\ Call /\ Live(e) /\ ev[e].on # on
  /\ ev' = [ev EXCEPT ![e].on = on]
  /\ rebuild' = (rebuild \/ e \notin pollfd)
  /\ Wakeup(TRUE) /\ UNCHANGED <<lst, n, scan, pollfd, size, cached, quit>>

io_free(e) ==
  /\ Call /\ Live(e)
  /\ ev' = [ev EXCEPT ![e].st = "dead"]
  /\ scan' = [scan EXCEPT !["io"] = @ + 1] /\ n' = [n EXCEPT !["io"] = @ - 1]
  /\ rebuild' = TRUE
  /\ Wakeup(TRUE) /\ UNCHANGED <<lst, pollfd, size, cached, quit>>

defer_new(e) ==
  /\ Call /\ Add(e, TRUE, 0)
  /\ n' = [n EXCEPT !["defer"] = @ + 1]
  /\ Wakeup(TRUE) /\ UNCHANGED <<scan, rebuild, pollfd, size, cached, quit>>

defer_enable(e, on) ==
  /\ Call /\ Live(e) /\ ev[e].on # on
  /\ ev' = [ev EXCEPT ![e].on = on]
  /\ n' = [n EXCEPT !["defer"] = IF on THEN @ + 1 ELSE @ - 1]
  /\ Wakeup(on) /\ UNCHANGED <<lst, scan, rebuild, pollfd, size, cached, quit>>

\* Taken out of the count of the enabled ones when it is one of them.
FreeCounted(e) ==
  /\ ev' = [ev EXCEPT ![e].st = "dead", ![e].on = FALSE]
  /\ scan' = [scan EXCEPT ![KindOf(e)] = @ + 1]
  /\ n' = [n EXCEPT ![KindOf(e)] = IF ev[e].on THEN @ - 1 ELSE @]

defer_free(e) ==
  /\ Call /\ Live(e) /\ FreeCounted(e)
  /\ UNCHANGED <<lst, rebuild, pollfd, size, cached, wake, quit>>

\* The cached event after an event gets the time t (Never: none).
Earlier(c, e, t) == IF c # None /\ t # Never /\ t < ev[c].time THEN e ELSE c

\* A time of Never is a null time value: the event is created disabled.
time_new(e, t) ==
  /\ Call /\ Add(e, t # Never, IF t = Never THEN 0 ELSE t)
  /\ n' = [n EXCEPT !["time"] = IF t # Never THEN @ + 1 ELSE @]
  /\ cached' = Earlier(cached, e, t)
  /\ Wakeup(t # Never) /\ UNCHANGED <<scan, rebuild, pollfd, size, quit>>

\* mainloop_time_restart: a null time value leaves e->time as it was.
Restart(e, t) ==
  /\ ev' = [ev EXCEPT ![e].on = (t # Never), ![e].time = IF t # Never THEN t ELSE @]
  /\ n' = [n EXCEPT !["time"] = @ + (IF t # Never THEN 1 ELSE 0) - (IF ev[e].on THEN 1 ELSE 0)]
  /\ cached' = Earlier(IF cached = e THEN None ELSE cached, e, t)
  /\ Wakeup(t # Never)

time_restart(e, t) ==
  /\ Call /\ Live(e) /\ Restart(e, t)
  /\ UNCHANGED <<lst, scan, rebuild, pollfd, size, quit>>

time_free(e) ==
  /\ Call /\ Live(e) /\ FreeCounted(e)
  /\ cached' = IF cached = e THEN None ELSE cached
  /\ UNCHANGED <<lst, rebuild, pollfd, size, wake, quit>>

pa_mainloop_quit ==
  /\ Call /\ quit' = TRUE /\ Wakeup(TRUE) /\ UNCHANGED evvars

-----------------------------------------------------------------------------
(* The thread of the loop.                                                  *)

Env == <<ready, now, ops>>

\* scan_dead: the events it leaves in a list, and as they are after it.
Kept(k)     == SelectSeq(lst[k], LAMBDA e : ~Dead(e))
Scanned     == [e \in Events |-> IF Dead(e) THEN [ev[e] EXCEPT !.st = "none"] ELSE ev[e]]
LiveIo      == {e \in IoE : Live(e)}

\* rebuild_pollfds: the array has a place for the wake-up pipe and for each
\* of n_io_events, and every live event gets one.
RebuildPollfds ==
  IF rebuild \/ \E e \in IoE : Dead(e)
  THEN /\ pollfd' = LiveIo /\ rev' = {} /\ rebuild' = FALSE
       /\ size' = IF size < n["io"] + 1 THEN 2 * (n["io"] + 1) ELSE size
  ELSE UNCHANGED <<pollfd, rev, size, rebuild>>

\* find_next_time_event without a cached one: the earliest.  Of several with
\* the same time it is the first of the list; the model leaves it open.
NextTimeEvents ==
  {e \in TimeE : Enabled(e) /\ \A f \in TimeE : Enabled(f) => ev[e].time <= ev[f].time}

\* calc_next_timeout, as the time at which poll gives up.
CalcNextTimeout ==
  IF n["time"] <= 0
  THEN deadline' = Never /\ cached' = cached
  ELSE \E t \in IF cached # None THEN {cached} ELSE NextTimeEvents :
         deadline' = ev[t].time /\ cached' = t

\* pa_mainloop_prepare and, the lock still held, the start of
\* pa_mainloop_poll.
Prepare ==
  /\ pc = "passive"
  /\ wake' = FALSE
  /\ ev' = Scanned /\ lst' = [k \in Kinds |-> Kept(k)] /\ scan' = [k \in Kinds |-> 0]
  /\ IF quit
     THEN /\ pc' = "quit" /\ rebuild' = (rebuild \/ \E e \in IoE : Dead(e))
          /\ UNCHANGED <<pollfd, rev, size, cached, deadline, watch, ret>>
     ELSE IF n["defer"] <= 0
     THEN /\ RebuildPollfds /\ CalcNextTimeout
          /\ watch' = {e \in pollfd' : Enabled(e)}
          /\ pc' = "poll" /\ UNCHANGED ret
     ELSE /\ rebuild' = (rebuild \/ \E e \in IoE : Dead(e))
          /\ pc' = "woken" /\ ret' = 0
          /\ UNCHANGED <<pollfd, rev, size, cached, deadline, watch>>
  /\ UNCHANGED <<n, quit, todo, cur, tnow, Env>>

\* poll(2) has something to report, or has timed out.
PollReturns ==
  /\ pc = "poll"
  /\ wake \/ watch \intersect ready # {} \/ now >= deadline
  /\ rev' = watch \intersect ready
  /\ ret' = Cardinality(rev') + (IF wake THEN 1 ELSE 0)
  /\ pc' = "woken"
  /\ UNCHANGED <<evvars, wake, quit, todo, cur, watch, deadline, tnow, Env>>

\* ... or a signal has interrupted it: the events it was given keep what the
\* last call wrote there.
PollInterrupted ==
  /\ pc = "poll" /\ ops < MaxOps /\ ops' = ops + 1
  /\ ret' = 0 /\ pc' = "woken"
  /\ UNCHANGED <<evvars, rev, wake, quit, todo, cur, watch, deadline, tnow, ready, now>>

\* ... or it has failed: pa_mainloop_run returns.
PollFails ==
  /\ pc = "poll" /\ ops < MaxOps /\ ops' = ops + 1
  /\ pc' = "error"
  /\ UNCHANGED <<evvars, rev, wake, quit, todo, cur, ret, watch, deadline, tnow, ready, now>>

\* pa_mainloop_dispatch, with the lock again.
Dispatch ==
  /\ pc = "woken"
  /\ IF quit THEN pc' = "quit" /\ UNCHANGED <<todo, tnow>>
     ELSE IF n["defer"] > 0 THEN pc' = "defer" /\ todo' = lst["defer"] /\ UNCHANGED tnow
     ELSE pc' = "time" /\ tnow' = now /\ todo' = IF n["time"] > 0 THEN lst["time"] ELSE <<>>
  /\ UNCHANGED <<evvars, rev, wake, quit, cur, ret, watch, deadline, Env>>

\* A freed event is called if it was to be.
Bug_Due(e) ==
  CASE pc = "io"    -> e \in pollfd /\ e \in rev
    [] pc = "time"  -> Enabled(e) /\ ev[e].time <= tnow
    [] pc = "defer" -> Enabled(e)

\* Whether a walk calls the event it has come to.
Due(e) ==
  CASE pc = "io"    -> ~Dead(e) /\ e \in pollfd /\ e \in rev
    [] pc = "time"  -> Enabled(e) /\ ev[e].time <= tnow
    [] pc = "defer" -> Enabled(e)

\* The walk is over: at the end of the list, when the loop is to quit and,
\* in the list of the IO events, when poll has reported no more.
Over == quit \/ (pc = "io" /\ ret <= 0) \/ ~\E i \in 1..Len(todo) : Due(todo[i])

\* The next event of a walk is called; a time event is disabled before.
CallNext ==
  /\ pc \in {"defer", "time", "io"} /\ cur = None /\ ~Over
  /\ LET i == CHOOSE i \in 1..Len(todo) : Due(todo[i]) /\ \A j \in 1..i-1 : ~Due(todo[j])
     IN  /\ cur' = todo[i]
         /\ todo' = SubSeq(todo, i + 1, Len(todo))
         /\ IF pc = "time" THEN Restart(todo[i], Never)
            ELSE UNCHANGED <<ev, n, cached, wake>>
  /\ UNCHANGED <<lst, scan, rebuild, pollfd, rev, size, quit, pc, ret, watch, deadline, tnow, Env>>

\* The callback returns; that of an IO event may have dealt with its file.
Return ==
  /\ cur # None /\ cur' = None
  /\ IF pc = "io" THEN rev' = rev \ {cur} /\ ret' = ret - 1 /\ ready' \in {ready, ready \ {cur}}
     ELSE UNCHANGED <<rev, ret, ready>>
  /\ UNCHANGED <<evvars, wake, quit, pc, todo, watch, deadline, tnow, now, ops>>

\* The walk ends: from the time events on to the IO events, or back to
\* pa_mainloop_run.
WalkEnds ==
  /\ pc \in {"defer", "time", "io"} /\ cur = None /\ Over
  /\ IF quit THEN pc' = "quit" /\ todo' = <<>>
     ELSE IF pc = "time" /\ ret > 0 THEN pc' = "io" /\ todo' = lst["io"]
     ELSE pc' = "passive" /\ todo' = <<>>
  /\ UNCHANGED <<evvars, rev, wake, quit, cur, ret, watch, deadline, tnow, Env>>

\* pa_mainloop_free, once the loop has ended: all that is left is destroyed.
Free ==
  /\ pc \in {"quit", "error"} /\ pc' = "freed"
  /\ ev' = [e \in Events |-> [ev[e] EXCEPT !.st = "none"]]
  /\ lst' = [k \in Kinds |-> <<>>] /\ scan' = [k \in Kinds |-> 0]
  /\ n' = [n EXCEPT !["time"] = 0, !["defer"] = 0]
  /\ cached' = None /\ pollfd' = {} /\ size' = 0
  /\ UNCHANGED <<rebuild, rev, wake, quit, todo, cur, ret, watch, deadline, tnow, Env>>

Loop == \/ Prepare \/ PollReturns \/ Dispatch \/ CallNext \/ Return \/ WalkEnds

-----------------------------------------------------------------------------
(* The rest of the world: files and time.                                   *)

BecomesReady(e) ==
  /\ pc # "freed" /\ e \notin ready
  /\ ready' = ready \union {e}
  /\ UNCHANGED <<evvars, rev, wake, quit, loopvars, now, ops>>

Tick ==
  /\ pc # "freed" /\ now < MaxTime /\ now' = now + 1
  /\ UNCHANGED <<evvars, rev, wake, quit, loopvars, ready, ops>>

MlNext ==
  \/ \E e \in IoE, on \in BOOLEAN : io_new(e, on) \/ io_enable(e, on)
  \/ \E e \in IoE : io_free(e) \/ BecomesReady(e)
  \/ \E e \in DeferE : defer_new(e) \/ defer_free(e)
  \/ \E e \in DeferE, on \in BOOLEAN : defer_enable(e, on)
  \/ \E e \in TimeE, t \in 0..Never : time_new(e, t) \/ time_restart(e, t)
  \/ \E e \in TimeE : time_free(e)
  \/ pa_mainloop_quit
  \/ Prepare \/ PollReturns \/ PollInterrupted \/ PollFails
  \/ Dispatch \/ CallNext \/ Return \/ WalkEnds \/ Free
  \/ Tick

\* The thread of the loop runs, its callbacks return, and poll(2) returns
\* once it has something to report.
MlSpec == MlInit /\ [][MlNext]_mlVars /\ WF_mlVars(Loop)

-----------------------------------------------------------------------------
\* The counters by which the loop decides what to look at, and how large to
\* make its array, are what a count over the lists would give, through every
\* order of creating, enabling, firing and freeing: n_enabled_*_events and
\* n_io_events for the live events, please_scan for the dead ones.
CountsExact ==
  pc # "freed" =>
    /\ n["io"] = Cardinality(LiveIo)
    /\ n["time"] = Cardinality({e \in TimeE : Enabled(e)})
    /\ n["defer"] = Cardinality({e \in DeferE : Enabled(e)})
    /\ \A k \in Kinds : scan[k] = Cardinality({e \in Events : KindOf(e) = k /\ Dead(e)})

\* The cached time event is always a live, enabled one (the assertion of
\* mainloop_time_new and mainloop_time_restart), and none is earlier.
CachedIsNext ==
  cached # None => /\ Enabled(cached)
                   /\ \A e \in TimeE : Enabled(e) => ev[cached].time <= ev[e].time

\* When nothing but its files and its deadline can end the poll, the loop has
\* nothing else to do: it need not quit, no deferred event is enabled, it
\* watches exactly the enabled files, each of which has a place in the array,
\* and it wakes no later than the next timer.
SleepsOnlyWhenIdle ==
  pc = "poll" /\ ~wake =>
    /\ ~quit /\ n["defer"] = 0 /\ ~rebuild
    /\ watch = {e \in LiveIo : ev[e].on} /\ watch \subseteq pollfd
    /\ Cardinality(pollfd) + 1 <= size
    /\ \A e \in TimeE : Enabled(e) => deadline <= ev[e].time

\* No callback is called for an event that has been freed: its owner has
\* already let go of what the callback would use.
FreedIsSilent == [][cur' # cur /\ cur' # None => Live(cur')]_mlVars

Ended == pc \in {"quit", "error", "freed"}

\* A timer whose time has come fires, unless it is put off, freed, kept
\* waiting by deferred events, or the loop ends: changes and time come to an
\* end here, and then no enabled timer is overdue.
TimersFire ==
  <>[](\/ n["defer"] > 0 \/ Ended
       \/ \A e \in TimeE : ~(Enabled(e) /\ ev[e].time <= now))

\* An enabled file with something to report has its callback called, again
\* and again as long as it has, under the same conditions.
FilesServed ==
  \A e \in IoE : []<>(cur = e \/ ~(Enabled(e) /\ e \in ready) \/ n["defer"] > 0 \/ Ended)

\* Once it has been told to quit, by whatever thread, the loop ends.
QuitEnds == <>[](quit => Ended)

\* pa_mainloop keeps its books through changes from callbacks and other
\* threads, serves what is enabled and nothing that was freed, and ends.
MainLoopCorrect ==
    /\ [](MlTypeOK /\ CountsExact /\ CachedIsNext /\ SleepsOnlyWhenIdle)
    /\ FreedIsSilent
    /\ TimersFire /\ FilesServed /\ QuitEnds
=============================================================================
