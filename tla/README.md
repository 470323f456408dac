# Verification of Streamplayer

This directory holds TLA+ models of *Streamplayer*, the audio player daemon of
the StrBo project: TLC checks them on small instances, and TLAPS proves theorems
about all of its parts for all sizes, among them that streams are played in the
order in which they were pushed. Line numbers refer to the files below
`src/src/` of the repository at the commit the models were written from;
`PROJECT.json` maps each definition to the lines it models.

## 1. The system

Streamplayer receives streams and commands through D-Bus, keeps the streams in a
bounded FIFO, and plays them one after the other, without gaps, with a GStreamer
`playbin3` pipeline. It reports through D-Bus signals what it is doing.

| Component | State | Operations | Talks to |
|---|---|---|---|
| URL FIFO (`urlfifo.hh`) | queue, removed items, dropped IDs | push, pop, pop_drop, clear, clear_while, mark_as_dropped, get_removed, get_dropped | owned by the player core, protected by its own lock |
| Play item, URL collection (`playitem.*`, `url_collection.*`) | item state, failure, selected URL, resolved links, resolver | state and failure setters, select next URL, begin/finish resolving | items are owned by the FIFO or are the current stream; they own an RNF call |
| Buffering (`buffering.hh`) | why the pipeline is paused, buffer level | set level, start buffering, enter pause, try to leave | member of the pipeline data |
| Player core (`streamer.*`) | control data (activated, supposed status), pipeline data (current stream, next-stream request, buffering), failure data | playback commands, handlers of bus messages, about-to-finish, error recovery, link resolution, queued restart | all others |
| D-Bus methods (`dbus.*`) | none | one handler per method | call the player core |
| GStreamer pipeline (external) | states, `uri`, `current-uri`, bus | set state, read `uri`, post messages, emit about-to-finish | used by the player core; calls back from its own threads |
| RNF calls (`rnfcall*`) | state, cookie, promise | request, notification, fetch, abort, destroy | list broker (D-Bus), cookie manager, player core |
| Cookie manager (`cookie_manager*`) | notification and fetch functions per cookie | set pending cookie, available, error, finish | D-Bus signals of the list broker, RNF calls |
| Boosted threads (`boosted_threads.*`) | threads, boosted flag | add, remove, boost, throttle | called by the player core, and by threads of GStreamer about themselves |
| Meta data and throttling (`streamer.cc`, `streamdata.hh`) | tags, images, end of the cool-down time, update scheduled | collect, send now or later | bus messages, timers of the main loop |
| Positions and durations (`streamer.cc`) | current and previous time, timer | query, compare, send, invalidate | state changes start and remove the timer |
| Stopped reasons, URL schemes, start-up, diagnostics | tables, timers | formatting, look-up, logging | — |

### Threads and atomicity

The thread of the main loop runs the D-Bus method handlers, the watch of the
pipeline's bus, idle functions and timers, and the signal handlers of the list
broker. `about-to-finish` is emitted in a streaming thread of GStreamer, and may
request a link. Each of these handlers holds the recursive lock of the pipeline
data from its beginning to its end, so one handler is one step of module
`Streamer`. There are two exceptions: D-Bus method Push with -2 pushes and skips
under two separately acquired locks (actions `PushStream` and `PushThenSkip`,
with `about-to-finish` possibly in between), and an RNF call is made of many
critical sections, which is why it has a module of its own. The other locks of a
handler are acquired inside, in different orders; that this cannot
end in a deadlock is the subject of `StreamerLocks` and `LockOrder`.

What makes the player hard to test is the distance between cause and effect:

* Messages on the bus tell about the past. They do not name their stream, and the
  handlers interpret them by the present state of pipeline and items.
* The property `uri` is a one-element mailbox read by GStreamer at its own pace.
* `about-to-finish`, end of stream and a late Push race for starting the next
  stream; the loser must not lose the stream.
* Links may be resolved at once, inside of the request, later, never, or after
  the stream has been skipped.
* The signal for a cookie may be sent before the cookie is known to the player.
* Timers outlive the streams they were started for.
* Threads of a pool are boosted and throttled by the main loop while they enter
  and leave their tasks.

Section `hazards` of `PROJECT.json` lists them, each at its line, with the
properties aimed at them.

### What makes the components correct

* *URL FIFO*: it never exceeds its capacity, never loses or duplicates a stream,
  and keeps the order in which streams were pushed, whatever combination of
  numbers to keep is passed to push and clear.
* *Player core*: each accepted stream is played or reported; NowPlaying is
  sent for what is heard; what GStreamer is going to play is what the
  queue says; the pipeline ends up doing what the client asked for; a stream
  waiting in the queue of a playing player is played eventually.
* *Buffering*: no lost wake-up; a player paused for buffering resumes
  when the buffer is full, whichever order pause and level arrive in.
* *RNF calls and cookie manager*: every signal finds its call; the owner is
  told the true outcome, once; calls live as long as signals may refer to them.
* *Locks*: nobody waits in a circle, and data are used under their lock.
* *Boosted threads*: realtime priority for those who play, while they play, and
  for nobody else.
* *Meta data, positions*: the client ends up with the latest, for the right stream,
  and is not flooded.

From outside, the player is a queue: streams are announced in the order in which
they were pushed, and streams taken out of turn are reported as dropped. This is
the abstract specification `StreamOrder`, which the player implements.

## 2. The modules

```
UrlFifoOps ───┬── UrlFifo ── UrlFifoProofs        UrlFifoOps ── UrlFifoOpsProofs
GstPipeline ──┤
BufferingOps ─┼── Streamer ─┬─ Playback ── MCStreamer   RnfCall ── RnfCallProofs
PlayItem ─────┤      ┊      └─ StreamerProofs ── PlaybackProofs
              │      ┊ implements
              │   StreamOrder
BoostedThreads┴── BoostedThreadsProofs            Presentation ── PresentationProofs

StreamerLocks ─┬── MCLockOrder
LockOrder ─────┴── LockOrderProofs
```

`UrlFifoOps` — class `PlayQueue::Queue` as operators on a record of the three
containers. Used by the next two.

`UrlFifo` — the FIFO on its own: one action per method, in any order, for every
number of items to keep, and the bookkeeping of a client (`current`, `played`,
`reported`, `lastId`) which the properties need. Stream IDs ascend in the order
of acceptance. The limit for `push()` and `clear()` is `0..MaxItems`, where
`MaxItems` stands for all larger values, `SIZE_MAX` included.

`GstPipeline` — external; the part of `playbin3` `streamer.cc` depends on.
`GstSetState` is `gst_element_set_state()`: downward changes are synchronous,
upward changes leave a pending state which `Commit` reaches one
state at a time. Each change posts `STATE_CHANGED` on the bus, also the change
from READY to READY which `handle_stream_state_change()` complains about. `uri` is
read when the pipeline leaves READY or, after about-to-finish, for gapless
playback (`Prefetch`). `StartStream` posts `STREAM_START`, `Drain` posts `EOS`.

`BufferingOps` — class `Buffering::Data`. A percentage is the class
`set_buffer_level()` puts it in.

`PlayItem` — `PlayQueue::Item` with its URLs. A URI is a pair of stream and
index in the URL list; a link is a URL which has to be resolved before use.

`Streamer` — `streamer.cc` and the method handlers of `dbus.cc`. The variables
`ctl`, `pl`, `fail` are the structures behind the three locks; `fifo`, `item` are
the FIFO and the items; `gst` is the pipeline with its bus; `calls` are the
links being resolved; `idle` counts calls of `do_restart_playing()` queued in
the main loop. `client` is history: the streams the client has to hear of
(`owed`) and the stream it believes to be playing (`told`). `bug` holds the
`BUG` messages written by the last step, so that the assertions in the code
can be checked. The functions of `streamer.cc` are operators
from states to states with the names of the functions, and the actions apply them
to the variables. `threads` is an instance of `BoostedThreads`, and `watcher` tells
whether the timer for positions runs, and whether the player knows so. A dereferenced null pointer stops the model (`Crashed`).

| Actions | Code |
|---|---|
| `Activate` … `ClearQueue`, `PushStream`, `PushThenSkip` | methods in `dbus.cc` and the functions of `streamer.cc` they call |
| `HandleBus` | `bus_message_handler()`, with the handler of the first message |
| `RestartPlaying` | `do_restart_playing()` |
| `AboutToFinish` | signal about-to-finish, `queue_stream_from_url_fifo()` |
| `ResolverDone` | `ResolveAirableRedirectContext::notify()` for a call with a cookie |
| `ReportProgress` | the end of the timer in `report_progress()`; see `Presentation` for what it reports |
| `ThreadEnters`, `ThreadLeaves` | `bus_sync_message_handler()` in a thread of GStreamer |
| `Gst…` | what the pipeline does by itself |

`Playback` — what streams, commands and events make up *plain playback*, and the
invariant which holds then (`PlainInv`, see section 6). It adds no behaviour.

`MCStreamer` — values of the constants for TLC.

`StreamOrder` — the abstract player: the sequence of streams waiting for their
turn, the streams to be reported as dropped, those the client has not heard of
again, and the one announced last. Streams are announced from the front. The
refinement mapping is `Streamer!Order`: the streams waiting are the current stream,
unless it has been announced or is being skipped, followed by the FIFO. A prefetched
stream remains in its place, whatever GStreamer does with it.

`BoostedThreads` — class `BoostedThreads::Threads` and the handler in front of it, as
operators on a record (used by `Streamer`) and as a specification of its own (for
the proof). `sched` is the priority the operating system uses, `known` what the
class remembers, `task` what GStreamer uses the thread for.

`StreamerLocks` — which locks each handler, command and callback acquires, and in
which order, with one definition per function. A function is the set of its
lock programs: all conditions are left open, except one. `on_link_resolved()` called by
about-to-finish returns before it restarts the pipeline. If it did not, it would
acquire the control data within the pipeline data, opposite to `start()` in the main
loop, and set the state of the pipeline from one of its own threads. That it does
return is `NoRestartInStreamingThread`, checked and proved for `Streamer`. Two calls are
enough for a link whose answer sends `notify()` on to the next URL.

`LockOrder` — threads running lock programs on recursive locks and on the locks of
call objects, which are not recursive, with the discipline the programs keep to:
streaming threads acquire locks in ascending order, and the main loop acquires them
in any order, unless both are among those a streaming thread may hold and
wait for. A new call object is private until the list broker has been asked
(`asked`). GStreamer's own locks are not part of the model; the assumption is
that a downward state change under the pipeline lock (`streamer.cc:728`, `1419`,
`3366`, `3960`) does not wait for a handler of about-to-finish which waits for
that lock (the comment at `streamer.cc:748` is about this kind of deadlock).

`Presentation` — what the client is shown of the current stream. Time is a number
of ticks; `md` is `md_update_` with the time `left` of the cool-down, and `timers`
are the GLib timers which call `timed_emit_tags()`, of which nobody knows to which
update they belong. `gst` and `starting` are as much of the pipeline as is needed:
what is being played may be one stream ahead of `cur`. `Replace` stands
for all the ways `Streamer` has of replacing the current stream; it takes a
`STREAM_START` still on the bus with it, as justified by
`HonestNowPlaying`. Stream IDs are not reused immediately.

`RnfCall` — `RNF::Call`, `RNF::CookieCall` and the cookie manager, one action
per critical section. Several threads may request links, one after the other,
since they hold the pipeline lock; the signal handler runs in parallel.
The list broker answers at once, with a cookie, or not at all, and sends the
signal for a cookie at any time after it has been handed out, the time before the
cookie has been stored included. `abort_request()` is part of the model, but its
only call in the player, in `resolver_begin()`, cannot be reached
(`resolver_` is set only while the item is being resolved), hence the constant
`Abortable`, the calls it is used for. In `Streamer`, a call is a single element of `calls`:
`RnfCall` justifies this by showing that each call with a cookie is
answered, and once.

Definitions marked as mutants are plausible faults of the code: for each checked
property, exchanging one of them for the definition it mutates makes TLC report a
violation of the property (`mutants` in `PROJECT.json`).

## 3. The runs

Each run is `tlc -config <run>.cfg <module>`.

| Run | Question | Result |
|---|---|---|
| `UrlFifo_small` | Does the FIFO hold its promises for all sequences of operations? | holds; three places, six streams |
| `Streamer_play` | Does undisturbed playback work for local, network and cached Airable streams, with pushes, pause and seek at any time, any buffer level at any time, Internet radio and lost clocks? | holds |
| `Streamer_stop` | Is the player silent, and are positions watched, after Stop, Clear, deactivation and removal of the device at any time? Does about-to-finish never restart the pipeline? | holds |
| `Streamer_commands` | Does the queue remain consistent for every sequence of Push, Clear, Next, with all their parameters, and with a stream without URL? | holds |
| `Streamer_links` | Do items and resolvers agree if a link is skipped, stopped, cleared or retried? | holds |
| `Streamer_errors` | Are errors of current, prefetched and replaced streams, and video streams, handled such that no stream is lost, GStreamer has been given what is next, no assertion fires, the order is kept (`PlayedInOrder`), and realtime priority is regained? | holds |
| `Streamer_turns` | Do items, messages, pipeline and client belong together as the proofs have it (`PlainInv`), and is each stream pushed to a playing player played or reported in the end, if errors may occur at any time? | holds, the liveness under fairness |
| `RnfCall_calls` | Does each signal find its call, and is each owner told the truth, once, and eventually? What remains of this if a call is aborted at any time? | holds, `EveryCookieIsAnswered` under fairness |
| `LockOrder_player` | Can the handlers and callbacks of the player deadlock? | no; two streaming threads, two call objects |
| `Presentation_shown` | Does each change of meta data and each last position reach the client, for the right stream, at the permitted rate? | holds, the liveness under fairness |
| `Clear_forgets` | README: Clear forgets all streams but the current | violated |
| `Late_resolver` | Comment: an item is current before it is playing | violated, null pointer |

**Scope of the passing runs.** The properties are checked where the code is meant
to guarantee them. `NothingForgotten` is not checked with Stop (section 5), nor with Next and Push with -2:
a stream which has been popped, but not announced, may be replaced by the next
one without being reported. Push ignores the skipped stream `next()` returns, and
a Next while the message about the end of a stream is still on the bus makes the
handler of this message discard the stream skipped to. It is also not checked with streams without
URL, which `dbus.cc` reports as a bug and which `try_take_next()` forgets,
failing the stream after it instead. `HonestNowPlaying`,
`HeardIsKnown` and `PrefetchedIsNext` are checked without Stop and Clear, because
they do not hold with them (sections 4 and 5). For the same reasons, `PlayedInOrder`
is checked without Stop, Next and streams without URL. The clock is lost in
`Streamer_play` only, where the pipeline has a URI whenever the message is handled
(section 5). `Throttled` does not say that the rate limit is kept, which is not true,
but by whom it may be exceeded: a leftover timer. `AssertionsHold` in `Streamer_errors` depends on the
bound of two waiting messages: with four, an assertion fires if an error meets the end of a
stream and a pause (section 5). Without errors, it is proved for any number of messages.

**Bounds.** Streams are two to three, one more than fits into the FIFO, so that
a full FIFO is met; current, prefetched and waiting stream are the three roles
a stream can have. `MaxItems` is 1 or 2 in `Streamer` instead of 8: the FIFO's dependence on
its capacity is settled by the proofs. Each stream may be pushed again once
nothing refers to it, so that behaviours are not bounded in length. `MaxBus`
bounds only how many messages are waiting when GStreamer or the client go on (2 or 3; a
handler may still post more): outdated messages of two earlier
state changes are enough for most of the confusions found (section 5 names those which need more),
and in plain playback the proofs hold for any number. `MaxIdle = 1`: a second
restart can be queued only after a second end of stream. `MaxPushes` bounds the
IDs in `UrlFifo`. One thread and two tasks, with and without need for
realtime priority, suffice for `SchedulingFollows`, since threads register
only themselves. In `Presentation`, the cool-down time is two ticks, so that a timer
may be started in the middle of it, and two timers, the leftover and the one
in charge; both are arbitrary in the proofs. `MaxPos = 1`: a position which differs from the
first one and is equal for all streams. Percentages are one value per range the code
distinguishes, except for 15 to 99, which counts as the range below it while
buffering and neither begins nor ends buffering otherwise. `Streamer_play`, which has all kinds of streams, but
room for one stream in the FIFO, leaves `PrefetchedIsNext` to `Streamer_errors`, which has room for two. In `RnfCall`, three calls: one in each of requesting, being signalled, and
waiting; one of them may be aborted. In `LockOrder_player`, two streaming threads can hold
locks the main loop needs; any number is covered by the proof.

**Symmetry.** Local streams without peculiarities are interchangeable, and so are
streaming threads and call objects in `MCLockOrder`. No
symmetry is used for the runs with liveness.

**Deadlock** is checked except in `Streamer_stop`, `Streamer_commands` and
`Streamer_links`, where the model may stop after a null pointer
was dereferenced (section 5), and in the runs which are expected to fail.

**Fairness.** `Streamer!Fairness` is weak fairness of the main loop (it keeps dispatching
messages, idle functions and answers of the list broker) and of
the pipeline (it keeps loading, rendering and draining). The client is free to
do nothing. `RnfCall!Fairness` is weak fairness of threads which hold a lock, of the
signal handler, and of the list broker answering each cookie. It does
not demand that calls are requested, aborted or destroyed. `Presentation!Fairness`
is that time passes and that GLib calls the functions of expired timers, however
late; `report_progress()` is one of them while the pipeline is playing, as
`ProgressIsWatched` shows. Nothing is assumed about tags, streams and the client.

## 4. Findings

Each has a run which shows it.

* **Clear after prefetching** (`streamer.cc:3999`): the head of the FIFO is
  removed, but its URI stays in `uri`, so GStreamer goes on to play a stream
  the player does not know anymore.
* **Link resolved after end of stream** (`streamer.cc:1040`): if the resolution
  of the next stream's link had been started by about-to-finish and is done after the end of
  the current stream, the pipeline is started while there is no current stream, and
  `do_encourage_buffering()` dereferences a null pointer.

## 5. Further observations

Met while choosing the properties of the runs, with
traces from TLC in configurations which are not kept:

* Next without a next stream (`streamer.cc:3954`) sets the supposed status to
  STOPPED; README.md:76 says that the playback state is retained.
* A stream taken from the FIFO when READY is reached, and skipped before it is
  activated, is forgotten without report; so are streams without URL.
* `get_selected()` reads an empty vector for a stream without URL
  (`url_collection.hh:153`); `dbus.cc:272` accepts such a stream and only logs it.
* A clock lost after end of stream or Stop sets a pipeline without URI to PLAYING
  (`streamer.cc:2998`).
* A seek or an underrun while the pipeline passes PAUSED on its way to PLAYING: the
  buffering data are reset (`streamer.cc:2456`) and the network stream is played with an
  empty buffer, and without being boosted.
* `handle_start_of_stream()` reads the real-time flag of the previous stream
  (`streamer.cc:2624`): after a gapless change from radio to a local stream, threads
  are not boosted, and they are not throttled after the opposite change.
* `handle_stream_duration_async()` dereferences the current stream unchecked
  (`streamer.cc:2970`), and takes the running time in the message, if any,
  for the duration of the stream (`streamer.cc:2962`).
* After a quick skip while tags keep coming, two timers of `timed_emit_tags()`
  alternate, and meta data is sent at twice the permitted rate for as long as they do
  (`streamer.cc:331`).
* Tags handled before the stream is activated are wiped out by `clear_meta_data()`
  (`streamer.cc:2757`).
* After a gapless change, the position (and, after a seek, the duration) of the new
  stream is sent with the ID of the previous one until `STREAM_START` is handled.
* A retry resumes at the position queried last, which may be the previous stream's
  (`streamer.cc:1921`).
* The condition of the `MSG_BUG_IF` in `pipeline_start_required_when_ready()`
  (`playitem.cc:123`) is inverted.
* Next while the current stream has not been announced yet picks the current
  stream itself (`streamer.cc:3913`), and leaves the head of the FIFO alone.
* Stop while the pipeline has only reached READY leads to a change from READY to
  READY, ignored by the early return at `streamer.cc:2436`. If a start-of-stream message
  was waiting, the client's last signal is NowPlaying.
* A start-of-stream message of a stopped stream announces
  the stream pushed after it (`streamer.cc:2610`).
* `handle_buffer_underrun()` enters PAUSED_FOR_BUFFERING if the pipeline happens to
  pass PAUSED on its way to PLAYING, and does not pause it (`streamer.cc:2831`).
* If about-to-finish comes between PLAYING and start of stream, the
  request for the next stream is lost (`streamer.cc:1296`); end of stream then starts it.
* `start()` after end of stream does nothing for a next stream which is
  ABOUT_TO_ACTIVATE already (`streamer.cc:1307`); it stays until
  the next command.
* If the prefetched stream fails, an alternative URL is selected for the current stream,
  which has not failed (`streamer.cc:1904`).
* If the D-Bus request for a link fails, nobody is notified, and the item remains in
  RESOLVING_LINK (`rnfcall.hh:509`, `playitem.cc:162`). `Streamer_errors` contains
  such a stream.
* A notification takes an aborted call to READY_TO_FETCH, so that it is
  fetched by cookie 0 (`rnfcall.cc:129`), contrary to `rnfcall.hh:353`.
* If Stop finds state changes and the end of a stream waiting on the bus, and two streams are
  pushed then, the late state change takes the first one out of the FIFO
  (`streamer.cc:2484`), and the late end of stream discards it without a report.
* If the end of a stream, the state changes of Pause and Start, and an error are all waiting on the
  bus, then the end of stream marks the next stream for a restart, the late change to PLAYING makes it
  the current stream, and the error finds it with an empty URI in the pipeline, which the code
  reports as a bug (`streamer.cc:1869`).
* A stream which is pushed after the end of the current one has been posted, and before it is
  handled, is given to GStreamer right away, which does not play it anymore. The handler then stops
  the player, and reports a bug (`streamer.cc:1443`).
* `handle_start_of_stream()` dereferences the current stream (`streamer.cc:2624`)
  before it has checked that there is one. If Stop is sent twice while
  the message is waiting, then there is none.

## 6. The proofs

`UrlFifoProofs` proves for every capacity `MaxItems \in Nat \ {0}` and every number
of pushes `MaxPushes \in Nat`:

| Theorem | Statement |
|---|---|
| `SpecInv` | `Spec => []Inv`, the inductive invariant |
| `TypeCorrect` | `Spec => []TypeOK` |
| `NeverOverfull` | `Spec => []Bounded` |
| `NoneLost` | `Spec => []NoStreamLost` |
| `QueuedOnlyOnce` | `Spec => []QueuedIsNowhereElse` |
| `FirstInFirstOut` | `Spec => []InOrder` |
| `StepsKeepOrder` | `Spec => StepKeepsOrder`, an action property |

None of the last four is inductive by itself. `Inv` strengthens them by the facts
that the queue ascends strictly, all IDs handed out are smaller than those still queued,
and that queued IDs are disjoint from all others. Ascent gives the order
and that cutting the queue in two, as `clear()` and `pop()` do, yields
disjoint parts; disjointness is what keeps a removed stream from being
reported while it is still queued; a fresh ID is larger than all
others and thus disjoint from them.

The lemmas about the operators of `UrlFifoOps` are in `UrlFifoOpsProofs`, where the proofs
about the player find them as well: elements of sequences (`ElemsAppend`, `ElemsConcat`,
`ElemsCut`) and what cutting a queue at the front or at the back does
(`ClearCuts`, `HeadCut`, `PrefixKept` and `LeadingInRange` for `clear_while()`). `UrlFifoProofs`
adds what such cuts do to the invariant (`AscendingCut`, `BackCutFacts`, `FrontCutFacts`) and one
lemma per action
(`PushItemInv` … `ReportInv`), combined by `NextInv`. `StepsKeepOrder` goes through the actions
once more (`StepKeeps`).

`LockOrderProofs` proves `DeadlockFree` (`NoCircularWait`) and `GuardsExclude`
(`Exclusive`) for any number of streaming threads, locks and calls, and for all lock programs
which satisfy `DisciplineAssumption`; `LockOrder_player` makes TLC evaluate this assumption on
the programs in `StreamerLocks`. `Inv` says that each thread is at a place of one
of its programs, that no lock is held twice, and that a call which is
still to be asked for is used by one thread only. The argument for `NoCircularWait`: suppose a set of
threads waiting for each other. A new call object is nobody's
else, so the locks they wait for have ranks. Among streaming threads alone, the
rank ascends along the waits, so they cannot form a circle. A circle thus
includes the main loop, which holds a lock of `Inner` and waits for one of `Outer`; for those,
it keeps to the ranks, too.

`BoostedThreadsProofs` proves `PrioritiesFollow` (`SchedulingFollows`) for any number of
threads and tasks. The invariant adds that the class remembers exactly the threads whose
task needs a priority.

`PresentationProofs` proves `NoneLost` (`NoUpdateLost`) and `OnlyLeftoversHurry`
(`Throttled`) for any cool-down time and any number of streams, tags and timers. That there is a
timer whenever an update is scheduled is not inductive, because leftover timers
expire, too. `InCharge` strengthens it: one of the timers does not expire before the
cool-down time has passed, which is the one started with the update. As time passes,
this timer and the cool-down stay in order. From this, `Throttled` follows as well: a
timer which expires within the cool-down time cannot be the one in charge.

`PositionsAreOwn` (`KnownPositionIsOwn`) is by `PositionInv`: GStreamer may be one stream ahead of
the player, but only between the beginning of a stream and `handle_start_of_stream()`, which
overwrites whatever was stored in the meantime. Outside of this time, the pipeline plays the current
stream and the duration is the one of this stream.

`RnfCallProofs` proves, for any number of calls to the list broker, any of which may be
aborted, and whatever the broker answers:

| Theorem | Statement |
|---|---|
| `RnfTypes` | `Spec => []TypeOK` |
| `SignalsFindTheirCalls` | `Spec => []SignalFindsItsCall` |
| `CallsOutliveTheirCookies` | `Spec => []NeverDestroyedActive` |
| `ContextsAreToldTheTruth` | `Spec => []ToldTheTruthOnce` |
| `AbortedContextsAreToldOnce` | `Spec => []ToldOnceInSpiteOfAbort` |

These are about what the context of a call is told and which assertions fire. Whether they
hold depends on where the call is on its way. `CallInv` tells for each place
what the call object, the cookie manager and the broker think of it: which locks are held while
a request is in progress or `notify()` runs (`Locking`); that nobody else knows the call
before `request()` has returned (`Unknown`); that a signal is on its way, or is being
handled, as long as the cookie manager has functions for it (`Managed`); the states of the call
object at each of these places (`Progress`), and the fewer states of a call which nobody
aborts (`Undisturbed`).

### The player

`StreamerProofs` proves, for any set of streams, any lists of URLs, any capacity of the FIFO,
any pool of threads, any commands and arguments, and all messages and errors GStreamer may
come up with:

| Theorem | Statement |
|---|---|
| `PlayerTypes` | `Spec => []TypeOK` |
| `QueuedStreamsAreOwed` | `Spec => []QueuedIsOwed` |
| `OnlyHeadsAreActivated` | `Spec => []OnlyHeadIsActivated` |
| `ResolversAreInCharge` | `Spec => []ResolverInCharge`, if the broker refuses no call |
| `NoWakeupIsLost` | `Spec => []NoLostWakeup` |
| `RealtimeIsForPlaying` | `Spec => []NoRealtimeWhileBuffering` |
| `PlayerSchedulesThreads` | `Spec => []SchedulingFollows` |

The bounds `MaxBus` and `MaxIdle` are arbitrary here, too. The hypothesis of
`ResolversAreInCharge` is needed: if the D-Bus call to the broker fails, then the item keeps a
resolver for which there is no call. The runs which check `ResolverInCharge` have no such
stream, either (`Refused` is empty).

The invariant `Inv` has four parts and a frame:

* `QueueOk`: the queue holds each stream once, not the current one, none which is reported as
  dropped, and only streams the client is waiting for. `QueuedIsOwed` alone is not
  inductive: reporting the current or a dropped stream would take away what is owed for a
  queued one.
* `ItemsOk`: a queued item is untouched, except for the first one, which may be about to be
  activated. That it has no resolver either (unless it is the first) is what makes the late
  answer of the broker find the right item.
* `CallsOk`: an item has a resolver if and only if there is a call for it, and at most one.
* `CalmOk`: buffering and priorities. The three properties depend on each other, because
  the functions which throttle the threads do so on behalf of the buffering state machine.
* An item which is neither queued nor current has the state of a new one, so that a stream which
  is pushed again begins anew.

The functions of `streamer.cc` call each other, and each of them may be called while the others
are half-way through. So the lemmas are not about steps, but about functions from record
to record: `Leads(S, T)` says that T is well-typed, that it satisfies the invariant if S does
(unless the process has died), and that it has no stream in the queue which S has not. It is
transitive, so the lemma for a handler (`HandleEndOfStreamLeads`, `HandleStartOfStreamLeads`,
`HandleErrorMessageLeads`, `DoNextLeads` …) follows from those for the functions it
calls, in the order of the calls. `Aside(S, T)` is the stronger relation for functions which do not
touch any stream, `Goes(S, T)` the weaker one for functions which are called in the middle of a
change. `emit_stopped_with_error()` is an example for the latter: it is called when the failed
stream has been taken already. `BecomeInv` turns a function into a step, and `NextInv` has one
lemma for each group of steps.

Two parts of the model are stated for the sake of the proofs: `ArgsAssumption` (arguments of
Push and Clear are integers), and `idle \in Nat` in `TypeOK`, which says that no restart is
executed which was not scheduled.

### Plain playback

`PlaybackProofs` proves what the player is for: streams are played, in order, and the client
knows about it. Sections 3 to 5 show that this is not true for all uses of the player, so the
theorems assume `PlainPlayback` (module `Playback`): the client activates the player, pushes streams
at the end of the queue (with a single URL which can be passed to GStreamer), starts, pauses and
seeks. Stop, Next, Clear, removed devices and other values of `keep_first_n_entries`
take streams out of the queue while messages about them are on their way; links come with
`Late_resolver`; a lost clock may meet a pipeline without URI. Deactivation, which is a Stop, and alternative URLs are left out as well.
Everything else is arbitrary: the number of streams, the capacity of the queue, the number of messages
on the bus, when streams are pushed (also again), how far GStreamer is ahead of the
handlers, and, unless a theorem says otherwise, errors, video decoders, URLs which cannot be
opened, buffer levels, late durations, and threads.

| Theorem | Statement, in plain playback |
|---|---|
| `StreamsArePlayedInOrder` | `Spec => PlayedInOrder`: the player implements `StreamOrder` |
| `AnnouncementsAreHonest` | `Spec => HonestNowPlaying`, an action property |
| `PlaybackIsPlain` | `Spec => []PlainInv` |
| `HeardStreamIsKnown` | `Spec => []HeardIsKnown` |
| `UriIsOfNextStream` | `Spec => []PrefetchedIsNext` |
| `NoStreamIsForgotten` | `Spec => []NothingForgotten` |
| `StreamingThreadNeverRestarts` | `Spec => []NoRestartInStreamingThread` |
| `PlaysWhenAsked` | `Spec => []PlayingWhenAsked` |
| `StoppedIsSilent` | `Spec => []SilentWhenStopped` |
| `PlayingIsWatched` | `Spec => []ProgressIsWatched` |
| `NoAssertionFails` | `Spec => []AssertionsHold`, if there are no errors and no video streams (`NoErrors`) |
| `LocalFilesAreBoosted` | `Spec => []RealtimeWhilePlaying`, if all streams are local (`LocalFiles`) |

Both further assumptions are needed. With errors, an assertion may fire; and whether
threads are boosted depends on the real-time flag of the previous stream and on what the buffering data
say while the pipeline passes PAUSED (section 5), which is harmless among local streams only.

None of these properties is inductive, because they speak about settled states or about single
messages. `Plain` says what is true at any time, on top of `Inv`:

* `GstOk`, `BusOk`: a stream is reported to start once, before its end, and only while the pipeline
  still has it. `Late` are the messages which may follow the end of a stream.
* `PhaseOk`: if the pipeline is set in motion, it is starting the current stream (`First`),
  plays it, possibly with the head of the queue in its mailbox (`Steady`), or has gone on to the head of
  the queue (`Ahead`). Each phase comes with definite states of the two items, and with a definite
  answer to whether the client has heard of the current stream. So the handler of
  start-of-stream, which does not know what has started, finds out by the states of the items. If the
  pipeline rests, then because it could not open the stream (`Unopened`), or has
  nothing to play (`Resting`).
* `RestartOk`: only the head of the queue is marked for a restart, and only while nothing is
  current and the pipeline rests. This is why about-to-finish never finds such an item.
* `QueuePlain`: the client waits for the streams in the queue and for the current one, if it has
  not been announced yet, and for nothing else.
* `AskedOk`: if the client wants to hear something, then the pipeline is told so, or fills its
  buffer, or there is a restart scheduled, or a message on the bus which makes the player go on.
* `WatchedOk`: the timer runs, or the message which will start it is on the bus, with no
  message behind it which would stop it again.
* `BoostOk`, `CleanOk`: the parts which depend on `LocalFiles` and `NoErrors`.

A handler removes one message and reacts to it according to present states, so the lemmas compare the
state in which a handler begins with the one it leaves behind. `RestPlain`, `SteerPlain`, `GivePlain`,
`LaunchPlain` and `AnnouncedPlain` are about what handlers have in common: the pipeline is put to
rest, is set to another state, is given a URI, is started from READY, and a stream is announced.
The lemma of each handler (`HandleEndOfStreamPlain` …) builds on them. They also tell how the order
of streams is affected: `Moves` (streams at the front are gone, the client is told so, or that
playback has stopped), `Announces` (the first one is announced, by the message which is about it) and
`Accepts` (one is appended). `OrderStep` maps these to `Report`, `Announce` and `Accept` of
`StreamOrder`. A process which dies stops the model (`Fails`), which only errors of GStreamer can
cause in plain playback.

TLC checks `PlainInv` in `Streamer_turns`, the constants of which satisfy `PlainPlayback` and
`LocalFiles`. Proving it exposed the hidden bounds of two runs: `NothingForgotten` does not hold
with Stop, and `AssertionsHold` not with errors, if more messages are waiting (section 5).

### What is only model-checked

* Liveness under fairness (`EveryStreamGetsItsTurn`, `EveryCookieIsAnswered`,
  `EveryTagListIsShown`, `LastPositionIsShown`) is out of the prover's reach.
* The properties of the player proved for plain playback, beyond it: after Stop,
  Clear, deactivation and removal of the device (`Streamer_stop`), with links
  (`Streamer_play`, `Streamer_errors`) and with lost clocks (`Streamer_play`). They hold with
  the bounds of these runs.
* `AssertionsHold` and `RealtimeWhilePlaying` without the further assumptions above.

## 7. What is not modelled

* The content of tags; images and the cover art cache, where an image is compared
  with the one sent before by its address: data handling which does not feed
  back into playback.
* The debugging aid `ThreadObserver`; failing system calls for scheduling.
* State changes requested by elements of the pipeline, which are passed on to it
  (`streamer.cc:3012`), and latency messages.
* The seek itself and the initial seek position of a retry; Seek is modelled as far as it
  concerns buffering. Fast winding is not implemented by the code.
* The table of stopped reasons; errors are either worth a retry or not.
* URL schemes, translation of URLs, start-up, logging.
* The expiry time of a URL is a nondeterministic choice.
* Nested requests from `notify()` for further URLs of one link, an answer at once
  with an empty URI, and `fetch_blocking()`, which is not used.
* GStreamer's own locks (see `LockOrder` in section 2).

## 8. Plan

Done, in this order: FIFO and its proofs; GStreamer, buffering, items; player core; RNF
calls; locks and boosted threads with their proofs; the abstract player and its
implementation by `Streamer`; meta data and positions with their proofs; proofs about the
player and RNF calls; plain playback and the proof that it implements the abstract player. To come:

1. Proofs: Stop and deactivation as part of plain playback, for `SilentWhenStopped` and
   `ProgressIsWatched`, which do hold with them; alternative URLs; laws of `BufferingOps`.
2. An abstract FIFO (a sequence and a set of reported streams) implemented by `UrlFifo`.
3. Resume positions after a retry, once a seek is more than its effect on buffering.
