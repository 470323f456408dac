------------------------------ MODULE Streamer ------------------------------
(***************************************************************************)
(* The player proper: streamer.cc with the D-Bus method handlers of        *)
(* dbus.cc in front of it and GStreamer's pipeline behind it.              *)
(*                                                                         *)
(* The variables are the structures streamer.cc protects by its locks.     *)
(* Every handler holds the lock of the pipeline data from its beginning to *)
(* its end, so that a handler is one step.  The functions the handlers are *)
(* composed of are operators from a record S of all variables to such a    *)
(* record; they are named after the functions they model.  A function      *)
(* which also returns a value yields a record with the new state in field  *)
(* s and the value in field ok.                                            *)
(***************************************************************************)
EXTENDS Integers, Sequences, FiniteSets, UrlFifoOps, GstPipeline, BufferingOps, PlayItem

CONSTANTS
    Broker,     \* how the list broker answers requests for a stream's links
    Commands,   \* playback commands the client sends
    KeepArgs,   \* values of parameter keep_first_n_entries of method Push
    ClearArgs,  \* values of parameter keep_first_n_entries of method Clear
    Percents,   \* buffer levels reported by GStreamer
    Reasons,    \* classes of errors reported by GStreamer
    GstEvents,  \* other messages posted by GStreamer
    Pool,       \* threads GStreamer takes for its tasks
    Tasks,      \* names of these tasks
    MaxBus,     \* bound: GStreamer posts only while the bus is shorter
    MaxIdle     \* bound: GStreamer posts EOS only while fewer restarts are queued

ASSUME BrokerAssumption == Broker \in [Streams -> {"COOKIE", "AT_ONCE", "REFUSES"}]
ASSUME ArgsAssumption == KeepArgs \subseteq Int /\ ClearArgs \subseteq Int
ASSUME BoundsAssumption == MaxBus \in Nat \ {0} /\ MaxIdle \in Nat \ {0}

VARIABLES
    ctl,        \* ControlDataLocked: activated, status
    pl,         \* PipelineDataLocked: cur, protected, nextReq, justStarted, buf
    watcher,    \* progress_watcher_: "NONE", a timer "RUNNING", or one which is "GONE"
    fail,       \* FailureDataLocked: onStop, clearFifo
    fifo,       \* the URL FIFO, holding stream IDs
    item,       \* the items in the FIFO and in current_stream_
    gst,        \* the GStreamer pipeline
    calls,      \* Airable links being resolved
    idle,       \* number of do_restart_playing() calls queued in the main loop
    skip,       \* method Push has pushed its item, but not skipped to it yet
    threads,    \* boosted_threads_
    client,     \* what the D-Bus client has been told (see below)
    bug         \* BUG messages written by the last step

vars == <<ctl, pl, watcher, fail, fifo, item, gst, calls, idle, skip, threads,
          client, bug>>

BT == INSTANCE BoostedThreads

None == 0       \* nullptr in place of an item

(***************************************************************************)
(* client.told is the stream of the last NowPlaying signal, None after     *)
(* Stopped or StoppedWithError.  client.owed are the streams accepted by   *)
(* Push about which no signal and no reply has said anything since.        *)
(***************************************************************************)
Here ==
    [ctl |-> ctl, pl |-> pl, watcher |-> watcher, fail |-> fail, fifo |-> fifo,
     item |-> item, gst |-> gst, calls |-> calls, idle |-> idle, skip |-> skip,
     threads |-> threads, client |-> client, bug |-> {}]

Alive(S) == Elems(S.fifo.queue) \cup ({S.pl.cur} \ {None})

\* The process dies somewhere inside of a step.
Died(S) == "NULL_POINTER" \in S.bug

\* The step to record S.  A destroyed item has no state.  Here and in the steps, \E over
\* a single record makes TLC evaluate it once.
Become(S) ==
    \E T \in {IF Died(S) THEN [Here EXCEPT !.bug = S.bug] ELSE S} :
        /\ ctl' = T.ctl /\ pl' = T.pl /\ watcher' = T.watcher /\ fail' = T.fail /\ fifo' = T.fifo
        /\ item' = [i \in Streams |-> IF i \in Alive(T) THEN T.item[i] ELSE NewItem]
        /\ gst' = T.gst /\ calls' = T.calls /\ idle' = T.idle /\ skip' = T.skip
        /\ threads' = T.threads /\ client' = T.client /\ bug' = T.bug

Bug(S, what) == [S EXCEPT !.bug = @ \cup {what}]

\* A nullptr is dereferenced, or an empty vector is read: the process dies.
Crash(S) == Bug(S, "NULL_POINTER")

Crashed == Died([bug |-> bug])

SetItemState(S, i, st) == [S EXCEPT !.item[i].state = st]

\* Mutant: threads are boosted whatever the stream is.
BoostRegardless(S, allowed) == [S EXCEPT !.threads = BT!Boost(@)]

\* Mutant: the condition is negated.
BoostUnless(S, allowed) == IF allowed THEN S ELSE [S EXCEPT !.threads = BT!Boost(@)]

Boost(S, allowed) == IF allowed THEN [S EXCEPT !.threads = BT!Boost(@)] ELSE S

Throttle(S) == [S EXCEPT !.threads = BT!Throttle(@)]

SetStreamState(S, t) == [S EXCEPT !.gst = GstSetState(@, t)]

WipeOutUri(S) == [S EXCEPT !.gst.uri = NoUri]

-----------------------------------------------------------------------------
(* Signals *)

\* The dropped IDs are part of the signal or reply; so are the given streams.
Tell(S, streams) ==
    [S EXCEPT !.client.owed = @ \ (streams \cup DroppedIds(S.fifo)),
              !.fifo = TakeDropped(@)]

Stopping(S) ==
    WipeOutUri(Throttle([S EXCEPT !.ctl.status = "STOPPED", !.pl.buf = NotBuffering]))

EmitStopped(S) ==
    LET told == Tell(Stopping(S), {S.pl.cur})
    IN  IF S.pl.cur = None /\ DroppedIds(S.fifo) = {}
        THEN told
        ELSE [told EXCEPT !.client.told = None]

\* The signal tells the URL; there may be none to be read.
EmitStoppedWithError(S, failed) ==
    IF failed # None /\ NoUrls(failed)
    THEN Crash(S)
    ELSE [Tell(Stopping(S), {failed}) EXCEPT !.client.told = None]

EmitNowPlaying(S) == [Tell(S, {S.pl.cur}) EXCEPT !.client.told = S.pl.cur]

-----------------------------------------------------------------------------
(* Pipeline construction and error recovery *)

\* teardown_playbin() removes the bus watch, create_playbin() goes to READY.
RebuildPlaybin(S) == [Throttle(S) EXCEPT !.gst = GstSetState(NewPipeline, "READY")]

NoFailure == [onStop |-> FALSE, clearFifo |-> FALSE]

DoStopPipelineAndRecoverFromError(S) ==
    LET built   == RebuildPlaybin(S)
        cleared == IF built.fail.clearFifo
                   THEN [built EXCEPT !.fifo = Clear(@, 0)]
                   ELSE built
    IN  [EmitStoppedWithError(cleared, S.pl.cur)
           EXCEPT !.pl.cur = None, !.pl.justStarted = FALSE,
                  !.pl.nextReq = "NOT_REQUESTED", !.fail = NoFailure]

\* fail(reason, false) leaves report_on_stream_stop_ alone.
DoErrorRecovery(S) ==
    DoStopPipelineAndRecoverFromError(
        [S EXCEPT !.pl.nextReq = "NOT_REQUESTED", !.fail.clearFifo = FALSE])

RecoverFromErrorNowOrLater(S, onStop) ==
    IF onStop
    THEN [S EXCEPT !.fail = [onStop |-> TRUE, clearFifo |-> FALSE]]
    ELSE DoErrorRecovery(S)

RebuildPlaybinForWorkarounds(S) ==
    [RebuildPlaybin(S) EXCEPT !.pl.protected = TRUE, !.pl.justStarted = FALSE,
                              !.pl.nextReq = "NOT_REQUESTED", !.pl.buf = NotBuffering,
                              !.fail = NoFailure]

-----------------------------------------------------------------------------
(* Choosing the next stream *)

\* Mutant: a stream which plays, but was not announced yet, is passed over.
PickNextItemPassingOver(S) ==
    LET cur == S.pl.cur
    IN  IF cur # None /\ S.item[cur].state \in {"IN_QUEUE", "ABOUT_TO_ACTIVATE"}
        THEN [id |-> cur, inFifo |-> FALSE]
        ELSE [id |-> IF IsEmpty(S.fifo) THEN None ELSE Peek(S.fifo), inFifo |-> ~IsEmpty(S.fifo)]

PickNextItem(S) ==
    LET cur == S.pl.cur
    IN  IF cur # None /\ S.item[cur].state \in
                {"IN_QUEUE", "ABOUT_TO_ACTIVATE", "ACTIVE_HALF_PLAYING"}
        THEN [id |-> cur, inFifo |-> FALSE]
        ELSE [id |-> IF IsEmpty(S.fifo) THEN None ELSE Peek(S.fifo), inFifo |-> ~IsEmpty(S.fifo)]

\* Queue::pop() with current_stream_ as destination.
PopToCurrent(S) ==
    IF IsEmpty(S.fifo)
    THEN S
    ELSE [S EXCEPT !.pl.cur = Peek(S.fifo), !.fifo = Pop(@)]

(***************************************************************************)
(* try_take_next(), always called with is_queued_item_expected = true.     *)
(* Field next is the returned item, replaced and justQueued are the two    *)
(* output parameters.                                                      *)
(***************************************************************************)
TryTakeNextFailed(S) ==
    LET replaced == S.pl.cur # None
        moved    == IF replaced
                    THEN PopToCurrent(S)
                    ELSE [S EXCEPT !.fifo = PopDrop(@)]
        failing  == moved.pl.cur # None /\ ~moved.item[moved.pl.cur].failed
        after    == CASE ~replaced /\ IsEmpty(S.fifo) -> DoErrorRecovery(S)
                      [] failing -> RecoverFromErrorNowOrLater(
                                        [moved EXCEPT !.item[moved.pl.cur].failed = TRUE],
                                        replaced)
                      [] OTHER -> moved
    IN  [s |-> after, next |-> None, replaced |-> replaced, justQueued |-> FALSE]

TryTakeNext(S) ==
    LET pick == PickNextItem(S)
        T    == IF pick.inFifo THEN PopToCurrent(S) ELSE S
    IN  IF pick.id = None \/ NoUrls(pick.id)
        THEN TryTakeNextFailed(S)
        ELSE [s |-> T, next |-> pick.id, replaced |-> pick.inFifo,
              justQueued |-> T.item[T.pl.cur].state = "IN_QUEUE"]

-----------------------------------------------------------------------------
(* Buffering *)

HandleBufferUnderrun(S) ==
    LET paused  == S.gst.state = "PAUSED"
        blame   == IF S.ctl.status = S.gst.target THEN S ELSE Bug(S, "SUPPOSED_STATUS")
        begin(T, st) == [Throttle(T) EXCEPT !.pl.buf = StartBuffering(@, st)]
    IN  CASE IsBuffering(S.pl.buf) -> S
          [] ~IsBuffering(S.pl.buf) /\ S.gst.target = "PLAYING" ->
               IF paused
               THEN begin(blame, "PAUSED_FOR_BUFFERING")
               ELSE begin(SetStreamState(blame, "PAUSED"), "PAUSED_PENDING")
          [] ~IsBuffering(S.pl.buf) /\ S.gst.target = "PAUSED" ->
               begin(blame, IF paused THEN "PAUSED_PIGGYBACK" ELSE "PAUSED_PENDING")
          [] OTHER -> Bug(S, "UNREACHABLE")

DoEncourageBuffering(S) ==
    IF S.pl.cur = None
    THEN Crash(S)
    ELSE IF S.pl.cur \in Network
         THEN HandleBufferUnderrun([S EXCEPT !.pl.buf = SetBufferLevel(@, "0")])
         ELSE S

TryLeaveBufferingState(S) ==
    LET left == Boost([S EXCEPT !.pl.buf = LeaveBuffering(@)], S.item[S.pl.cur].realtime)
    IN  CASE ~BufferFilled(S.pl.buf) -> S
          [] BufferFilled(S.pl.buf) /\ S.pl.cur = None -> Crash(S)
          [] OTHER -> IF S.ctl.status = "PLAYING" THEN SetStreamState(left, "PLAYING") ELSE left

\* Mutant: a buffer filled before the pipeline has paused is not noticed.
EnterPauseOnly(S) == [S EXCEPT !.pl.buf = EnteredPause(@)]

\* entered_pause() and what its callers do if it returns true.
EnterPause(S) ==
    IF IsBuffering(S.pl.buf)
    THEN TryLeaveBufferingState([S EXCEPT !.pl.buf = EnteredPause(@)])
    ELSE S

-----------------------------------------------------------------------------
(* Playing the next stream *)

OnLinkResolved(S, i, nextState, prefetching) ==
    LET given  == [S EXCEPT !.gst.uri = UrlForPlaying(i, S.item[i]),
                            !.pl.nextReq = "NOT_REQUESTED"]
        T      == IF prefetching THEN [given EXCEPT !.item[i].restart = FALSE] ELSE given
        goal   == IF prefetching /\ nextState \notin {"PLAYING", "PAUSED"}
                  THEN "PLAYING" ELSE nextState
        moved  == SetStreamState(T, goal)
    IN  CASE prefetching /\ ~S.item[i].restart -> [s |-> given, ok |-> TRUE]
          [] ~(prefetching /\ ~S.item[i].restart) /\ GstRefuses(T.gst, goal) ->
               [s |-> moved, ok |-> FALSE]
          [] OTHER -> [s |-> DoEncourageBuffering(moved), ok |-> TRUE]

\* Mutant: an answer which comes at once does not finish the resolver.
BeginUnanswered(S, i, nextState, prefetching) ==
    OnLinkResolved([S EXCEPT !.item[i].resolving = TRUE,
                             !.item[i].resolved = @ \cup {S.item[i].selected}],
                   i, nextState, prefetching).s

(***************************************************************************)
(* resolver_begin(): the list broker returns a cookie, in which case the   *)
(* link is resolved later, or it returns the URI at once, and notify() is  *)
(* called before request() returns.  If the D-Bus call itself fails, then  *)
(* nobody is notified, and resolver_ remains set.                          *)
(***************************************************************************)
BeginResolving(S, i, nextState, prefetching) ==
    LET begun == [S EXCEPT !.item[i] = ResolverBegin(@)]
    IN  CASE Broker[i] = "COOKIE" ->
               [begun EXCEPT !.calls = @ \cup {[id |-> i, nextState |-> nextState,
                                                prefetching |-> prefetching]}]
          [] Broker[i] = "AT_ONCE" ->
               OnLinkResolved([begun EXCEPT !.item[i] = ResolverResolved(@)],
                              i, nextState, prefetching).s
          [] OTHER -> begun

ResolveSelectedUrlOrPlayUri(S, i, nextState, prefetching) ==
    CASE UrlState(i, S.item[i]) = "KNOWN_AIRABLE_LINK" ->
           [s |-> BeginResolving(S, i, nextState, prefetching), ok |-> TRUE]
      [] UrlState(i, S.item[i]) = "RESOLVING_LINK" -> [s |-> S, ok |-> TRUE]
      [] UrlState(i, S.item[i]) = "BROKEN" -> [s |-> Bug(S, "NOT_IMPLEMENTED"), ok |-> FALSE]
      [] OTHER -> OnLinkResolved(S, i, nextState, prefetching)

PlayNextStream(S, replaced, i, nextState, skipping, prefetching) ==
    LET activating == SetItemState(S, i, "ABOUT_TO_ACTIVATE")
        T == IF replaced = None
             THEN activating
             ELSE SetItemState(activating, replaced,
                               IF skipping THEN "ABOUT_TO_BE_SKIPPED" ELSE "ABOUT_TO_PHASE_OUT")
    IN  CASE S.item[i].state = "IN_QUEUE" ->
               ResolveSelectedUrlOrPlayUri(T, i, nextState, prefetching)
          [] S.item[i].state = "ABOUT_TO_ACTIVATE" ->
               [s |-> IF replaced = None /\ S.pl.nextReq = "REQUESTED"
                      THEN [S EXCEPT !.pl.nextReq = "REQUEST_DEFERRED"]
                      ELSE S,
                ok |-> TRUE]
          [] OTHER -> [s |-> Bug(S, "UNEXPECTED_STREAM_STATE"), ok |-> FALSE]

\* queue_stream_from_url_fifo__unlocked()
QueueStreamFromUrlFifo(S) ==
    LET pick == PickNextItem(S)
        cur  == S.pl.cur
        T    == IF S.pl.nextReq = "NOT_REQUESTED" THEN Bug(S, "NOT_REQUESTED_YET") ELSE S
    IN  CASE pick.id = None /\ cur = None -> Bug(T, "NOTHING_TO_PLAY")
          [] pick.id = None /\ cur # None -> SetItemState(T, cur, "ABOUT_TO_PHASE_OUT")
          [] OTHER -> PlayNextStream(T, IF pick.inFifo THEN None ELSE cur,
                                     pick.id, "NULL", FALSE, TRUE).s

TryPlayNextStream(S, nextState) ==
    LET t == TryTakeNext(S)
    IN  IF t.next # None /\ (t.replaced \/ t.justQueued)
        THEN PlayNextStream(t.s, None, t.next, nextState, FALSE, FALSE).s
        ELSE t.s

-----------------------------------------------------------------------------
(* Activation of a stream which has been passed to GStreamer *)

(***************************************************************************)
(* activate_stream(): phase 0 is used when the pipeline has reached its    *)
(* target state, phase 2 when GStreamer reports the start of a stream.     *)
(***************************************************************************)
ActivateStream(S, phase) ==
    LET cur == S.pl.cur
        st  == S.item[cur].state
        into(new) == [s |-> SetItemState(S, cur, new), res |-> "ACTIVATED"]
    IN  CASE cur = None -> [s |-> Bug(S, "CURRENT_ITEM_INVALID"), res |-> "INVALID"]
          [] cur # None /\ st = "ABOUT_TO_ACTIVATE" ->
               into(IF phase = 0 THEN "ACTIVE_HALF_PLAYING" ELSE "ACTIVE_NOW_PLAYING")
          [] cur # None /\ st = "ACTIVE_HALF_PLAYING" /\ phase = 2 ->
               into(IF IsEmpty(S.fifo) THEN "ABOUT_TO_PHASE_OUT" ELSE "ACTIVE_NOW_PLAYING")
          [] cur # None /\ st = "IN_QUEUE" ->
               [s |-> Bug(SetItemState(S, cur, "ABOUT_TO_BE_SKIPPED"), "UNEXPECTED_STATE"),
                res |-> "INVALID"]
          [] cur # None /\ st = "ABOUT_TO_BE_SKIPPED" -> [s |-> S, res |-> "INVALID"]
          [] OTHER -> [s |-> S, res |-> "ALREADY_ACTIVE"]

\* The signal itself carries nothing the client keeps books about.
EmitPauseStateIfNotBuffering(S) ==
    IF ~IsBuffering(S.pl.buf) /\ S.pl.cur = None THEN Crash(S) ELSE S

\* Mutant: a stream is announced as soon as the pipeline is in its state.
AnnounceEarly(S) ==
    LET active == ActivateStream(S, 2)
    IN  IF active.res = "ACTIVATED" THEN EmitNowPlaying(active.s) ELSE active.s

ActivateStreamAndEmitPauseState(S) == ActivateStream(S, 0).s

-----------------------------------------------------------------------------
(* Handlers of messages from the bus *)

\* Mutant: the URI which has been passed to GStreamer is not taken back.
EndOfStreamKeepingUri(S) ==
    LET down == SetStreamState(S, "READY")
        head == Peek(S.fifo)
    IN  CASE IsEmpty(S.fifo) -> [EmitStopped(down) EXCEPT !.pl.cur = None]
          [] ~IsEmpty(S.fifo) /\ StartRequired(head, S.item[head]) = "START_NOW" ->
               [down EXCEPT !.item[head] = MarkForRestart(@), !.idle = @ + 1, !.pl.cur = None]
          [] OTHER -> [down EXCEPT !.item[head] = MarkForRestart(@), !.pl.cur = None]

\* Mutant: the pipeline is left running.
EndOfStreamStillRunning(S) ==
    LET head == Peek(S.fifo)
    IN  WipeOutUri(
            [CASE IsEmpty(S.fifo) -> EmitStopped(S)
               [] ~IsEmpty(S.fifo) /\ StartRequired(head, S.item[head]) = "START_NOW" ->
                    [S EXCEPT !.item[head] = MarkForRestart(@), !.idle = @ + 1]
               [] OTHER -> [S EXCEPT !.item[head] = MarkForRestart(@)]
             EXCEPT !.pl.cur = None])

\* Mutant: the next stream is left to the gapless engine.
EndOfStreamWithoutRestart(S) ==
    LET down == SetStreamState(S, "READY")
    IN  WipeOutUri([IF IsEmpty(S.fifo) THEN EmitStopped(down) ELSE down EXCEPT !.pl.cur = None])

HandleEndOfStream(S) ==
    LET down    == SetStreamState(S, "READY")
        head    == Peek(S.fifo)
        marked  == [down EXCEPT !.item[head] = MarkForRestart(@)]
        decided == CASE IsEmpty(S.fifo) -> EmitStopped(down)
                     [] ~IsEmpty(S.fifo) /\ StartRequired(head, S.item[head]) = "NOT_REQUIRED" ->
                          EmitStopped(Bug(marked, "STOPPING"))
                     [] ~IsEmpty(S.fifo) /\ StartRequired(head, S.item[head]) = "START_NOW" ->
                          [marked EXCEPT !.idle = @ + 1]
                     [] OTHER -> marked
    IN  WipeOutUri([decided EXCEPT !.pl.cur = None])

\* The pipeline has arrived in READY, where it was supposed to go.
ArrivedInReady(S) ==
    LET wiped   == WipeOutUri(S)
        cur     == S.pl.cur
        urlSt   == IF cur = None THEN "BROKEN" ELSE UrlState(cur, S.item[cur])
        stopped == IF urlSt \in {"KNOWN_DIRECT_URL", "KNOWN_RESOLVED_URL"}
                   THEN EmitStopped(wiped) ELSE wiped
        moved   == CASE stopped.pl.protected -> [stopped EXCEPT !.pl.protected = FALSE]
                     [] ~stopped.pl.protected /\ ~IsEmpty(stopped.fifo) -> PopToCurrent(stopped)
                     [] OTHER -> [stopped EXCEPT !.pl.cur = None]
    IN  IF urlSt \in {"KNOWN_AIRABLE_LINK", "RESOLVING_LINK"}
        THEN wiped
        ELSE [moved EXCEPT !.pl.justStarted = FALSE]

\* Mutant: the timer is removed, but its ID is kept.
StopWatchingOnly(S) == [S EXCEPT !.watcher = IF @ = "RUNNING" THEN "GONE" ELSE @]

StopWatching(S) == [S EXCEPT !.watcher = "NONE"]

WatchProgress(S) == [S EXCEPT !.watcher = IF @ = "NONE" THEN "RUNNING" ELSE @]

(***************************************************************************)
(* handle_stream_state_change(): the message tells the change, but what is *)
(* done about it depends on the target state of the pipeline by the time   *)
(* the message is handled.                                                 *)
(***************************************************************************)
HandleStreamStateChange(S, old, new, pending) ==
    LET starting == new = "PAUSED" /\ old \in {"READY", "NULL"} /\ pending = "PLAYING"
        just     == [S EXCEPT !.pl.justStarted = TRUE]
        T        == CASE starting /\ S.gst.target # "PAUSED" ->
                           [just EXCEPT !.pl.buf = NotBuffering]
                      [] starting /\ S.gst.target = "PAUSED" -> EnterPause(just)
                      [] new \in {"READY", "NULL"} -> StopWatching(S)
                      [] OTHER -> S
        playing  == IF T.pl.justStarted
                    THEN EmitPauseStateIfNotBuffering(T)
                    ELSE ActivateStreamAndEmitPauseState(T)
    IN  CASE new = old /\ new \in {"READY", "NULL"} -> S
          [] ~(new = old /\ new \in {"READY", "NULL"}) /\ S.gst.target = "NULL" ->
               Bug(T, "BOGUS_TARGET")
          [] OTHER ->
               CASE pending # "VOID" -> T
                 [] pending = "VOID" /\ S.gst.target = "READY" -> ArrivedInReady(T)
                 [] pending = "VOID" /\ S.gst.target = "PAUSED" ->
                      EnterPause(ActivateStreamAndEmitPauseState(T))
                 [] OTHER -> WatchProgress([playing EXCEPT !.pl.justStarted = FALSE])

\* Mutant: the stream which starts remains in the FIFO.
StartOfStreamWithoutPop(S) ==
    LET pick   == PickNextItem(S)
        id     == IF pick.id = None THEN S.pl.cur ELSE pick.id
        ready  == IF id = None \/ S.item[id].state = "ACTIVE_NOW_PLAYING"
                  THEN S ELSE SetItemState(S, id, "ACTIVE_HALF_PLAYING")
        active == ActivateStream(ready, 2)
    IN  IF active.res = "ACTIVATED" THEN EmitNowPlaying(active.s) ELSE active.s

HandleStartOfStream(S) ==
    LET pick   == PickNextItem(S)
        id     == IF pick.id = None THEN S.pl.cur ELSE pick.id
        st     == S.item[id].state
        fast   == Boost(S, ~IsBuffering(S.pl.buf) /\ S.item[S.pl.cur].realtime)
        noted  == CASE st = "IN_QUEUE" -> Bug(fast, "PICKED_QUEUED_STREAM")
                    [] st = "ACTIVE_HALF_PLAYING" /\ ~IsEmpty(S.fifo) /\
                       S.item[Peek(S.fifo)].state \notin {"IN_QUEUE", "ABOUT_TO_ACTIVATE"} ->
                         Bug(fast, "UNEXPECTED_NEXT_STREAM")
                    [] OTHER -> fast
        taken  == IF pick.inFifo THEN PopToCurrent(noted) ELSE noted
        ready  == IF st = "ACTIVE_NOW_PLAYING"
                  THEN taken ELSE SetItemState(taken, id, "ACTIVE_HALF_PLAYING")
        active == ActivateStream(ready, 2)
        told   == IF active.res = "ACTIVATED" THEN EmitNowPlaying(active.s) ELSE active.s
        push   == /\ S.pl.nextReq = "REQUEST_DEFERRED"
                  /\ st \notin {"ACTIVE_HALF_PLAYING", "ACTIVE_NOW_PLAYING"}
    IN  CASE S.pl.cur = None /\ (id = None \/ ~IsBuffering(S.pl.buf)) -> Crash(S)
          [] ~(S.pl.cur = None /\ (id = None \/ ~IsBuffering(S.pl.buf))) /\ push ->
               QueueStreamFromUrlFifo([told EXCEPT !.pl.nextReq = "REQUESTED"])
          [] OTHER -> told

HandleBuffering(S, percent) ==
    LET change == LevelChange(S.pl.buf, percent)
        level  == [S EXCEPT !.pl.buf = SetBufferLevel(@, percent)]
    IN  CASE S.ctl.status = "STOPPED" -> S
          [] S.ctl.status # "STOPPED" /\ change = "FULL_DETECTED" -> TryLeaveBufferingState(level)
          [] S.ctl.status # "STOPPED" /\ change = "UNDERRUN_DETECTED" -> HandleBufferUnderrun(level)
          [] OTHER -> level

(***************************************************************************)
(* handle_stream_duration_async(): a stream whose duration is not known is *)
(* taken for Internet radio.                                               *)
(***************************************************************************)
HandleStreamDurationAsync(S, known) ==
    CASE known -> S
      [] ~known /\ S.pl.cur = None -> Crash(S)
      [] OTHER -> Throttle([S EXCEPT !.item[S.pl.cur] = DisableRealtime(@)])

HandleClockLostMessage(S) == SetStreamState(SetStreamState(S, "PAUSED"), "PLAYING")

(***************************************************************************)
(* A video decoder in the pipeline is treated as a failure of the current  *)
(* stream: GST_ELEMENT_ERROR() posts the error message.                    *)
(***************************************************************************)
HandleVideoDecoder(S) ==
    LET cur    == S.pl.cur
        marked == [S EXCEPT !.item[cur].prefailed = TRUE]
    IN  CASE cur = None \/ S.item[cur].prefailed -> S
          [] ~(cur = None \/ S.item[cur].prefailed) /\
             S.item[cur].state \notin {"IN_QUEUE", "ABOUT_TO_BE_SKIPPED"} ->
               [marked EXCEPT !.gst = Post(@, ErrorMessage("RETRY"))]
          [] OTHER -> marked

-----------------------------------------------------------------------------
(* Error messages *)

Named(S, i) == UrlForPlaying(i, S.item[i]) = S.gst.curUri

\* The last stream whose URL is compared to the URI in the pipeline.
Consulted(S) ==
    LET cur == S.pl.cur
    IN  IF cur # None /\ (NoUrls(cur) \/ Named(S, cur) \/ IsEmpty(S.fifo))
        THEN cur ELSE Peek(S.fifo)

DetermineFailedStream(S) ==
    LET cur   == S.pl.cur
        uri   == S.gst.curUri
        named(i) == Named(S, i)
    IN  CASE cur # None /\ S.item[cur].prefailed ->
               IF uri = NoUri THEN "GAPLESS_NEXT_WITH_PREFAIL_REASON"
                              ELSE "CURRENT_WITH_PREFAIL_REASON"
          [] ~(cur # None /\ S.item[cur].prefailed) /\ uri = NoUri ->
               IF cur = None THEN "ALREADY_GONE" ELSE "UNKNOWN"
          [] OTHER ->
               CASE cur # None /\ named(cur) -> "CURRENT"
                 [] ~(cur # None /\ named(cur)) /\ ~IsEmpty(S.fifo) /\ named(Peek(S.fifo)) ->
                      "GAPLESS_NEXT"
                 [] OTHER -> "UNKNOWN"

(***************************************************************************)
(* try_refresh_uri_or_resolve_alternative_uri(): always another URL of the *)
(* current stream.  Parameter late tells if its URL has expired by now.    *)
(***************************************************************************)
TryRefreshUri(S, late, prefetching) ==
    LET cur   == S.pl.cur
        other == [RebuildPlaybin([S EXCEPT !.item[cur] = SelectNextUrl(cur, @, late)])
                    EXCEPT !.item[cur].state = "ABOUT_TO_ACTIVATE", !.pl.protected = TRUE]
        goal  == IF S.ctl.status = "PLAYING" THEN "PLAYING" ELSE "PAUSED"
    IN  IF cur = None \/ ~HasNextUrl(cur, S.item[cur], late)
        THEN [s |-> S, ok |-> FALSE]
        ELSE ResolveSelectedUrlOrPlayUri(other, cur, goal, prefetching)

\* Failure of the current stream is final.
FailCurrent(S) ==
    IF S.item[S.pl.cur].failed
    THEN S
    ELSE DoErrorRecovery([S EXCEPT !.item[S.pl.cur].failed = TRUE])

\* Failure of the prefetched stream is final; it has been popped already.
FailPrefetched(S, failed) ==
    LET dropped == IF S.pl.cur = None THEN S ELSE [S EXCEPT !.fifo = MarkAsDropped(@, S.pl.cur)]
    IN  [EmitStoppedWithError(SetStreamState(dropped, "NULL"), failed)
           EXCEPT !.fail = NoFailure, !.pl.justStarted = FALSE,
                  !.pl.nextReq = "NOT_REQUESTED", !.pl.cur = None]

(***************************************************************************)
(* handle_error_message(): reason "RETRY" stands for the reasons which are *)
(* worth a try with another URL, "FINAL" for the others.  The reason of a  *)
(* video decoder is WRONG_TYPE, one of the former.  A prefetched stream    *)
(* has no pre-failure reason of its own.                                   *)
(***************************************************************************)
HandleErrorMessage(S, reason, late) ==
    LET which   == DetermineFailedStream(S)
        gapless == which \in {"GAPLESS_NEXT", "GAPLESS_NEXT_WITH_PREFAIL_REASON"}
        failed  == Peek(S.fifo)
        popped  == IF gapless THEN [S EXCEPT !.fifo = Pop(@)] ELSE S
        retry   == \/ which = "CURRENT_WITH_PREFAIL_REASON"
                   \/ which \in {"CURRENT", "GAPLESS_NEXT"} /\ reason = "RETRY"
        again   == IF retry THEN TryRefreshUri(popped, late, gapless)
                            ELSE [s |-> popped, ok |-> FALSE]
        crash   == \/ S.gst.curUri # NoUri /\ Alive(S) # {} /\ NoUrls(Consulted(S))
                   \/ which = "GAPLESS_NEXT" /\ S.pl.cur = None
                   \/ gapless /\ IsEmpty(S.fifo)
    IN  CASE crash -> Crash(S)
          [] ~crash /\ which = "ALREADY_GONE" -> S
          [] ~crash /\ which = "UNKNOWN" -> Bug(S, "NO_FAILED_ITEM")
          [] OTHER -> IF again.ok THEN again.s
                      ELSE IF gapless THEN FailPrefetched(again.s, failed)
                      ELSE FailCurrent(again.s)

HandleMessage(S, m) ==
    CASE m[1] = "STATE_CHANGED" -> {HandleStreamStateChange(S, m[2], m[3], m[4])}
      [] m[1] = "STREAM_START"  -> {HandleStartOfStream(S)}
      [] m[1] = "EOS"           -> {HandleEndOfStream(S)}
      [] m[1] = "BUFFERING"     -> {HandleBuffering(S, m[2])}
      [] m[1] = "ERROR"         -> {HandleErrorMessage(S, m[2], late) : late \in BOOLEAN}
      [] m[1] = "ASYNC_DONE"    -> {HandleStreamDurationAsync(S, known) : known \in BOOLEAN}
      [] m[1] = "VIDEO_DECODER" -> {HandleVideoDecoder(S)}
      [] m[1] = "CLOCK_LOST"    -> {HandleClockLostMessage(S)}

-----------------------------------------------------------------------------
(* Functions behind the D-Bus methods *)

Inactive(S) == Bug(S, "INACTIVE")

\* Mutant: a pipeline on its way to PAUSED is taken for one that is not.
StartIgnoringPending(S) ==
    LET T == [S EXCEPT !.ctl.status = "PLAYING"]
    IN  CASE ~S.ctl.activated -> Inactive(S)
          [] S.ctl.activated /\ (IsBuffering(S.pl.buf) \/ S.gst.state = "PLAYING") -> T
          [] OTHER -> IF S.gst.state = "PAUSED"
                      THEN SetStreamState(T, "PLAYING")
                      ELSE TryPlayNextStream(RebuildPlaybinForWorkarounds(T), "PLAYING")

DoStart(S) ==
    LET T     == [S EXCEPT !.ctl.status = "PLAYING"]
        state == IF S.gst.pending = "PAUSED" THEN "PAUSED" ELSE S.gst.state
    IN  CASE ~S.ctl.activated -> Inactive(S)
          [] S.ctl.activated /\ (IsBuffering(S.pl.buf) \/ S.gst.pending = "PLAYING"
                                                      \/ state = "PLAYING") -> T
          [] OTHER -> IF state = "PAUSED"
                      THEN SetStreamState(T, "PLAYING")
                      ELSE TryPlayNextStream(RebuildPlaybinForWorkarounds(T), "PLAYING")

\* Mutant: a pipeline which is still prerolling is not stopped.
StopOnlyIfReached(S) ==
    LET T == [S EXCEPT !.ctl.status = "STOPPED", !.fifo = Clear(@, 0)]
    IN  IF S.gst.state \in {"PLAYING", "PAUSED"}
        THEN [s |-> SetStreamState(T, "READY"), ok |-> FALSE]
        ELSE [s |-> T, ok |-> TRUE]

\* do_stop(): field ok tells if the state of the pipeline was left alone.
StopPipeline(S) ==
    LET state == IF S.gst.pending = "VOID" THEN S.gst.state ELSE S.gst.pending
        T     == [S EXCEPT !.ctl.status = "STOPPED", !.fifo = Clear(@, 0)]
    IN  IF state \in {"PLAYING", "PAUSED"}
        THEN [s |-> SetStreamState(T, "READY"), ok |-> FALSE]
        ELSE [s |-> T, ok |-> TRUE]

DoStop(S) ==
    LET stop    == StopPipeline(S)
        stopped == stop.ok /\ S.gst.state \in {"READY", "NULL"} /\ S.gst.pending = "VOID"
    IN  CASE ~S.ctl.activated -> Inactive(S)
          [] S.ctl.activated /\ S.gst.uri = NoUri -> S
          [] OTHER -> IF stopped
                      THEN [EmitStoppedWithError(stop.s, S.pl.cur) EXCEPT !.pl.cur = None]
                      ELSE stop.s

DoPause(S) ==
    LET T == [S EXCEPT !.ctl.status = "PAUSED"]
    IN  CASE ~S.ctl.activated -> Inactive(S)
          [] S.ctl.activated /\ S.gst.uri = NoUri -> S
          [] OTHER -> CASE IsBuffering(S.pl.buf) \/ S.gst.state = "PAUSED" -> T
                        [] ~IsBuffering(S.pl.buf) /\ S.gst.state = "NULL" ->
                             TryPlayNextStream(T, "PAUSED")
                        [] OTHER -> SetStreamState(T, "PAUSED")

\* seek() returns early unless the pipeline has been prerolled.
DoSeek(S) ==
    CASE ~S.ctl.activated -> Inactive(S)
      [] S.ctl.activated /\ S.gst.state \in {"PAUSED", "PLAYING"} -> DoEncourageBuffering(S)
      [] OTHER -> S

DoActivate(S) ==
    IF S.ctl.activated THEN Bug(S, "ALREADY_ACTIVATED") ELSE [S EXCEPT !.ctl.activated = TRUE]

DoDeactivate(S) ==
    IF S.ctl.activated
    THEN StopPipeline([S EXCEPT !.ctl.activated = FALSE]).s
    ELSE Bug(S, "ALREADY_DEACTIVATED")

DeviceWillBeRemoved(S) ==
    IF S.pl.cur = None \/ S.pl.cur \in Network THEN S ELSE DoStop(S)

(***************************************************************************)
(* next(): first what is done about the current stream if the method was   *)
(* called on behalf of Push, then the skipping itself.  Field skipped is   *)
(* the ID returned to the caller.                                          *)
(***************************************************************************)
GiveUpCurrent(S) ==
    LET cur == S.pl.cur
    IN  CASE cur = None -> S
          [] cur # None /\ S.item[cur].state \in {"ABOUT_TO_ACTIVATE", "ACTIVE_HALF_PLAYING"} ->
               [SetItemState(S, cur, "ABOUT_TO_BE_SKIPPED") EXCEPT !.fifo = MarkAsDropped(@, cur)]
          [] OTHER -> [S EXCEPT !.pl.cur = None]

SkipCurrent(S, next, replaced) ==
    LET st   == S.item[S.pl.cur].state
        T    == CASE replaced -> S
                  [] ~replaced /\ st = "IN_QUEUE" -> Bug(S, "WRONG_STATE_OF_CURRENT")
                  [] OTHER -> SetItemState(S, S.pl.cur, "ABOUT_TO_BE_SKIPPED")
        goal == IF S.ctl.status = "STOPPED" THEN "READY" ELSE S.ctl.status
    IN  PlayNextStream(SetStreamState(T, "READY"), IF replaced THEN None ELSE S.pl.cur,
                       next, goal, TRUE, FALSE).s

DoNext(S, onlyIfNotStopped) ==
    LET T         == IF onlyIfNotStopped THEN GiveUpCurrent(S) ELSE S
        permitted == S.ctl.status # "STOPPED" \/ ~onlyIfNotStopped
        take      == TryTakeNext(T)
    IN  IF ~S.ctl.activated
        THEN [s |-> Inactive(S), skipped |-> None]
        ELSE IF permitted /\ take.next # None
        THEN [s |-> SkipCurrent(take.s, take.next, take.replaced), skipped |-> T.pl.cur]
        ELSE [s |-> [IF permitted THEN take.s ELSE T EXCEPT !.ctl.status = "STOPPED"],
              skipped |-> T.pl.cur]

\* keep_first_n_entries becomes 0 if it is -2, and SIZE_MAX if it is any other negative number.
DoPush(S, i, keep) ==
    LET told   == Tell(S, {})
        n      == CASE keep = -2 -> 0 [] keep < 0 /\ keep # -2 -> KeepAll [] OTHER -> keep
        pushed == [told EXCEPT !.fifo = Push(@, i, n), !.client.owed = @ \cup {i}]
        cur    == S.pl.cur
        wanted == /\ S.pl.nextReq = "REQUESTED"
                  /\ cur # None /\ S.item[cur].state = "ABOUT_TO_PHASE_OUT"
    IN  CASE ~S.ctl.activated -> Inactive(S)
          [] S.ctl.activated /\ PushRejected(told.fifo, n) -> told
          [] OTHER -> Tell(IF wanted THEN QueueStreamFromUrlFifo(pushed) ELSE pushed, {})

-----------------------------------------------------------------------------
(* The steps *)

InitialGst == GstSetState(NewPipeline, "READY")

\* Right after setup().
Init ==
    /\ ctl = [activated |-> FALSE, status |-> "STOPPED"]
    /\ pl = [cur |-> None, protected |-> FALSE, nextReq |-> "NOT_REQUESTED",
             justStarted |-> FALSE, buf |-> NotBuffering]
    /\ watcher = "NONE"
    /\ fail = NoFailure
    /\ fifo = EmptyFifo
    /\ item = [i \in Streams |-> NewItem]
    /\ gst = InitialGst
    /\ calls = {}
    /\ idle = 0
    /\ skip = FALSE
    /\ threads = BT!NoThreads
    /\ client = [told |-> None, owed |-> {}]
    /\ bug = {}

\* The thread of the main loop is free to run the next handler.
MainLoop == ~Crashed /\ ~skip

\* Bound: the client waits while the main loop is behind with the bus.
ClientMay(command) == MainLoop /\ command \in Commands /\ Len(gst.bus) < MaxBus

(***************************************************************************)
(* Stream IDs are not reused before everybody has forgotten about them.    *)
(***************************************************************************)
Fresh(i) ==
    /\ i \notin Alive(Here) \cup DroppedIds(fifo) \cup client.owed \cup {client.told}
    /\ i \notin {gst.uri[1], gst.curUri[1], gst.heard[1]}
    /\ \A c \in calls : c.id # i
    /\ \A n \in 1..Len(gst.bus) : gst.bus[n][1] = "STREAM_START" => gst.bus[n][2][1] # i

Activate   == ClientMay("ACTIVATE") /\ Become(DoActivate(Here))
Deactivate == ClientMay("DEACTIVATE") /\ Become(DoDeactivate(Here))
Start      == ClientMay("START") /\ Become(DoStart(Here))
Stop       == ClientMay("STOP") /\ Become(DoStop(Here))
Pause      == ClientMay("PAUSE") /\ Become(DoPause(Here))
Seek       == ClientMay("SEEK") /\ Become(DoSeek(Here))
DeviceRemoved == ClientMay("DEVICE_REMOVED") /\ Become(DeviceWillBeRemoved(Here))

SkipToNext ==
    /\ ClientMay("NEXT")
    /\ LET done == DoNext(Here, FALSE)
       IN  Become([done.s EXCEPT !.client.owed = @ \ {done.skipped}])

PushStream(i, keep) ==
    /\ ClientMay("PUSH") /\ Fresh(i)
    /\ Become([DoPush(Here, i, keep) EXCEPT !.skip = (keep = -2)])

\* The rest of method Push for keep_first_n_entries -2, under new locks.
PushThenSkip ==
    /\ ~Crashed /\ skip
    /\ Become([DoNext(Here, TRUE).s EXCEPT !.skip = FALSE])

ClearQueue(keep) ==
    /\ ClientMay("CLEAR")
    /\ Become(Tell([Here EXCEPT !.fifo = IF keep >= 0 THEN Clear(@, keep) ELSE @], {}))

\* Mutant: the restart is not removed from the main loop.
RestartUnqueued == MainLoop /\ Become(DoStart([Here EXCEPT !.idle = @ - 1]))

RestartPlaying ==
    /\ MainLoop /\ idle > 0
    /\ \E R \in {[Here EXCEPT !.idle = @ - 1]} : Become(DoStart(R))

(***************************************************************************)
(* report_progress() ends the timer if there is no current stream.  What   *)
(* it reports otherwise is the subject of Presentation.                    *)
(***************************************************************************)
ReportProgress ==
    /\ MainLoop /\ watcher = "RUNNING" /\ pl.cur = None
    /\ Become([Here EXCEPT !.watcher = "NONE"])

HandleBus ==
    /\ MainLoop /\ gst.bus # <<>>
    /\ \E R \in {[Here EXCEPT !.gst.bus = Tail(@)]} :
           \E S \in HandleMessage(R, Head(gst.bus)) : Become(S)

\* ResolveAirableRedirectContext::notify()
ResolverTarget(i) ==
    CASE pl.cur = i -> i
      [] pl.cur # i /\ ~IsEmpty(fifo) /\ Peek(fifo) = i -> i
      [] OTHER -> None

ResolverDone(c, resolved) ==
    LET i    == c.id
        S    == [Here EXCEPT !.calls = @ \ {c}]
        yes  == [S EXCEPT !.item[i] = ResolverResolved(@)]
        no   == [S EXCEPT !.item[i] = ResolverFailed(@)]
        next == [no EXCEPT !.item[i] = SelectNextUrl(i, @, FALSE)]
    IN  /\ MainLoop
        /\ Become(CASE ResolverTarget(i) = None -> S
                    [] ResolverTarget(i) # None /\ resolved ->
                         OnLinkResolved(yes, i, c.nextState, c.prefetching).s
                    [] OTHER -> IF item[i].selected < Len(Urls[i])
                                THEN ResolveSelectedUrlOrPlayUri(next, i, c.nextState,
                                                                 c.prefetching).s
                                ELSE Bug(no, "NOT_IMPLEMENTED"))

\* queue_stream_from_url_fifo() runs in one of GStreamer's threads.
AboutToFinish ==
    /\ ~Crashed /\ CanFinish(gst)
    /\ \E R \in {[Here EXCEPT !.gst = Finish(@), !.pl.nextReq = "REQUESTED"]} :
           Become([QueueStreamFromUrlFifo(R) EXCEPT !.gst = Finished(@)])

-----------------------------------------------------------------------------
(* GStreamer's own steps, see GstPipeline *)

GstStep(g) == Become([Here EXCEPT !.gst = g])

GstMayPost == ~Crashed /\ Len(gst.bus) < MaxBus

\* AsyncDone is one of the GstEvents, but it comes at its own time.
GstCommit ==
    /\ GstMayPost /\ CanCommit(gst)
    /\ GstStep(IF Prerolling(gst) /\ AsyncDone \in GstEvents
               THEN Post(Commit(gst), AsyncDone)
               ELSE Commit(gst))

GstPrefetch    == ~Crashed /\ CanPrefetch(gst) /\ GstStep(Prefetch(gst))
GstStartStream == GstMayPost /\ CanStartStream(gst) /\ GstStep(StartStream(gst))
GstDrain       == GstMayPost /\ idle < MaxIdle /\ CanDrain(gst) /\ GstStep(Drain(gst))

GstBuffering(percent) ==
    /\ GstMayPost /\ CanReportLevel(gst, percent) /\ gst.curUri[1] \in Network
    /\ GstStep(Post(gst, BufferingMessage(percent)))

GstError(reason) ==
    /\ GstMayPost /\ gst.curUri # NoUri
    /\ GstStep(Post(gst, ErrorMessage(reason)))

GstEvent(event) ==
    /\ GstMayPost
    /\ \/ event = VideoDecoderFound /\ Loaded(gst)
       \/ event = ClockLost /\ gst.state = "PLAYING"
    /\ GstStep(Post(gst, event))

\* bus_sync_message_handler() runs in the thread which enters or leaves a task.
ThreadEnters(t, name) ==
    /\ ~Crashed /\ threads.task[t] = BT!NoTask
    /\ Become([Here EXCEPT !.threads = BT!Enter(@, t, name)])

ThreadLeaves(t) ==
    /\ ~Crashed /\ threads.task[t] # BT!NoTask
    /\ Become([Here EXCEPT !.threads = BT!Leave(@, t)])

Client ==
    \/ Activate \/ Deactivate \/ Start \/ Stop \/ Pause \/ Seek \/ DeviceRemoved \/ SkipToNext
    \/ \E i \in Streams, keep \in KeepArgs : PushStream(i, keep)
    \/ \E keep \in ClearArgs : ClearQueue(keep)

Gst ==
    \/ GstCommit \/ GstPrefetch \/ GstStartStream \/ GstDrain
    \/ \E percent \in Percents : GstBuffering(percent)
    \/ \E reason \in Reasons : GstError(reason)
    \/ \E event \in GstEvents \ {AsyncDone} : GstEvent(event)
    \/ \E t \in Pool : ThreadLeaves(t) \/ \E name \in Tasks : ThreadEnters(t, name)

Resolver == \E c \in calls, resolved \in BOOLEAN : ResolverDone(c, resolved)

Next ==
    \/ Client \/ PushThenSkip \/ RestartPlaying \/ ReportProgress \/ HandleBus
    \/ AboutToFinish \/ Resolver \/ Gst

Spec == Init /\ [][Next]_vars

(***************************************************************************)
(* The main loop goes on as long as one of its event sources is ready (the *)
(* D-Bus library answers for a list broker which does not), and GStreamer  *)
(* goes on reading and rendering what it has been given.  Nothing is       *)
(* assumed about the order in which they proceed, nor about the client.    *)
(***************************************************************************)
MainLoopStep == HandleBus \/ RestartPlaying \/ PushThenSkip \/ Resolver

PipelineStep == AboutToFinish \/ GstCommit \/ GstPrefetch \/ GstStartStream \/ GstDrain

Fairness == WF_vars(MainLoopStep) /\ WF_vars(PipelineStep)

FairSpec == Spec /\ Fairness

-----------------------------------------------------------------------------
Statuses == {"STOPPED", "PLAYING", "PAUSED"}

(***************************************************************************)
(* The types of the data structures of streamer.cc.                        *)
(***************************************************************************)
TypeOK ==
    /\ ctl \in [activated : BOOLEAN, status : Statuses]
    /\ pl.cur \in Streams \cup {None}
    /\ pl.nextReq \in {"NOT_REQUESTED", "REQUESTED", "REQUEST_DEFERRED"}
    /\ pl.buf \in [state : BufferingStates, level : Levels]
    /\ watcher \in {"NONE", "RUNNING", "GONE"}
    /\ fail \in [onStop : BOOLEAN, clearFifo : BOOLEAN]
    /\ Elems(fifo.queue) \cup Elems(fifo.removed) \cup fifo.dropped \subseteq Streams
    /\ item \in [Streams -> ItemType]
    /\ gst.state \in GstStates /\ gst.pending \in GstStates /\ gst.target \in GstStates
    /\ idle \in Nat
    /\ client.owed \subseteq Streams

-----------------------------------------------------------------------------
(* What the client may rely on *)

(***************************************************************************)
(* Every stream accepted by Push is announced as playing, reported as      *)
(* stopped, failed, skipped or dropped, or the player still has it: it is  *)
(* queued, is the current stream, or is waiting in the FIFO's containers   *)
(* of removed and dropped streams.  emit_now_playing(), emit_stopped(),    *)
(* emit_stopped_with_error() and the callers of Queue::pop(), which        *)
(* destroys the previous current stream.                                   *)
(***************************************************************************)
NothingForgotten == client.owed \subseteq Alive(Here) \cup DroppedIds(fifo)

(***************************************************************************)
(* A stream in the URL FIFO is one the client has not heard of again since *)
(* it was pushed: it was not announced and not reported as dropped, and it *)
(* is no leftover the client will be surprised by (urlfifo.hh, clear() and *)
(* pop(); streamer.cc, mk_id_array_from_dropped_items()).                  *)
(***************************************************************************)
QueuedIsOwed == Elems(fifo.queue) \subseteq client.owed

(***************************************************************************)
(* handle_start_of_stream() announces what is being heard: a NowPlaying    *)
(* signal for another stream is sent only upon GST_MESSAGE_STREAM_START of *)
(* that very stream, although the message does not name the stream and the *)
(* handler has to find out by the states of its items.                     *)
(***************************************************************************)
HonestNowPlaying ==
    [][(client'.told # client.told /\ client'.told # None) =>
         /\ gst.bus # <<>>
         /\ Head(gst.bus)[1] = "STREAM_START"
         /\ Head(gst.bus)[2][1] = client'.told]_vars

(***************************************************************************)
(* The URI in the pipeline is one of the current stream or of the stream   *)
(* to be played next: no stream which the queue has lost will be started   *)
(* by GStreamer (wipe_out_uri(), on_link_resolved()).                      *)
(***************************************************************************)
PrefetchedIsNext ==
    gst.uri # NoUri =>
        \/ gst.uri[1] = pl.cur
        \/ ~IsEmpty(fifo) /\ gst.uri[1] = Peek(fifo)

\* Nothing is under way in the player which could change its state.
Quiet == gst.bus = <<>> /\ idle = 0 /\ calls = {} /\ ~skip

(***************************************************************************)
(* supposed_play_status_ and the pipeline agree: when all messages have    *)
(* been handled, then a player which is supposed to play has its pipeline  *)
(* set to PLAYING, or is waiting for its buffer to be filled.              *)
(***************************************************************************)
PlayingWhenAsked ==
    (Quiet /\ ctl.status = "PLAYING") => (IsBuffering(pl.buf) \/ gst.target = "PLAYING")

(***************************************************************************)
(* And a player which is supposed to be stopped does not play (do_stop()). *)
(***************************************************************************)
SilentWhenStopped == (Quiet /\ ctl.status = "STOPPED") => gst.state # "PLAYING"

(***************************************************************************)
(* None of these assertions (MSG_BUG, MSG_BUG_IF, MSG_UNREACHABLE) fires,  *)
(* and no nullptr is dereferenced: pick_next_item() and the messages from  *)
(* the bus do not get out of step.                                         *)
(***************************************************************************)
AssertionsHold ==
    bug \cap {"NULL_POINTER", "PICKED_QUEUED_STREAM", "UNEXPECTED_NEXT_STREAM",
              "UNEXPECTED_STATE", "CURRENT_ITEM_INVALID", "NOTHING_TO_PLAY",
              "NOT_REQUESTED_YET", "BOGUS_TARGET", "UNREACHABLE", "NO_FAILED_ITEM",
              "WRONG_STATE_OF_CURRENT"} = {}

(***************************************************************************)
(* Only the head of the URL FIFO is ever being prefetched, and it leaves   *)
(* the FIFO before it starts to play, however pushing, clearing, skipping  *)
(* and gapless prefetching interleave (play_next_stream(),                 *)
(* handle_start_of_stream()).                                              *)
(***************************************************************************)
OnlyHeadIsActivated ==
    \A n \in 1..Size(fifo) :
        \/ item[fifo.queue[n]].state = "IN_QUEUE"
        \/ n = 1 /\ item[fifo.queue[n]].state = "ABOUT_TO_ACTIVATE"

(***************************************************************************)
(* An item's resolver_ and the calls to the list broker agree: exactly one *)
(* call is in progress for an item being resolved, and none for any other  *)
(* item (resolver_begin(), resolver_finish()).                             *)
(***************************************************************************)
ResolverInCharge ==
    \A i \in Alive(Here) :
        Cardinality({c \in calls : c.id = i}) = IF item[i].resolving THEN 1 ELSE 0

(***************************************************************************)
(* buffering.hh: the player leaves its buffering state when the pipeline   *)
(* is paused and the buffer is full, whichever comes last.  It never stays *)
(* paused with a full buffer, for which no other message would wake it up. *)
(***************************************************************************)
NoLostWakeup == ~BufferFilled(pl.buf)

(***************************************************************************)
(* Realtime priorities are for playing: no thread is boosted while data is *)
(* being read into the buffer, or after the player has found out that the  *)
(* stream is Internet radio (handle_buffer_underrun(),                     *)
(* handle_start_of_stream(), handle_stream_duration_async()).              *)
(***************************************************************************)
NoRealtimeWhileBuffering ==
    threads.boosted => ~IsBuffering(pl.buf) /\ (pl.cur # None => item[pl.cur].realtime)

(***************************************************************************)
(* And a local stream is played with realtime priorities: whatever has     *)
(* throttled the threads (stop, failure, retry, restart at the end of a    *)
(* stream), by the time everything is settled they have been boosted again *)
(* (rebuild_playbin(), emit_stopped(), handle_start_of_stream()).          *)
(***************************************************************************)
RealtimeWhilePlaying ==
    (Quiet /\ gst.state = "PLAYING" /\ gst.heard = gst.curUri
        /\ pl.cur \notin Network \cup {None} /\ item[pl.cur].realtime) => threads.boosted

(***************************************************************************)
(* The timer which reports the position runs whenever a stream is played,  *)
(* although it ends by itself if it meets a moment without current stream, *)
(* and it is started and removed as state changes are handled, which may   *)
(* be long after they happened (handle_stream_state_change(),              *)
(* report_progress()).                                                     *)
(***************************************************************************)
ProgressIsWatched ==
    (Quiet /\ gst.state = "PLAYING" /\ gst.pending = "VOID" /\ pl.cur # None) =>
        watcher = "RUNNING"

(***************************************************************************)
(* Threads have the priorities their tasks need (see BoostedThreads).      *)
(***************************************************************************)
SchedulingFollows == BT!SchedulingFollows

(***************************************************************************)
(* about-to-finish never starts the pipeline itself: an item marked by     *)
(* handle_end_of_stream() for a restart is resolved in the main loop, or   *)
(* else a streaming thread would change the state of its own pipeline      *)
(* (on_link_resolved(), queue_stream_from_url_fifo()).                     *)
(***************************************************************************)
NoRestartInStreamingThread ==
    CanFinish(gst) => \A i \in Alive(Here) : ~(item[i].restart /\ item[i].state = "IN_QUEUE")

(***************************************************************************)
(* Whatever has been pushed gets its turn: as long as the player is        *)
(* supposed to play, each accepted stream is eventually announced or       *)
(* reported as dropped, no matter in which order "about-to-finish", EOS,   *)
(* state changes and further streams arrive (handle_end_of_stream(),       *)
(* play_next_stream(), handle_start_of_stream()).                          *)
(***************************************************************************)
EveryStreamGetsItsTurn ==
    \A i \in Streams :
        (i \in client.owed /\ ctl.status = "PLAYING")
            ~> (i \notin client.owed \/ ctl.status # "PLAYING")

(***************************************************************************)
(* What is heard is a stream the player knows of: the current stream, or   *)
(* the head of the queue while its GST_MESSAGE_STREAM_START is on its way. *)
(* README.md, line 67, about method Clear: the player completely forgets   *)
(* about all streams except the one currently playing.                     *)
(***************************************************************************)
HeardIsKnown == gst.heard # NoUri => gst.heard[1] \in Alive(Here)

\* The current stream is to be played unless it has been announced or skipped already.
WaitingStreams ==
    (IF pl.cur \in client.owed \ fifo.dropped THEN <<pl.cur>> ELSE <<>>) \o fifo.queue

(***************************************************************************)
(* The player implements StreamOrder: through all its handlers, callbacks  *)
(* and failures, streams are announced in the order in which the client    *)
(* has pushed them, those taken out of turn are reported as dropped in the *)
(* next signal or reply, and no signal speaks about any other stream.      *)
(***************************************************************************)
Order ==
    INSTANCE StreamOrder WITH
        waiting <- WaitingStreams,
        leaving <- client.owed \cap DroppedIds(fifo),
        open    <- client.owed,
        playing <- client.told

PlayedInOrder == Order!Spec

-----------------------------------------------------------------------------
(* What documentation, comments and assertions say, and the code does not do *)

(***************************************************************************)
(* streamer.cc, line 178: an item becomes current_stream_ before it is     *)
(* actually playing, so that there is one while the pipeline is active,    *)
(* and do_encourage_buffering(), called by notify() after it has set the   *)
(* pipeline in motion, may rely on it.                                     *)
(***************************************************************************)
CurrentWhilePlaying ==
    ~Crashed /\ (gst.target \in {"PAUSED", "PLAYING"} => pl.cur # None)
=============================================================================
