--------------------------- MODULE StreamerLocks ---------------------------
(***************************************************************************)
(* Which locks the functions of the player acquire, and in which order:    *)
(* one definition per function, each of them the set of lock programs the  *)
(* function may run.  The conditions which choose among them are left      *)
(* open; what is known about them is proved or checked elsewhere.          *)
(*                                                                         *)
(* The locks are those of the data in struct StreamerData (streamer.cc),   *)
(* the one of the cookie manager, and one per call object (rnfcall.hh).    *)
(* The destructor of a call locks it, too, but only if nobody refers to it *)
(* anymore, so that nobody can wait for it.                                *)
(***************************************************************************)
EXTENDS Naturals, Sequences

CONSTANT Calls  \* call objects, each of which stands for its lock

DataLocks ==
    {"control", "pipeline", "presentation", "failure", "fifo", "boosted", "cookies"}

-----------------------------------------------------------------------------
(***************************************************************************)
(* A program is a sequence of steps: "lock" and "unlock", and "ask" for    *)
(* the D-Bus method call after which the list broker may send a signal.    *)
(* Each step carries the set of locks which are held before it, which are  *)
(* those of the scopes around it.                                          *)
(***************************************************************************)
Step(op, l, held) == [op |-> op, lock |-> l, held |-> held]

Nothing == {<<>>}

Ask(c) == {<<Step("ask", c, {})>>}

P ** Q == {p \o q : p \in P, q \in Q}

Maybe(P) == P \cup Nothing

Inside(l, p) == [i \in 1..Len(p) |-> [p[i] EXCEPT !.held = @ \cup {l}]]

\* locked_ro(), locked_rw(), and the guards returned by lock_ro() and lock_rw().
Within(l, P) ==
    {<<Step("lock", l, {})>> \o Inside(l, p) \o <<Step("unlock", l, {l})>> : p \in P}

Just(l) == Within(l, Nothing)

-----------------------------------------------------------------------------
(* Functions used by the handlers *)

\* boost(), throttle(), add_self(), remove_self()
Boost == Just("boosted")

HandleBufferUnderrun == Maybe(Just("control") ** Boost)

\* A stream which is not prefetched, or one for which the pipeline is restarted.
OnLinkResolved == Maybe(Just("presentation") ** HandleBufferUnderrun)

(***************************************************************************)
(* request(): the lock of the cookie manager is held while the list broker *)
(* is asked and the cookie is stored, the lock of the call until notify()  *)
(* has returned in case the answer was there at once.                      *)
(***************************************************************************)
Request(c, told) ==
    Within(c, Within("cookies", Ask(c) ** Maybe(Just("cookies"))) ** told)

\* ResolveAirableRedirectContext::notify()
Notify(resolved) == Within("pipeline", Within("fifo", resolved))

\* resolve_selected_url_or_play_uri() for the last URL of a stream.
ResolveLast(c) == OnLinkResolved \cup Request(c, Maybe(Notify(OnLinkResolved)))

(***************************************************************************)
(* resolve_selected_url_or_play_uri(): if the answer is there at once and  *)
(* holds no URI, then notify() goes on to the stream's next URL, of which  *)
(* there is one at most in this table.                                     *)
(***************************************************************************)
Resolve(c) ==
    OnLinkResolved
    \cup UNION {Request(c, Maybe(Notify(ResolveLast(d)))) : d \in Calls \ {c}}

\* do_error_recovery(), which rebuilds the pipeline and emits Stopped.
DoErrorRecovery ==
    Within("control", Within("presentation", Within("fifo", Boost ** Boost)))

RecoverNowOrLater == Within("failure", Maybe(DoErrorRecovery))

\* try_take_next() and try_play_next_stream()
PlayNext(c) == RecoverNowOrLater \cup Resolve(c) \cup Nothing

TryLeaveBufferingState == Maybe(Boost)

-----------------------------------------------------------------------------
(* Handlers of messages, timers and signals in the main loop *)

HandleEndOfStream ==
    Within("pipeline", Within("fifo", Maybe(Within("control", Boost) \cup Just("control"))))

\* activate_stream() looks for the head of the FIFO.
ActivateStream == Maybe(Just("fifo"))

EnterPause == Within("control", Within("presentation", TryLeaveBufferingState))

ArrivedInReady == Within("fifo", Maybe(Within("control", Boost)))

ArrivedInPaused ==
    ActivateStream ** Maybe(Within("presentation", Maybe(Within("control", TryLeaveBufferingState))))

ArrivedInPlaying == ActivateStream ** Maybe(Just("presentation"))

HandleStreamStateChange ==
    Within("pipeline",
           Maybe(Just("fifo"))
           ** Maybe(Just("presentation") \cup EnterPause)
           ** (Nothing \cup ArrivedInReady \cup ArrivedInPaused \cup ArrivedInPlaying))

HandleStartOfStream(c) ==
    Within("pipeline",
           Within("fifo",
                  Maybe(Boost) ** Maybe(Just("fifo")) ** Maybe(Just("presentation"))
                  ** Maybe(Resolve(c))))

HandleBuffering ==
    Within("control",
           Within("pipeline",
                  Within("presentation", TryLeaveBufferingState) \cup HandleBufferUnderrun))

HandleStreamDurationAsync ==
    Within("control", Within("pipeline", Maybe(Within("presentation", Maybe(Boost)))))

\* try_refresh_uri_or_resolve_alternative_uri()
TryRefreshUri(c) == Maybe(Boost ** Just("presentation") ** Resolve(c))

FailPrefetched == Just("presentation") ** Within("control", Boost) ** Just("failure")

HandleErrorMessage(c) ==
    Within("control",
           Within("pipeline",
                  Within("fifo",
                         TryRefreshUri(c)
                         ** (Nothing \cup RecoverNowOrLater \cup FailPrefetched))))

\* handle_tag(), timed_emit_tags(), report_progress()
ReportOnStream == Within("pipeline", Maybe(Just("presentation")))

\* Clock lost, latency, requested state; is_playing(), get_current_stream_id().
PipelineOnly == Just("pipeline")

\* PendingCookies::available(), then PendingCookies::finish()
Signal(c) ==
    Just("cookies") ** Maybe(Just(c)) ** Just("cookies")
    ** Maybe(Within(c, Maybe(Notify(Nothing \cup UNION {ResolveLast(d) : d \in Calls \ {c}}))))

-----------------------------------------------------------------------------
(* Commands *)

Activate == Just("control")

Deactivate ==
    Within("control", Maybe(Within("pipeline", Within("failure", Maybe(Just("fifo"))))))

Start(c) ==
    Within("control",
           Maybe(Within("pipeline",
                        Maybe(Within("failure", Within("presentation", Boost)))
                        ** Maybe(Within("fifo", PlayNext(c))))))

Stop ==
    Within("control",
           Maybe(Within("pipeline",
                        Maybe(Within("failure", Maybe(Just("fifo")))
                              ** Maybe(Within("fifo", Boost))))))

Pause(c) ==
    Within("control", Maybe(Within("pipeline", Maybe(Within("fifo", PlayNext(c))))))

Seek == Within("control", Maybe(Within("pipeline", HandleBufferUnderrun)))

SkipToNext(c) ==
    Within("control",
           Maybe(Within("pipeline", Maybe(Just("fifo")) ** Maybe(Within("fifo", PlayNext(c))))))

PushItem(c) ==
    Within("control",
           Maybe(Within("pipeline", Just("fifo") ** Within("fifo", Maybe(Resolve(c))))))

ClearQueue == Just("fifo")

RemoveItemsForRootPath == Within("pipeline", Maybe(Stop))

-----------------------------------------------------------------------------
(* Callbacks in GStreamer's threads *)

\* A link resolved for gapless playback, without restart.
Prefetch(c, next) == Nothing \cup Request(c, Maybe(Notify(next)))

(***************************************************************************)
(* queue_stream_from_url_fifo(): on_link_resolved() returns before it      *)
(* touches any other data, because no stream which waits for a restart is  *)
(* found here (Streamer!NoRestartInStreamingThread).                       *)
(***************************************************************************)
AboutToFinish(c) ==
    Within("pipeline",
           Maybe(Within("fifo",
                        UNION {Prefetch(c, Prefetch(d, Nothing)) : d \in Calls \ {c}})))

\* setup_source_element()
SetupSource == Just("failure")

\* bus_sync_message_handler()
SyncMessage == Boost

-----------------------------------------------------------------------------
MainLoopPrograms ==
    HandleEndOfStream \cup HandleStreamStateChange \cup HandleBuffering
    \cup HandleStreamDurationAsync \cup ReportOnStream \cup PipelineOnly
    \cup Activate \cup Deactivate \cup Stop \cup Seek \cup ClearQueue \cup RemoveItemsForRootPath
    \cup UNION {HandleStartOfStream(c) \cup HandleErrorMessage(c) \cup Start(c) \cup Pause(c)
                    \cup SkipToNext(c) \cup PushItem(c) \cup Signal(c) : c \in Calls}

StreamingPrograms == SetupSource \cup SyncMessage \cup UNION {AboutToFinish(c) : c \in Calls}
=============================================================================
