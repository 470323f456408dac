------------------------------ MODULE Playback ------------------------------
(***************************************************************************)
(* Plain playback: the client pushes streams at the end of the queue, and  *)
(* starts, pauses and seeks.  Each stream has a single URL which can be    *)
(* passed to GStreamer.  GStreamer may fail to open URLs, may report       *)
(* errors, buffer levels and video decoders at any time, and it may be     *)
(* arbitrarily far ahead of the handlers of its messages.                  *)
(*                                                                         *)
(* The invariant of this kind of use tells how the state of the pipeline,  *)
(* the messages on their way to the player, the states of the current      *)
(* stream and of the head of the queue, and what the client has been told  *)
(* belong together.                                                        *)
(***************************************************************************)
EXTENDS Streamer

PlainPlayback ==
    /\ Commands \cap {"STOP", "DEACTIVATE", "NEXT", "CLEAR", "DEVICE_REMOVED"} = {}
    /\ \A keep \in KeepArgs : keep < 0 /\ keep # -2
    /\ \A i \in Streams : Urls[i] = <<"DIRECT">>
    /\ ClockLost \notin GstEvents

\* Further restrictions some of the properties need.
NoErrors == Reasons = {} /\ VideoDecoderFound \notin GstEvents

LocalFiles == Network = {} /\ AsyncDone \notin GstEvents

-----------------------------------------------------------------------------
(* The pipeline and its bus *)

UriOf(i) == <<i, 1>>

OnBus(g, kind) == \E n \in 1..Len(g.bus) : g.bus[n][1] = kind

\* Messages which may be found behind GST_MESSAGE_EOS.
Late(m) ==
    \/ m[1] \in {"ERROR", "VIDEO_DECODER"}
    \/ m[1] = "STATE_CHANGED" /\ ~(m[3] = "PAUSED" /\ m[2] \in {"READY", "NULL"})

\* Message about the end of a state change, and in which state.
Arrival(m) ==
    m[1] = "STATE_CHANGED" /\ m[4] = "VOID" /\ ~(m[2] = m[3] /\ m[3] \in {"READY", "NULL"})

Downward(m) == m[1] = "STATE_CHANGED" /\ m[3] \in {"READY", "NULL"}

ArrivalInPlaying(m) == m[1] = "STATE_CHANGED" /\ m[3] = "PLAYING" /\ m[4] = "VOID"

(***************************************************************************)
(* A stream is reported to start once, before its end is reported, and     *)
(* both are reported by a pipeline which still has it.                     *)
(***************************************************************************)
BusOk(g) ==
    /\ \A n \in 1..Len(g.bus) :
         /\ g.bus[n][1] # "CLOCK_LOST"
         /\ g.bus[n][1] = "STREAM_START" =>
              Loaded(g) /\ g.bus[n][2] = g.curUri /\ g.heard = g.curUri
         /\ g.bus[n][1] = "EOS" => Loaded(g) /\ g.drained
         /\ ~Loaded(g) => Late(g.bus[n])
    /\ \A m, n \in 1..Len(g.bus) :
         /\ g.bus[m][1] = "STREAM_START" /\ g.bus[n][1] = "STREAM_START" => m = n
         /\ g.bus[m][1] = "EOS" /\ m < n => Late(g.bus[n])

GstOk(g) ==
    IF Loaded(g)
    THEN /\ g.pending \in {"VOID", "PAUSED", "PLAYING"}
         /\ g.target = IF g.pending = "VOID" THEN g.state ELSE g.pending
         /\ g.drained => g.asked /\ g.heard = g.curUri /\ g.state # "READY"
    ELSE /\ g.state \in {"NULL", "READY"} /\ g.pending = "VOID"
         /\ g.heard = NoUri /\ g.curUri = g.uri /\ ~g.drained

-----------------------------------------------------------------------------
(* The phases of playback *)

Announced == {"ACTIVE_NOW_PLAYING", "ABOUT_TO_PHASE_OUT"}

Awaited == {"ABOUT_TO_ACTIVATE", "ACTIVE_HALF_PLAYING"}

HeadIs(f, it, st) == ~IsEmpty(f) => it[Peek(f)].state = st

\* The pipeline is starting the current stream, which is to be announced.
First(cur, f, it, g, owed) ==
    /\ it[cur].state \in Awaited /\ cur \in owed
    /\ g.curUri = UriOf(cur) /\ g.uri = g.curUri
    /\ g.heard = IF OnBus(g, "STREAM_START") THEN g.curUri ELSE NoUri
    /\ HeadIs(f, it, "IN_QUEUE")

\* The pipeline plays the current stream, and may have been given the head of the queue.
Steady(cur, f, it, g, owed) ==
    /\ it[cur].state \in Announced /\ cur \notin owed
    /\ g.curUri = UriOf(cur) /\ g.heard = g.curUri
    /\ ~OnBus(g, "STREAM_START")
    /\ \/ g.uri = g.curUri /\ HeadIs(f, it, "IN_QUEUE")
       \/ ~IsEmpty(f) /\ g.uri = UriOf(Peek(f)) /\ HeadIs(f, it, "ABOUT_TO_ACTIVATE")

\* The pipeline has gone on to the head of the queue.
Ahead(cur, f, it, g, owed) ==
    /\ it[cur].state \in Announced /\ cur \notin owed
    /\ ~IsEmpty(f) /\ HeadIs(f, it, "ABOUT_TO_ACTIVATE")
    /\ g.curUri = UriOf(Peek(f)) /\ g.uri = g.curUri
    /\ g.heard = IF OnBus(g, "STREAM_START") THEN g.curUri ELSE UriOf(cur)

\* The pipeline could not be started with the current stream.
Unopened(cur, f, it, g) ==
    /\ cur # None /\ it[cur].state \in Awaited
    /\ g.uri = UriOf(cur) /\ g.uri \in Unopenable
    /\ g.state = "READY" /\ g.target \in {"PAUSED", "PLAYING"}
    /\ HeadIs(f, it, "IN_QUEUE")

\* The pipeline has nothing to play.
Resting(cur, protected, f, it, g, owed) ==
    /\ g.uri = NoUri /\ g.target \in {"NULL", "READY"}
    /\ cur # None =>
         /\ it[cur].state \in Awaited \cup {"IN_QUEUE"}
         /\ it[cur].state = "IN_QUEUE" => cur \in owed /\ ~protected
         /\ HeadIs(f, it, "IN_QUEUE")

PhaseOk(cur, protected, f, it, g, owed) ==
    IF Loaded(g)
    THEN /\ cur # None
         /\ First(cur, f, it, g, owed) \/ Steady(cur, f, it, g, owed) \/ Ahead(cur, f, it, g, owed)
    ELSE Unopened(cur, f, it, g) \/ Resting(cur, protected, f, it, g, owed)

-----------------------------------------------------------------------------
(* Books *)

ItemsPlain(it) == \A i \in Streams : it[i].selected = 1 /\ ~it[i].resolving

QueuePlain(cur, f, owed) ==
    /\ f.removed = <<>> /\ f.dropped = {} /\ Size(f) <= MaxItems
    /\ owed \subseteq Elems(f.queue) \cup {cur}

\* Only a stream which is next is started by the main loop instead of being prefetched.
RestartOk(cur, f, it, g) ==
    \A n \in 1..Size(f) : it[f.queue[n]].restart => n = 1 /\ cur = None /\ ~Loaded(g)

\* Whoever wants to hear something does, or something is about to happen.
AskedOk(c, buf, cur, n, g) ==
    /\ c.status # "STOPPED" \/ n > 0 => c.activated
    /\ g.target \in {"PAUSED", "PLAYING"} => c.status # "STOPPED"
    /\ c.status = "PLAYING" =>
         \/ IsBuffering(buf) \/ g.target = "PLAYING" \/ n > 0
         \/ /\ g.target = "READY" /\ cur # None
            /\ \E k \in 1..Len(g.bus) : Arrival(g.bus[k])

\* The timer runs or will be started by one of the messages on the bus.
WatchedOk(w, g) ==
    /\ w # "GONE"
    /\ Loaded(g) =>
         \A m, n \in 1..Len(g.bus) : Downward(g.bus[m]) /\ ArrivalInPlaying(g.bus[n]) => m < n
    /\ g.state = "PLAYING" /\ g.pending = "VOID" =>
         \/ w = "RUNNING" /\ \A n \in 1..Len(g.bus) : ~Downward(g.bus[n])
         \/ \E n \in 1..Len(g.bus) : ArrivalInPlaying(g.bus[n])

\* Announced local streams are played with realtime priorities.
BoostOk(cur, it, buf, g, th) ==
    LocalFiles =>
        /\ ~IsBuffering(buf) /\ ~OnBus(g, "BUFFERING") /\ ~OnBus(g, "ASYNC_DONE")
        /\ \A i \in Streams : it[i].realtime
        /\ Loaded(g) /\ it[cur].state \in Announced => th.boosted

\* The assertions of AssertionsHold.
Fatal ==
    {"NULL_POINTER", "PICKED_QUEUED_STREAM", "UNEXPECTED_NEXT_STREAM",
     "UNEXPECTED_STATE", "CURRENT_ITEM_INVALID", "NOTHING_TO_PLAY",
     "NOT_REQUESTED_YET", "BOGUS_TARGET", "UNREACHABLE", "NO_FAILED_ITEM",
     "WRONG_STATE_OF_CURRENT"}

CleanOk(g, b) ==
    NoErrors =>
        /\ ~OnBus(g, "ERROR") /\ ~OnBus(g, "VIDEO_DECODER") /\ g.target # "NULL"
        /\ b \cap Fatal = {}

\* Everything except for what a state change is about.
Core(S) ==
    /\ ItemsPlain(S.item) /\ QueuePlain(S.pl.cur, S.fifo, S.client.owed)
    /\ S.calls = {} /\ ~S.skip
    /\ RestartOk(S.pl.cur, S.fifo, S.item, S.gst)
    /\ GstOk(S.gst) /\ BusOk(S.gst)
    /\ PhaseOk(S.pl.cur, S.pl.protected, S.fifo, S.item, S.gst, S.client.owed)
    /\ BoostOk(S.pl.cur, S.item, S.pl.buf, S.gst, S.threads)
    /\ CleanOk(S.gst, S.bug)

Plain(S) ==
    /\ Core(S)
    /\ AskedOk(S.ctl, S.pl.buf, S.pl.cur, S.idle, S.gst)
    /\ WatchedOk(S.watcher, S.gst)

(***************************************************************************)
(* Messages on the bus do not name their stream, and the handlers tell by  *)
(* the states of the items what they are about (handle_start_of_stream(),  *)
(* handle_end_of_stream(), handle_stream_state_change()).  In plain        *)
(* playback they are right, however late they are: a pipeline which has    *)
(* been set in motion starts the current stream, plays it, or has gone on  *)
(* to the head of the queue, and the states of these two items say which;  *)
(* the client waits for the queue, and for the current stream until it is  *)
(* announced; and whatever is still to be done about the status the client *)
(* has asked for, the timer and the priorities, there is a message or a    *)
(* scheduled restart which makes the player do it.                         *)
(***************************************************************************)
PlainInv == PlainPlayback => Plain(Here)
=============================================================================
