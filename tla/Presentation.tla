---------------------------- MODULE Presentation ----------------------------
(***************************************************************************)
(* What the client is shown of the current stream: its meta data, sent not *)
(* more often than once in a while (class ThrottledMetaDataUpdate), and    *)
(* its position and duration (struct PresentationDataLocked).              *)
(*                                                                         *)
(* The player itself is modelled in Streamer.  All that matters here is    *)
(* that current_stream_ may be replaced at any time, and that GStreamer    *)
(* plays a stream, or goes on to the next one, before the player handles   *)
(* GST_MESSAGE_STREAM_START.                                               *)
(*                                                                         *)
(* Time passes in steps which are a fraction of the cool-down time.  GLib  *)
(* never calls a timer's function too early, but possibly late.            *)
(***************************************************************************)
EXTENDS Integers

CONSTANTS
    Streams,    \* stream IDs
    TagLists,   \* values of the list of tags of a stream
    Preset,     \* the list of tags a stream has been pushed with
    Cooldown,   \* time between two updates of the meta data
    MaxPos,     \* bound: last position of a stream
    Sources     \* bound: timers GLib can have at a time

None == 0       \* nullptr, STREAM_ID_SOURCE_INVALID
NoTags == "nullptr"     \* a stream has no list of tags before it is started
Off == -1       \* state of a timer which does not exist
Unknown == -1   \* GStreamer cannot tell
Invalid == -2   \* INT64_MAX, by invalidate_position_information()
RunningTime == 0    \* a running time which is taken for a duration

ASSUME StreamsAssumption == Streams \subseteq Nat \ {0}
ASSUME TagsAssumption == Preset \in TagLists
ASSUME CooldownAssumption == Cooldown \in Nat \ {0}
ASSUME MaxPosAssumption == MaxPos \in Nat

VARIABLES
    cur,        \* current_stream_
    tags,       \* the list of tags in the stream data of current_stream_
    md,         \* md_update_: left, scheduled, id
    timers,     \* for each timer, the time left until timed_emit_tags()
    shown,      \* the meta data sent most recently
    now,        \* current_time_
    prev,       \* previous_time_
    reported,   \* the PositionChanged signal sent most recently
    gst,        \* the pipeline: its state, the stream it plays, and where
    starting    \* stream of a GST_MESSAGE_STREAM_START on the bus

vars == <<cur, tags, md, timers, shown, now, prev, reported, gst, starting>>

metaVars == <<tags, md, timers, shown>>
timeVars == <<now, prev, reported>>

(***************************************************************************)
(* The duration of a stream is represented by the stream.  md.left is the  *)
(* time left until next_allowed_tag_update_time_.                          *)
(***************************************************************************)
InvalidTime == [pos |-> Invalid, dur |-> Invalid]

Init ==
    /\ cur = None
    /\ tags = NoTags
    /\ md = [left |-> 0, scheduled |-> FALSE, id |-> None]
    /\ timers = [s \in Sources |-> Off]
    /\ shown = NoTags
    /\ now = [pos |-> 0, dur |-> 0] /\ prev = [pos |-> 0, dur |-> 0]
    /\ reported = [id |-> None, pos |-> 0, dur |-> 0]
    /\ gst = [state |-> "READY", stream |-> None, pos |-> 0]
    /\ starting = None

-----------------------------------------------------------------------------
(* Meta data *)

\* emit_tags__unlocked() with try_emit_for_stream_id() and emitted_tags_timed()
EmitTags(list) ==
    IF cur = md.id
    THEN /\ shown' = list
         /\ md' = [md EXCEPT !.left = Cooldown, !.scheduled = FALSE]
    ELSE /\ md' = [md EXCEPT !.scheduled = FALSE]
         /\ UNCHANGED shown

\* Mutant: the update is to come a while after the last one of many changes.
TryEmitTagsDebounced(list) ==
    IF md.left = 0 /\ ~md.scheduled
    THEN EmitTags(list) /\ UNCHANGED timers
    ELSE \E s \in Sources :
            /\ timers[s] = Off
            /\ timers' = [u \in Sources |-> IF u = s THEN Cooldown ELSE Off]
            /\ md' = [md EXCEPT !.scheduled = TRUE]
            /\ UNCHANGED shown

\* Mutant: changes during the cool-down time are left to the next one.
TryEmitTagsIfAllowed(list) ==
    IF md.left = 0
    THEN EmitTags(list) /\ UNCHANGED timers
    ELSE UNCHANGED <<md, timers, shown>>

\* try_emit_tags() and what its caller does if it returns true
TryEmitTags(list) ==
    CASE md.scheduled -> UNCHANGED <<md, timers, shown>>
      [] ~md.scheduled /\ md.left = 0 -> EmitTags(list) /\ UNCHANGED timers
      [] OTHER -> \E s \in Sources :
                    /\ timers[s] = Off
                    /\ timers' = [timers EXCEPT ![s] = md.left]
                    /\ md' = [md EXCEPT !.scheduled = TRUE]
                    /\ UNCHANGED shown

\* GST_MESSAGE_TAG; merging leaves the stream with some list of tags.
HandleTag(list) ==
    /\ cur # None
    /\ tags' = list
    /\ TryEmitTags(list)
    /\ UNCHANGED <<cur, timeVars, gst, starting>>

\* timed_emit_tags() with timer_activated() and emitted_nothing_timed()
TimedEmitTags(s) ==
    /\ timers[s] = 0
    /\ timers' = [timers EXCEPT ![s] = Off]
    /\ CASE ~md.scheduled -> UNCHANGED <<md, shown>>
         [] md.scheduled /\ cur # None -> EmitTags(tags)
         [] OTHER -> md' = [md EXCEPT !.scheduled = FALSE] /\ UNCHANGED shown
    /\ UNCHANGED <<cur, tags, timeVars, gst, starting>>

\* Mutant: an update for the previous stream remains scheduled.
EmitNowPlayingOnly(i) ==
    /\ shown' = Preset
    /\ md' = [md EXCEPT !.left = Cooldown, !.id = i]

\* emit_now_playing() with emitted_tags_now_playing()
EmitNowPlaying(i) ==
    /\ shown' = Preset
    /\ md' = [left |-> Cooldown, scheduled |-> FALSE, id |-> i]

-----------------------------------------------------------------------------
(* Position and duration *)

\* Mutant: the position of the previous stream is kept for comparison.
StartTimesKept(d) == now' = [now EXCEPT !.dur = d] /\ UNCHANGED prev

StartTimes(d) == now' = [now EXCEPT !.dur = d] /\ prev' = InvalidTime

(***************************************************************************)
(* handle_start_of_stream(), in case the stream is activated by it: the    *)
(* stream may have been taken from the queue before, or is taken now.      *)
(***************************************************************************)
StartOfStream(d) ==
    /\ starting # None
    /\ cur' = starting
    /\ tags' = Preset
    /\ StartTimes(d)
    /\ EmitNowPlaying(starting)
    /\ starting' = None
    /\ UNCHANGED <<timers, reported, gst>>

\* Mutant: only progress is reported.
ProgressMade(time) == prev # InvalidTime /\ time.pos > prev.pos

WorthReporting(time) == time # prev

\* report_progress__unlocked(); nothing is reported while buffering.
ReportProgress ==
    LET time == IF gst.state = "READY" THEN InvalidTime ELSE [now EXCEPT !.pos = gst.pos]
    IN  /\ cur # None
        /\ now' = time
        /\ IF WorthReporting(time)
           THEN prev' = time /\ reported' = [id |-> cur, pos |-> time.pos, dur |-> time.dur]
           ELSE UNCHANGED <<prev, reported>>
        /\ UNCHANGED <<cur, metaVars, gst, starting>>

(***************************************************************************)
(* handle_stream_duration_async(), at the beginning and after a seek: the  *)
(* duration is the running time told by the message, or else is queried.   *)
(***************************************************************************)
HandleStreamDurationAsync(d) ==
    /\ gst.state # "READY"
    /\ now' = [now EXCEPT !.dur = d]
    /\ UNCHANGED <<cur, metaVars, prev, reported, gst, starting>>

-----------------------------------------------------------------------------
(* The player *)

\* The pipeline is set to READY, and what it has started does not matter any more.
Down == gst' = [state |-> "READY", stream |-> None, pos |-> 0] /\ starting' = None

(***************************************************************************)
(* The current stream is stopped, is skipped, fails or ends, and another   *)
(* one may be taken from the queue.  Some of these invalidate the time.    *)
(***************************************************************************)
Replace(i, time) ==
    /\ i \notin {cur, md.id}
    /\ cur' = i
    /\ tags' = NoTags
    /\ prev' = time
    /\ Down
    /\ UNCHANGED <<md, timers, shown, now, reported>>

\* rebuild_playbin_for_workarounds() with the current stream kept.
RebuildPlaybinForWorkarounds ==
    /\ cur # None
    /\ now' = InvalidTime /\ prev' = InvalidTime
    /\ Down
    /\ UNCHANGED <<cur, metaVars, reported>>

\* GStreamer starts to play the current stream.
Preroll ==
    /\ gst.state = "READY" /\ cur # None
    /\ gst' = [state |-> "PAUSED", stream |-> cur, pos |-> 0]
    /\ starting' = cur
    /\ UNCHANGED <<cur, metaVars, timeVars>>

\* GStreamer goes on with the next stream.
Gapless(i) ==
    /\ gst.state = "PLAYING" /\ starting = None /\ i \notin {gst.stream, md.id}
    /\ gst' = [gst EXCEPT !.stream = i, !.pos = 0]
    /\ starting' = i
    /\ UNCHANGED <<cur, metaVars, timeVars>>

PauseOrResume ==
    /\ gst.state # "READY"
    /\ gst' = [gst EXCEPT !.state = IF @ = "PLAYING" THEN "PAUSED" ELSE "PLAYING"]
    /\ UNCHANGED <<cur, metaVars, timeVars, starting>>

Elapsed(t) == IF t > 0 THEN t - 1 ELSE t

Tick ==
    /\ md' = [md EXCEPT !.left = Elapsed(@)]
    /\ timers' = [s \in Sources |-> Elapsed(timers[s])]
    /\ gst' = [gst EXCEPT !.pos = IF gst.state = "PLAYING" /\ @ < MaxPos THEN @ + 1 ELSE @]
    /\ UNCHANGED <<cur, tags, shown, timeVars, starting>>

Next ==
    \/ \E list \in TagLists : HandleTag(list)
    \/ \E s \in Sources : TimedEmitTags(s)
    \/ \E d \in {gst.stream, Unknown} : StartOfStream(d)
    \/ \E d \in {gst.stream, Unknown, RunningTime} : HandleStreamDurationAsync(d)
    \/ ReportProgress
    \/ \E i \in Streams \cup {None}, time \in {prev, InvalidTime} : Replace(i, time)
    \/ RebuildPlaybinForWorkarounds
    \/ Preroll \/ PauseOrResume \/ Tick
    \/ \E i \in Streams : Gapless(i)

Spec == Init /\ [][Next]_vars

(***************************************************************************)
(* Time passes, and GLib calls the functions of timers which have expired: *)
(* timed_emit_tags(), and report_progress(), which runs periodically while *)
(* the pipeline is playing (see ProgressIsWatched in Streamer).            *)
(***************************************************************************)
Fairness ==
    /\ WF_vars(Tick)
    /\ \A s \in Sources : WF_vars(TimedEmitTags(s))
    /\ WF_vars(gst.state = "PLAYING" /\ ReportProgress)

FairSpec == Spec /\ Fairness

-----------------------------------------------------------------------------
Times == [pos : Int, dur : Int]

(***************************************************************************)
(* The types of the data; a timer exists only within the cool-down time.   *)
(***************************************************************************)
TypeOK ==
    /\ cur \in Streams \cup {None}
    /\ {tags, shown} \subseteq TagLists \cup {NoTags}
    /\ md \in [left : 0..Cooldown, scheduled : BOOLEAN, id : Streams \cup {None}]
    /\ timers \in [Sources -> -1..Cooldown]
    /\ now \in Times /\ prev \in Times
    /\ reported \in [id : Streams \cup {None}, pos : Int, dur : Int]
    /\ gst \in [state : {"READY", "PAUSED", "PLAYING"}, stream : Streams \cup {None},
                pos : 0..MaxPos]
    /\ starting \in Streams \cup {None}

(***************************************************************************)
(* No change of meta data gets lost by throttling: if the client has not   *)
(* been sent the tags of the stream it was told to be playing, then there  *)
(* is a timer which is going to send them, no matter how streams have been *)
(* replaced and which timers of former streams have expired in between     *)
(* (try_emit_tags(), timed_emit_tags(), emit_tags__unlocked()).            *)
(***************************************************************************)
NoUpdateLost ==
    (cur # None /\ cur = md.id /\ tags # shown) =>
        md.scheduled /\ \E s \in Sources : timers[s] # Off

(***************************************************************************)
(* Meta data is sent during the cool-down time only by the timer of a      *)
(* stream which has been replaced (its source is not removed and its       *)
(* function cannot tell, streamer.cc, line 331), while the timer which is  *)
(* in charge is still running.                                             *)
(***************************************************************************)
Throttled ==
    [][(md'.left > md.left /\ starting' = starting /\ md.left > 0) =>
         \E s, u \in Sources : s # u /\ timers[s] = 0 /\ timers[u] >= md.left]_vars

(***************************************************************************)
(* README.md, line 126: meta data which changes during playback is sent    *)
(* again, and that in spite of it being changed over and over again.       *)
(***************************************************************************)
EveryTagListIsShown ==
    (cur # None /\ cur = md.id /\ tags # shown) ~> (tags = shown \/ cur # md.id)

(***************************************************************************)
(* A position is held back only if the client knows it: whatever is stored *)
(* in previous_time_ after the stream was announced has been sent for this *)
(* very stream, and not with the duration of another stream, except while  *)
(* GStreamer is one stream ahead of the player (handle_start_of_stream(),  *)
(* report_progress__unlocked(), handle_stream_duration_async()).           *)
(***************************************************************************)
KnownPositionIsOwn ==
    (cur # None /\ cur = md.id /\ prev # InvalidTime) =>
        /\ reported = [id |-> cur, pos |-> prev.pos, dur |-> prev.dur]
        /\ starting = None => reported.dur \in {cur, Unknown, Invalid, RunningTime}

\* The stream which was announced is being played, and is near its end.
AtLastPosition ==
    gst.state = "PLAYING" /\ gst.stream = cur /\ cur = md.id /\ gst.pos = MaxPos

(***************************************************************************)
(* README.md, line 119: PositionChanged is sent for each second played.    *)
(* In particular, the last position of each stream is sent, and not taken  *)
(* for the equal position of the previous stream.                          *)
(***************************************************************************)
LastPositionIsShown ==
    AtLastPosition ~> (~AtLastPosition \/ (reported.id = cur /\ reported.pos = MaxPos))
=============================================================================
