---------------------------- MODULE GstPipeline ----------------------------
(***************************************************************************)
(* What streamer.cc relies on in GStreamer's playbin3 element.  GStreamer  *)
(* is not part of this repository; the operators describe the element as   *)
(* streamer.cc uses it: the state machine behind gst_element_set_state(),  *)
(* the properties "uri" and "current-uri", and the messages posted on the  *)
(* bus.                                                                    *)
(*                                                                         *)
(* The pipeline is a record                                                *)
(*   state, pending, target   GST_STATE, GST_STATE_PENDING,                *)
(*                            GST_STATE_TARGET;                            *)
(*   uri                      property "uri", read when the pipeline       *)
(*                            leaves READY or after "about-to-finish";     *)
(*   curUri                   property "current-uri", the URI being        *)
(*                            loaded;                                      *)
(*   heard                    the URI whose GST_MESSAGE_STREAM_START has   *)
(*                            been posted last, i.e., what is rendered;    *)
(*   asked                    "about-to-finish" was emitted for curUri;    *)
(*   taken                    its handler has set another "uri";           *)
(*   drained                  GST_MESSAGE_EOS has been posted;             *)
(*   bus                      messages waiting for the bus watch.          *)
(*                                                                         *)
(* A URI is a pair of stream ID and index of the URL in the stream's URL   *)
(* list; NoUri is the empty string.                                        *)
(***************************************************************************)
EXTENDS Naturals, Sequences

CONSTANT Unopenable  \* URIs for which leaving READY fails at once

NoUri == <<0, 0>>

GstStates == {"VOID", "NULL", "READY", "PAUSED", "PLAYING"}

\* Messages: the first element tells the type.
StateChanged(old, new, pending) == <<"STATE_CHANGED", old, new, pending>>
StreamStart(uri) == <<"STREAM_START", uri>>
EndOfStream == <<"EOS">>
ErrorMessage(reason) == <<"ERROR", reason>>
BufferingMessage(level) == <<"BUFFERING", level>>
VideoDecoderFound == <<"VIDEO_DECODER">>
ClockLost == <<"CLOCK_LOST">>
AsyncDone == <<"ASYNC_DONE">>

Post(g, m) == [g EXCEPT !.bus = Append(@, m)]

\* gst_element_factory_make()
NewPipeline ==
    [state |-> "NULL", pending |-> "VOID", target |-> "NULL",
     uri |-> NoUri, curUri |-> NoUri, heard |-> NoUri,
     asked |-> FALSE, taken |-> FALSE, drained |-> FALSE, bus |-> <<>>]

Unload(g) ==
    [g EXCEPT !.curUri = NoUri, !.heard = NoUri, !.asked = FALSE, !.taken = FALSE,
              !.drained = FALSE]

\* Asynchronous change from READY to PAUSED, waiting for data.
Prerolling(g) == g.state = "READY" /\ g.pending \in {"PAUSED", "PLAYING"}

Loaded(g) == g.state \in {"PAUSED", "PLAYING"} \/ Prerolling(g)

-----------------------------------------------------------------------------
(***************************************************************************)
(* gst_element_set_state() downwards: done when the function returns.      *)
(* Going to NULL flushes the bus.  A pipeline which was interrupted while  *)
(* prerolling reports a change from READY to READY.                        *)
(***************************************************************************)
SetNull(g) == [Unload(g) EXCEPT !.state = "NULL", !.pending = "VOID",
                                !.target = "NULL", !.bus = <<>>]

SetReady(g) ==
    LET down == [Unload(g) EXCEPT !.state = "READY", !.pending = "VOID", !.target = "READY"]
    IN  CASE g.state = "PLAYING" ->
               Post(Post(down, StateChanged("PLAYING", "PAUSED", "READY")),
                    StateChanged("PAUSED", "READY", "VOID"))
          [] g.state \in {"NULL", "PAUSED"} -> Post(down, StateChanged(g.state, "READY", "VOID"))
          [] Prerolling(g) -> Post(down, StateChanged("READY", "READY", "VOID"))
          [] OTHER -> [g EXCEPT !.target = "READY"]

(***************************************************************************)
(* gst_element_set_state() upwards, or between PAUSED and PLAYING: the     *)
(* change is only begun; Commit finishes it in one of GStreamer's threads. *)
(* A change in progress is redirected to the new target.                   *)
(***************************************************************************)
LeaveReady(g, t) ==
    LET ready == IF g.state = "NULL" THEN Post(g, StateChanged("NULL", "READY", t)) ELSE g
        load  == [Unload(ready) EXCEPT !.state = "READY", !.target = t, !.curUri = g.uri]
    IN  IF g.uri = NoUri \/ g.uri \in Unopenable
        THEN [load EXCEPT !.pending = "VOID"]
        ELSE [load EXCEPT !.pending = t]

SetActive(g, t) ==
    IF g.state \in {"NULL", "READY"} /\ ~Prerolling(g)
    THEN LeaveReady(g, t)
    ELSE LET redirected == [g EXCEPT !.target = t, !.pending = t]
         IN  CASE g.pending = "VOID" /\ g.state = t -> [g EXCEPT !.target = t]
               [] g.state = "PAUSED" /\ g.pending = "PLAYING" /\ t = "PAUSED" ->
                    Post([redirected EXCEPT !.pending = "VOID"],
                         StateChanged("PAUSED", "PAUSED", "VOID"))
               [] OTHER -> redirected

GstSetState(g, t) ==
    CASE t = "NULL"  -> SetNull(g)
      [] t = "READY" -> SetReady(g)
      [] OTHER       -> SetActive(g, t)

\* The return value GST_STATE_CHANGE_FAILURE.
GstRefuses(g, t) ==
    /\ t \in {"PAUSED", "PLAYING"}
    /\ g.state \in {"NULL", "READY"} /\ ~Prerolling(g)
    /\ g.uri = NoUri \/ g.uri \in Unopenable

-----------------------------------------------------------------------------
(***************************************************************************)
(* Steps taken by GStreamer's own threads.                                 *)
(***************************************************************************)
\* One state of an asynchronous state change is reached.
CanCommit(g) ==
    \/ Prerolling(g)
    \/ g.state = "PAUSED" /\ g.pending = "PLAYING" /\ g.heard # NoUri
    \/ g.state = "PLAYING" /\ g.pending # "VOID"

Commit(g) ==
    LET to   == IF g.state = "PAUSED" THEN "PLAYING" ELSE "PAUSED"
        left == IF g.pending = to THEN "VOID" ELSE g.pending
    IN  Post([g EXCEPT !.state = to, !.pending = left], StateChanged(g.state, to, left))

(***************************************************************************)
(* After "about-to-finish", the next URI is read while the previous one is *)
(* still being rendered.  A URI set by the handler is always taken.  One   *)
(* set later may be taken, unless the pipeline reports EOS before.         *)
(***************************************************************************)
CanPrefetch(g) ==
    /\ Loaded(g) /\ g.asked /\ ~g.drained
    /\ g.heard = g.curUri
    /\ g.uri # NoUri /\ g.uri # g.curUri

Prefetch(g) == [g EXCEPT !.curUri = g.uri, !.asked = FALSE, !.taken = FALSE]

CanStartStream(g) == Loaded(g) /\ g.curUri # NoUri /\ g.heard # g.curUri

StartStream(g) == Post([g EXCEPT !.heard = g.curUri], StreamStart(g.curUri))

\* All data of curUri has been read.
CanFinish(g) == Loaded(g) /\ g.curUri # NoUri /\ ~g.asked

Finish(g) == [g EXCEPT !.asked = TRUE]

\* The handler of "about-to-finish" has returned.
Finished(g) == [g EXCEPT !.taken = g.uri \notin {NoUri, g.curUri}]

CanDrain(g) ==
    /\ g.state = "PLAYING" /\ g.pending = "VOID"
    /\ g.asked /\ ~g.taken /\ ~g.drained /\ g.heard = g.curUri

\* Buffer levels are reported until everything has been read.
CanReportLevel(g, percent) == Loaded(g) /\ ~g.drained /\ (g.asked => percent = "100")

Drain(g) == Post([g EXCEPT !.drained = TRUE], EndOfStream)
=============================================================================
