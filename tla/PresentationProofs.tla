------------------------- MODULE PresentationProofs -------------------------
(***************************************************************************)
(* Proofs about the meta data updates and about positions, for every       *)
(* cool-down time and any number of streams, tags and timers.              *)
(***************************************************************************)
EXTENDS Presentation, TLAPS

(***************************************************************************)
(* NoUpdateLost is not inductive: that a timer is pending does not tell    *)
(* that it belongs to the update which is scheduled.  One of the timers    *)
(* does not expire before the cool-down time has passed: the one which was *)
(* started when the update was scheduled.  All others are leftovers.       *)
(***************************************************************************)
InCharge == md.scheduled => \E s \in Sources : timers[s] >= md.left

ToBeSent == (cur # None /\ cur = md.id /\ tags # shown) => md.scheduled

Inv == TypeOK /\ InCharge /\ ToBeSent

(***************************************************************************)
(* The invariant implies what the client relies on.                        *)
(***************************************************************************)
LEMMA InvImplies == Inv => NoUpdateLost
<1> SUFFICES ASSUME Inv, cur # None, cur = md.id, tags # shown
             PROVE  md.scheduled /\ \E s \in Sources : timers[s] # Off
  BY DEF NoUpdateLost
<1>1. md.scheduled /\ md.left \in 0..Cooldown
  BY DEF Inv, TypeOK, ToBeSent
<1>2. PICK s \in Sources : timers[s] >= md.left
  BY <1>1 DEF Inv, InCharge
<1>3. timers[s] # Off
  BY <1>1, <1>2, CooldownAssumption DEF Inv, TypeOK, Off
<1>4. QED
  BY <1>1, <1>3

(***************************************************************************)
(* The invariant holds before anything is played.                          *)
(***************************************************************************)
LEMMA InitInv == Init => Inv
<1> SUFFICES ASSUME Init PROVE Inv
  OBVIOUS
<1>1. TypeOK
  BY CooldownAssumption, MaxPosAssumption
  DEF Init, TypeOK, None, NoTags, Off, Times
<1>2. InCharge /\ ToBeSent
  BY DEF Init, InCharge, ToBeSent
<1>3. QED
  BY <1>1, <1>2 DEF Inv

-----------------------------------------------------------------------------
(* The steps *)

(***************************************************************************)
(* emit_tags__unlocked() sends the tags of the stream which was announced; *)
(* there is nothing to be scheduled any more, whichever stream it is.      *)
(***************************************************************************)
LEMMA EmitTagsInv ==
    ASSUME Inv, NEW list \in TagLists \cup {NoTags}, EmitTags(list), tags' = list, cur' = cur,
           timers' \in [Sources -> -1..Cooldown]
    PROVE  /\ md' \in [left : 0..Cooldown, scheduled : BOOLEAN, id : Streams \cup {None}]
           /\ shown' \in TagLists \cup {NoTags}
           /\ InCharge' /\ ToBeSent'
<1> USE DEF Inv, TypeOK
<1>1. CASE cur = md.id
  <2>1. /\ shown' = list
        /\ md' = [md EXCEPT !.left = Cooldown, !.scheduled = FALSE]
    BY <1>1 DEF EmitTags
  <2>2. ~md'.scheduled /\ tags' = shown'
    BY <2>1
  <2>3. Cooldown \in 0..Cooldown
    BY CooldownAssumption
  <2>4. md' \in [left : 0..Cooldown, scheduled : BOOLEAN, id : Streams \cup {None}]
    BY <2>1, <2>3
  <2>5. QED
    BY <2>1, <2>2, <2>4 DEF InCharge, ToBeSent
<1>2. CASE cur # md.id
  <2>1. md' = [md EXCEPT !.scheduled = FALSE] /\ shown' = shown
    BY <1>2 DEF EmitTags
  <2>2. md'.id = md.id /\ ~md'.scheduled
    BY <2>1
  <2>3. QED
    BY <1>2, <2>1, <2>2 DEF InCharge, ToBeSent
<1>3. QED
  BY <1>1, <1>2

(***************************************************************************)
(* handle_tag() sends the tags, or leaves them to the timer in charge,     *)
(* which it starts if there is none.                                       *)
(***************************************************************************)
LEMMA HandleTagInv ==
    ASSUME Inv, NEW list \in TagLists, HandleTag(list)
    PROVE  Inv'
<1> USE DEF Inv, TypeOK
<1>1. cur # None /\ tags' = list /\ TryEmitTags(list) /\ cur' = cur
  BY DEF HandleTag
<1>2. CASE md.scheduled
  <2>1. md' = md /\ timers' = timers /\ shown' = shown
    BY <1>1, <1>2 DEF TryEmitTags
  <2>2. InCharge' /\ ToBeSent'
    BY <1>2, <2>1 DEF InCharge, ToBeSent
  <2>3. QED
    BY <1>1, <2>1, <2>2 DEF HandleTag, timeVars
<1>3. CASE ~md.scheduled /\ md.left = 0
  <2>1. EmitTags(list) /\ timers' = timers
    BY <1>1, <1>3 DEF TryEmitTags
  <2>2. /\ md' \in [left : 0..Cooldown, scheduled : BOOLEAN, id : Streams \cup {None}]
        /\ shown' \in TagLists \cup {NoTags}
        /\ InCharge' /\ ToBeSent'
    BY <1>1, <2>1, EmitTagsInv
  <2>3. QED
    BY <1>1, <2>1, <2>2 DEF HandleTag, timeVars
<1>4. CASE ~md.scheduled /\ md.left # 0
  <2>1. PICK s \in Sources : /\ timers' = [timers EXCEPT ![s] = md.left]
                             /\ md' = [md EXCEPT !.scheduled = TRUE]
                             /\ shown' = shown
    BY <1>1, <1>4 DEF TryEmitTags
  <2>2. timers' \in [Sources -> -1..Cooldown] /\ timers'[s] = md.left
    BY <2>1, CooldownAssumption
  <2>3. /\ md' \in [left : 0..Cooldown, scheduled : BOOLEAN, id : Streams \cup {None}]
        /\ md'.scheduled /\ md'.left = md.left
    BY <2>1
  <2>4. InCharge' /\ ToBeSent'
    BY <2>2, <2>3, CooldownAssumption DEF InCharge, ToBeSent
  <2>5. QED
    BY <1>1, <2>1, <2>2, <2>3, <2>4 DEF HandleTag, timeVars
<1>5. QED
  BY <1>2, <1>3, <1>4

(***************************************************************************)
(* timed_emit_tags(), whichever timer it is called for, leaves nothing     *)
(* scheduled, and nothing which should be.                                 *)
(***************************************************************************)
LEMMA TimedEmitTagsInv ==
    ASSUME Inv, NEW s \in Sources, TimedEmitTags(s)
    PROVE  Inv'
<1> USE DEF Inv, TypeOK
<1>1. /\ timers' = [timers EXCEPT ![s] = Off]
      /\ cur' = cur /\ tags' = tags
  BY DEF TimedEmitTags
<1>2. timers' \in [Sources -> -1..Cooldown]
  BY <1>1, CooldownAssumption DEF Off
<1>3. CASE ~md.scheduled
  <2>1. md' = md /\ shown' = shown
    BY <1>3 DEF TimedEmitTags
  <2>2. InCharge' /\ ToBeSent'
    BY <1>1, <1>3, <2>1 DEF InCharge, ToBeSent
  <2>3. QED
    BY <1>1, <1>2, <2>1, <2>2 DEF TimedEmitTags, timeVars
<1>4. CASE md.scheduled /\ cur # None
  <2>1. EmitTags(tags)
    BY <1>4 DEF TimedEmitTags
  <2>2. /\ md' \in [left : 0..Cooldown, scheduled : BOOLEAN, id : Streams \cup {None}]
        /\ shown' \in TagLists \cup {NoTags}
        /\ InCharge' /\ ToBeSent'
    BY <1>1, <1>2, <2>1, EmitTagsInv
  <2>3. QED
    BY <1>1, <1>2, <2>2 DEF TimedEmitTags, timeVars
<1>5. CASE md.scheduled /\ cur = None
  <2>1. md' = [md EXCEPT !.scheduled = FALSE] /\ shown' = shown
    BY <1>5 DEF TimedEmitTags
  <2>2. InCharge' /\ ToBeSent'
    BY <1>1, <1>5, <2>1 DEF InCharge, ToBeSent
  <2>3. QED
    BY <1>1, <1>2, <2>1, <2>2 DEF TimedEmitTags, timeVars
<1>6. QED
  BY <1>3, <1>4, <1>5

(***************************************************************************)
(* emit_now_playing() sends the tags the new stream has, and makes all     *)
(* timers of the previous stream leftovers.                                *)
(***************************************************************************)
LEMMA StartOfStreamInv ==
    ASSUME Inv, NEW d \in {gst.stream, Unknown}, StartOfStream(d)
    PROVE  Inv'
<1> USE DEF Inv, TypeOK
<1>1. /\ starting # None /\ cur' = starting /\ tags' = Preset /\ shown' = Preset
      /\ md' = [left |-> Cooldown, scheduled |-> FALSE, id |-> starting]
      /\ now' = [now EXCEPT !.dur = d] /\ prev' = InvalidTime
      /\ starting' = None /\ timers' = timers /\ reported' = reported /\ gst' = gst
  BY DEF StartOfStream, StartTimes, EmitNowPlaying
<1>2. Cooldown \in 0..Cooldown /\ d \in Int /\ Invalid \in Int
  BY CooldownAssumption, StreamsAssumption DEF Unknown, Invalid, None
<1>3. md' \in [left : 0..Cooldown, scheduled : BOOLEAN, id : Streams \cup {None}]
  BY <1>1, <1>2
<1>4. now' \in Times /\ prev' \in Times
  BY <1>1, <1>2 DEF Times, InvalidTime
<1>5. TypeOK'
  BY <1>1, <1>3, <1>4, TagsAssumption
<1>6. InCharge' /\ ToBeSent'
  BY <1>1 DEF InCharge, ToBeSent
<1>7. QED
  BY <1>5, <1>6

(***************************************************************************)
(* As time passes, the timer in charge does not overtake the cool-down.    *)
(***************************************************************************)
LEMMA TickInv == ASSUME Inv, Tick PROVE Inv'
<1> USE DEF Inv, TypeOK
<1>1. /\ md' = [md EXCEPT !.left = Elapsed(@)]
      /\ timers' = [s \in Sources |-> Elapsed(timers[s])]
      /\ UNCHANGED <<cur, tags, shown, timeVars, starting>>
  BY DEF Tick
<1>2. \A t \in -1..Cooldown : Elapsed(t) \in -1..Cooldown /\ (t >= 0 => Elapsed(t) \in 0..Cooldown)
  BY CooldownAssumption DEF Elapsed
<1>3. \A t, u \in -1..Cooldown : t >= u => Elapsed(t) >= Elapsed(u)
  BY CooldownAssumption DEF Elapsed
<1>4. timers' \in [Sources -> -1..Cooldown]
  BY <1>1, <1>2
<1>5. md.left \in -1..Cooldown /\ md.left >= 0
  BY CooldownAssumption
<1>6. /\ md' \in [left : 0..Cooldown, scheduled : BOOLEAN, id : Streams \cup {None}]
      /\ md'.left = Elapsed(md.left) /\ md'.scheduled = md.scheduled /\ md'.id = md.id
  BY <1>1, <1>2, <1>5
<1>7. gst' \in [state : {"READY", "PAUSED", "PLAYING"}, stream : Streams \cup {None},
                pos : 0..MaxPos]
  <2>1. gst' = [gst EXCEPT !.pos = IF gst.state = "PLAYING" /\ @ < MaxPos THEN @ + 1 ELSE @]
    BY DEF Tick
  <2>2. (IF gst.state = "PLAYING" /\ gst.pos < MaxPos THEN gst.pos + 1 ELSE gst.pos) \in 0..MaxPos
    BY MaxPosAssumption
  <2>3. QED
    BY <2>1, <2>2
<1>8. InCharge'
  <2> SUFFICES ASSUME md.scheduled
               PROVE  \E s \in Sources : timers'[s] >= md'.left
    BY <1>6 DEF InCharge
  <2>1. PICK s \in Sources : timers[s] >= md.left
    BY DEF InCharge
  <2>2. timers'[s] = Elapsed(timers[s]) /\ timers[s] \in -1..Cooldown
    BY <1>1
  <2>3. QED
    BY <1>3, <1>5, <1>6, <2>1, <2>2
<1>9. ToBeSent'
  BY <1>1, <1>6 DEF ToBeSent
<1>10. QED
  BY <1>1, <1>4, <1>6, <1>7, <1>8, <1>9 DEF timeVars

(***************************************************************************)
(* Reporting positions and durations does not touch the meta data.         *)
(***************************************************************************)
LEMMA TimeInv ==
    ASSUME Inv,
           \/ ReportProgress
           \/ \E d \in {gst.stream, Unknown, RunningTime} : HandleStreamDurationAsync(d)
    PROVE  Inv'
<1> USE DEF Inv, TypeOK
<1>1. UNCHANGED <<cur, tags, md, timers, shown, gst, starting>>
  BY DEF ReportProgress, HandleStreamDurationAsync, metaVars
<1>2. InCharge' /\ ToBeSent'
  BY <1>1 DEF InCharge, ToBeSent
<1>3. InvalidTime \in Times
  BY DEF InvalidTime, Times, Invalid
<1>4. CASE ReportProgress
  <2> DEFINE time == IF gst.state = "READY" THEN InvalidTime ELSE [now EXCEPT !.pos = gst.pos]
  <2>1. gst.pos \in Int
    BY MaxPosAssumption
  <2>2. time \in Times
    BY <1>3, <2>1 DEF Times
  <2> HIDE DEF time
  <2>3. /\ cur # None /\ now' = time
        /\ IF WorthReporting(time)
           THEN prev' = time /\ reported' = [id |-> cur, pos |-> time.pos, dur |-> time.dur]
           ELSE UNCHANGED <<prev, reported>>
    BY <1>4 DEF ReportProgress, time
  <2>4. /\ now' \in Times /\ prev' \in Times
        /\ reported' \in [id : Streams \cup {None}, pos : Int, dur : Int]
    BY <2>2, <2>3 DEF Times
  <2>5. QED
    BY <1>1, <1>2, <2>4
<1>5. CASE \E d \in {gst.stream, Unknown, RunningTime} : HandleStreamDurationAsync(d)
  <2>1. PICK d \in {gst.stream, Unknown, RunningTime} : now' = [now EXCEPT !.dur = d]
    BY <1>5 DEF HandleStreamDurationAsync
  <2>2. d \in Int
    BY StreamsAssumption DEF Unknown, RunningTime, None
  <2>3. now' \in Times
    BY <2>1, <2>2 DEF Times
  <2>4. prev' = prev /\ reported' = reported
    BY <1>5 DEF HandleStreamDurationAsync
  <2>5. QED
    BY <1>1, <1>2, <2>3, <2>4
<1>6. QED
  BY <1>4, <1>5

(***************************************************************************)
(* Another stream than the one which was announced has nothing to be sent. *)
(***************************************************************************)
LEMMA ReplaceInv ==
    ASSUME Inv, NEW i \in Streams \cup {None}, NEW time \in {prev, InvalidTime}, Replace(i, time)
    PROVE  Inv'
<1> USE DEF Inv, TypeOK
<1>1. /\ i # md.id /\ cur' = i /\ tags' = NoTags /\ prev' = time
      /\ UNCHANGED <<md, timers, shown, now, reported>>
      /\ gst' = [state |-> "READY", stream |-> None, pos |-> 0] /\ starting' = None
  BY DEF Replace, Down
<1>2. prev' \in Times
  BY <1>1 DEF InvalidTime, Times, Invalid
<1>3. gst' \in [state : {"READY", "PAUSED", "PLAYING"}, stream : Streams \cup {None},
                pos : 0..MaxPos]
  BY <1>1, MaxPosAssumption
<1>4. InCharge' /\ ToBeSent'
  BY <1>1 DEF InCharge, ToBeSent
<1>5. QED
  BY <1>1, <1>2, <1>3, <1>4

(***************************************************************************)
(* What GStreamer does, and that the playbin is rebuilt, is not visible in *)
(* the meta data before it is handled.                                     *)
(***************************************************************************)
LEMMA PipelineInv ==
    ASSUME Inv,
           RebuildPlaybinForWorkarounds \/ Preroll \/ PauseOrResume \/ \E i \in Streams : Gapless(i)
    PROVE  Inv'
<1> USE DEF Inv, TypeOK
<1>1. UNCHANGED <<cur, tags, md, timers, shown, reported>>
  BY DEF RebuildPlaybinForWorkarounds, Preroll, PauseOrResume, Gapless, metaVars, timeVars
<1>2. InCharge' /\ ToBeSent'
  BY <1>1 DEF InCharge, ToBeSent
<1>3. 0 \in 0..MaxPos
  BY MaxPosAssumption
<1>4. CASE RebuildPlaybinForWorkarounds
  <2>1. now' \in Times /\ prev' \in Times
    BY <1>4 DEF RebuildPlaybinForWorkarounds, InvalidTime, Times, Invalid
  <2>2. /\ gst' = [state |-> "READY", stream |-> None, pos |-> 0]
        /\ starting' = None
    BY <1>4 DEF RebuildPlaybinForWorkarounds, Down
  <2>3. QED
    BY <1>1, <1>2, <1>3, <2>1, <2>2
<1>5. CASE Preroll
  <2>1. /\ gst' = [state |-> "PAUSED", stream |-> cur, pos |-> 0] /\ starting' = cur
        /\ now' = now /\ prev' = prev
    BY <1>5 DEF Preroll, timeVars
  <2>2. QED
    BY <1>1, <1>2, <1>3, <2>1
<1>6. CASE PauseOrResume
  <2>1. /\ gst' = [gst EXCEPT !.state = IF @ = "PLAYING" THEN "PAUSED" ELSE "PLAYING"]
        /\ starting' = starting /\ now' = now /\ prev' = prev
    BY <1>6 DEF PauseOrResume, timeVars
  <2>2. QED
    BY <1>1, <1>2, <2>1
<1>7. CASE \E i \in Streams : Gapless(i)
  <2>1. PICK i \in Streams : Gapless(i)
    BY <1>7
  <2>2. /\ gst' = [gst EXCEPT !.stream = i, !.pos = 0] /\ starting' = i
        /\ now' = now /\ prev' = prev
    BY <2>1 DEF Gapless, timeVars
  <2>3. QED
    BY <1>1, <1>2, <1>3, <2>2
<1>8. QED
  BY <1>4, <1>5, <1>6, <1>7

(***************************************************************************)
(* Each step preserves the invariant.                                      *)
(***************************************************************************)
LEMMA NextInv == Inv /\ [Next]_vars => Inv'
<1> SUFFICES ASSUME Inv, [Next]_vars PROVE Inv'
  OBVIOUS
<1>1. CASE UNCHANGED vars
  BY <1>1 DEF vars, Inv, TypeOK, InCharge, ToBeSent
<1>2. CASE \E list \in TagLists : HandleTag(list)
  BY <1>2, HandleTagInv
<1>3. CASE \E s \in Sources : TimedEmitTags(s)
  BY <1>3, TimedEmitTagsInv
<1>4. CASE \E d \in {gst.stream, Unknown} : StartOfStream(d)
  BY <1>4, StartOfStreamInv
<1>5. CASE ReportProgress \/ \E d \in {gst.stream, Unknown, RunningTime} : HandleStreamDurationAsync(d)
  BY <1>5, TimeInv
<1>6. CASE \E i \in Streams \cup {None}, time \in {prev, InvalidTime} : Replace(i, time)
  BY <1>6, ReplaceInv
<1>7. CASE RebuildPlaybinForWorkarounds \/ Preroll \/ PauseOrResume \/ \E i \in Streams : Gapless(i)
  BY <1>7, PipelineInv
<1>8. CASE Tick
  BY <1>8, TickInv
<1>9. QED
  BY <1>1, <1>2, <1>3, <1>4, <1>5, <1>6, <1>7, <1>8 DEF Next

(***************************************************************************)
(* If meta data is sent in spite of the cool-down, then by another timer   *)
(* than the one in charge, which does not expire before the cool-down has  *)
(* passed.                                                                 *)
(***************************************************************************)
LEMMA StepThrottled ==
    ASSUME Inv, Next, md'.left > md.left, starting' = starting, md.left > 0
    PROVE  \E s, u \in Sources : s # u /\ timers[s] = 0 /\ timers[u] >= md.left
<1> USE DEF Inv, TypeOK
<1>1. md' # md /\ md.left \in 0..Cooldown /\ Cooldown \in Nat
  BY CooldownAssumption
<1>2. ASSUME NEW list \in TagLists, HandleTag(list)
      PROVE  FALSE
  <2>1. TryEmitTags(list)
    BY <1>2 DEF HandleTag
  <2>2. ~md.scheduled /\ md' = [md EXCEPT !.scheduled = TRUE]
    BY <1>1, <2>1 DEF TryEmitTags
  <2>3. md'.left = md.left
    BY <2>2
  <2>4. QED
    BY <1>1, <2>3
<1>3. ASSUME NEW s \in Sources, TimedEmitTags(s)
      PROVE  \E u \in Sources : s # u /\ timers[s] = 0 /\ timers[u] >= md.left
  <2>1. md.scheduled
    BY <1>1, <1>3 DEF TimedEmitTags
  <2>2. PICK u \in Sources : timers[u] >= md.left
    BY <2>1 DEF InCharge
  <2>3. timers[s] = 0
    BY <1>3 DEF TimedEmitTags
  <2>4. QED
    BY <1>1, <2>2, <2>3
<1>4. ASSUME NEW d, StartOfStream(d) \/ HandleStreamDurationAsync(d)
      PROVE  FALSE
  BY <1>1, <1>4 DEF StartOfStream, HandleStreamDurationAsync, metaVars
<1>5. ASSUME Tick
      PROVE  FALSE
  BY <1>1, <1>5 DEF Tick, Elapsed
<1>6. ~ReportProgress /\ ~RebuildPlaybinForWorkarounds /\ ~Preroll /\ ~PauseOrResume
  BY <1>1 DEF ReportProgress, RebuildPlaybinForWorkarounds, Preroll, PauseOrResume, metaVars
<1>7. /\ ~\E i \in Streams \cup {None}, time \in {prev, InvalidTime} : Replace(i, time)
      /\ ~\E i \in Streams : Gapless(i)
  BY <1>1 DEF Replace, Gapless, metaVars
<1>8. QED
  BY <1>2, <1>3, <1>4, <1>5, <1>6, <1>7 DEF Next

-----------------------------------------------------------------------------
(* Position and duration *)

(***************************************************************************)
(* KnownPositionIsOwn is not inductive: the duration comes from GStreamer, *)
(* which may be one stream ahead.  It is so only between the beginning of  *)
(* a stream and handle_start_of_stream(), and whatever was stored in the   *)
(* meantime is overwritten then.                                           *)
(***************************************************************************)
Announced == cur # None /\ cur = md.id

Ahead == starting # None => gst.stream = starting

OwnTimes ==
    Announced /\ starting = None =>
        /\ gst.state # "READY" => gst.stream = cur
        /\ now.dur \in {cur, Unknown, Invalid, RunningTime}

PositionInv == Ahead /\ OwnTimes /\ KnownPositionIsOwn

(***************************************************************************)
(* Each step preserves that the positions belong to their stream.          *)
(***************************************************************************)
LEMMA NextPosition ==
    ASSUME TypeOK, PositionInv, [Next]_vars
    PROVE  PositionInv'
<1> USE DEF PositionInv, Ahead, OwnTimes, Announced, KnownPositionIsOwn
<1>1. CASE UNCHANGED vars
  BY <1>1 DEF vars
<1>2. ASSUME NEW list \in TagLists, HandleTag(list)
      PROVE  PositionInv'
  <2>1. UNCHANGED <<cur, timeVars, gst, starting>> /\ TryEmitTags(list)
    BY <1>2 DEF HandleTag
  <2>2. md'.id = md.id
    BY <2>1 DEF TypeOK, TryEmitTags, EmitTags
  <2>3. QED
    BY <2>1, <2>2 DEF timeVars
<1>3. ASSUME NEW s \in Sources, TimedEmitTags(s)
      PROVE  PositionInv'
  <2>1. UNCHANGED <<cur, timeVars, gst, starting>>
    BY <1>3 DEF TimedEmitTags
  <2>2. md'.id = md.id
    BY <1>3 DEF TypeOK, TimedEmitTags, EmitTags
  <2>3. QED
    BY <2>1, <2>2 DEF timeVars
<1>4. ASSUME NEW d \in {gst.stream, Unknown}, StartOfStream(d)
      PROVE  PositionInv'
  <2>1. /\ starting # None /\ cur' = starting /\ starting' = None /\ gst' = gst
        /\ prev' = InvalidTime /\ now'.dur = d
    BY <1>4 DEF StartOfStream, StartTimes, TypeOK, Times
  <2>2. QED
    BY <2>1
<1>5. ASSUME NEW d \in {gst.stream, Unknown, RunningTime}, HandleStreamDurationAsync(d)
      PROVE  PositionInv'
  <2>1. /\ gst.state # "READY" /\ now'.dur = d
        /\ UNCHANGED <<cur, md, prev, reported, gst, starting>>
    BY <1>5 DEF HandleStreamDurationAsync, metaVars, TypeOK, Times
  <2>2. QED
    BY <2>1
<1>6. ASSUME ReportProgress
      PROVE  PositionInv'
  <2> DEFINE time == IF gst.state = "READY" THEN InvalidTime ELSE [now EXCEPT !.pos = gst.pos]
  <2>1. /\ now' = time /\ UNCHANGED <<cur, md, gst, starting>>
        /\ \/ prev' = time /\ reported' = [id |-> cur, pos |-> time.pos, dur |-> time.dur]
           \/ time = prev /\ prev' = prev /\ reported' = reported
    BY <1>6 DEF ReportProgress, WorthReporting, metaVars
  <2>2. time.dur \in {now.dur, Invalid}
    BY DEF TypeOK, Times, InvalidTime
  <2> HIDE DEF time
  <2>3. QED
    BY <2>1, <2>2
<1>7. ASSUME NEW i \in Streams \cup {None}, NEW time \in {prev, InvalidTime}, Replace(i, time)
      PROVE  PositionInv'
  <2>1. cur' # md'.id /\ starting' = None
    BY <1>7 DEF Replace, Down
  <2>2. QED
    BY <2>1
<1>8. ASSUME RebuildPlaybinForWorkarounds
      PROVE  PositionInv'
  <2>1. /\ now'.dur = Invalid /\ prev' = InvalidTime /\ starting' = None
        /\ gst'.state = "READY"
    BY <1>8 DEF RebuildPlaybinForWorkarounds, Down, InvalidTime
  <2>2. QED
    BY <2>1
<1>9. ASSUME Preroll
      PROVE  PositionInv'
  <2>1. /\ cur # None /\ starting' = cur /\ gst'.stream = cur
        /\ UNCHANGED <<cur, md, timeVars>>
    BY <1>9 DEF Preroll, metaVars
  <2>2. QED
    BY <2>1 DEF timeVars
<1>10. ASSUME NEW i \in Streams, Gapless(i)
       PROVE  PositionInv'
  <2>1. starting' = i /\ gst'.stream = i /\ UNCHANGED <<cur, md, timeVars>>
    BY <1>10 DEF Gapless, metaVars, TypeOK
  <2>2. i # None
    BY StreamsAssumption DEF None
  <2>3. QED
    BY <2>1, <2>2 DEF timeVars
<1>11. ASSUME PauseOrResume \/ Tick
       PROVE  PositionInv'
  <2>1. /\ gst'.stream = gst.stream /\ (gst'.state # "READY" => gst.state # "READY")
        /\ md'.id = md.id
        /\ UNCHANGED <<cur, timeVars, starting>>
    BY <1>11 DEF PauseOrResume, Tick, metaVars, TypeOK
  <2>2. QED
    BY <2>1 DEF timeVars
<1>12. QED
  BY <1>1, <1>2, <1>3, <1>4, <1>5, <1>6, <1>7, <1>8, <1>9, <1>10, <1>11 DEF Next

-----------------------------------------------------------------------------
(***************************************************************************)
(* The types of the data and the inductive invariant: an update which is   *)
(* needed is scheduled, and a scheduled update has its timer.              *)
(***************************************************************************)
THEOREM SpecInv == Spec => []Inv
<1>1. Init => Inv
  BY InitInv
<1>2. Inv /\ [Next]_vars => Inv'
  BY NextInv
<1>3. QED
  BY <1>1, <1>2, PTL DEF Spec

(***************************************************************************)
(* No change of meta data is lost by throttling, however many timers of    *)
(* former streams get in the way of try_emit_tags() and timed_emit_tags(). *)
(***************************************************************************)
THEOREM NoneLost == Spec => []NoUpdateLost
<1>1. Inv => NoUpdateLost
  BY InvImplies
<1>2. QED
  BY <1>1, SpecInv, PTL

(***************************************************************************)
(* Only a leftover timer of a replaced stream sends meta data during the   *)
(* cool-down time (timed_emit_tags(), emit_tags__unlocked()).              *)
(***************************************************************************)
THEOREM OnlyLeftoversHurry == Spec => Throttled
<1>1. Inv /\ [Next]_vars =>
        [(md'.left > md.left /\ starting' = starting /\ md.left > 0) =>
           \E s, u \in Sources : s # u /\ timers[s] = 0 /\ timers[u] >= md.left]_vars
  BY StepThrottled
<1>2. QED
  BY <1>1, SpecInv, PTL DEF Spec, Throttled

(***************************************************************************)
(* A position is held back only if it has been sent for the very stream,   *)
(* and with its own duration (report_progress__unlocked()), although the   *)
(* pipeline may have gone on to the next stream.                           *)
(***************************************************************************)
THEOREM PositionsAreOwn == Spec => []KnownPositionIsOwn
<1>1. Init => PositionInv
  BY DEF Init, PositionInv, Ahead, OwnTimes, Announced, KnownPositionIsOwn
<1>2. Inv /\ PositionInv /\ [Next]_vars => PositionInv'
  BY NextPosition DEF Inv
<1>3. PositionInv => KnownPositionIsOwn
  BY DEF PositionInv
<1>4. QED
  BY <1>1, <1>2, <1>3, SpecInv, PTL DEF Spec
=============================================================================
