--------------------------- MODULE PlaybackProofs ---------------------------
(***************************************************************************)
(* What the player does in plain playback (see Playback), for any number   *)
(* of streams, any capacity of the URL FIFO, and any number of messages on *)
(* the bus.                                                                *)
(***************************************************************************)
EXTENDS StreamerProofs, Playback

-----------------------------------------------------------------------------
(* The bus *)

LEMMA PostFields ==
    ASSUME NEW g \in GstType, NEW m \in Messages
    PROVE  LET h == Post(g, m)
           IN  /\ h \in GstType /\ (Loaded(h) <=> Loaded(g))
               /\ h.state = g.state /\ h.pending = g.pending /\ h.target = g.target
               /\ h.uri = g.uri /\ h.curUri = g.curUri /\ h.heard = g.heard
               /\ h.asked = g.asked /\ h.taken = g.taken /\ h.drained = g.drained
               /\ Len(g.bus) \in Nat /\ Len(h.bus) = Len(g.bus) + 1
               /\ h.bus[Len(g.bus) + 1] = m
               /\ \A n \in 1..Len(g.bus) : h.bus[n] = g.bus[n]
               /\ \A kind : OnBus(h, kind) <=> OnBus(g, kind) \/ m[1] = kind
<1> DEFINE h == Post(g, m)
<1>1. /\ h \in GstType /\ h.bus = Append(g.bus, m)
      /\ h.state = g.state /\ h.pending = g.pending /\ h.target = g.target
      /\ h.uri = g.uri /\ h.curUri = g.curUri /\ h.heard = g.heard
      /\ h.asked = g.asked /\ h.taken = g.taken /\ h.drained = g.drained
  <2>1. h \in GstType /\ h = [g EXCEPT !.bus = Append(g.bus, m)]
    BY PostType
  <2> HIDE DEF h
  <2>2. QED
    BY <2>1 DEF GstType
<1>2. g.bus \in Seq(Messages)
  BY DEF GstType
<1> HIDE DEF h
<1>3. /\ Len(h.bus) = Len(g.bus) + 1 /\ h.bus[Len(g.bus) + 1] = m
      /\ \A n \in 1..Len(g.bus) : h.bus[n] = g.bus[n]
      /\ Len(g.bus) \in Nat
  BY <1>1, <1>2
<1>4. \A kind : OnBus(h, kind) <=> OnBus(g, kind) \/ m[1] = kind
  BY <1>3 DEF OnBus
<1>5. Loaded(h) <=> Loaded(g)
  BY <1>1 DEF Loaded, Prerolling
<1>6. QED
  BY <1>1, <1>3, <1>4, <1>5 DEF h

\* A message is posted.
LEMMA PostBus ==
    ASSUME NEW g \in GstType, NEW m \in Messages, BusOk(g), m[1] # "CLOCK_LOST",
           m[1] = "STREAM_START" =>
               /\ Loaded(g) /\ m[2] = g.curUri /\ g.heard = g.curUri
               /\ ~OnBus(g, "STREAM_START"),
           m[1] = "EOS" => Loaded(g) /\ g.drained,
           ~Loaded(g) \/ OnBus(g, "EOS") => Late(m)
    PROVE  BusOk(Post(g, m))
<1> DEFINE h == Post(g, m)
<1>1. /\ h.curUri = g.curUri /\ h.heard = g.heard /\ h.drained = g.drained
      /\ Loaded(h) <=> Loaded(g)
  BY PostFields
<1>2. /\ Len(h.bus) = Len(g.bus) + 1 /\ h.bus[Len(g.bus) + 1] = m
      /\ \A n \in 1..Len(g.bus) : h.bus[n] = g.bus[n]
      /\ Len(g.bus) \in Nat
  BY PostFields
<1> HIDE DEF h
<1>3. ASSUME NEW n \in 1..Len(h.bus)
      PROVE  \/ n \in 1..Len(g.bus) /\ h.bus[n] = g.bus[n]
             \/ n = Len(g.bus) + 1 /\ h.bus[n] = m
  BY <1>2
<1>4. ASSUME NEW n \in 1..Len(h.bus)
      PROVE  /\ h.bus[n][1] # "CLOCK_LOST"
             /\ h.bus[n][1] = "STREAM_START" =>
                  Loaded(h) /\ h.bus[n][2] = h.curUri /\ h.heard = h.curUri
             /\ h.bus[n][1] = "EOS" => Loaded(h) /\ h.drained
             /\ ~Loaded(h) => Late(h.bus[n])
  BY <1>1, <1>3 DEF BusOk
<1>5. ASSUME NEW k \in 1..Len(h.bus), NEW n \in 1..Len(h.bus)
      PROVE  /\ h.bus[k][1] = "STREAM_START" /\ h.bus[n][1] = "STREAM_START" => k = n
             /\ h.bus[k][1] = "EOS" /\ k < n => Late(h.bus[n])
  <2>1. CASE k \in 1..Len(g.bus) /\ n \in 1..Len(g.bus)
    BY <1>2, <2>1 DEF BusOk
  <2>2. CASE k \in 1..Len(g.bus) /\ n = Len(g.bus) + 1
    BY <1>2, <2>2 DEF OnBus
  <2>3. CASE k = Len(g.bus) + 1
    BY <1>2, <1>3, <2>3 DEF OnBus
  <2>4. QED
    BY <1>3, <2>1, <2>2, <2>3
<1>6. QED
  BY <1>4, <1>5 DEF BusOk, h

LEMMA TailFields ==
    ASSUME NEW g \in GstType, g.bus # <<>>
    PROVE  LET h == [g EXCEPT !.bus = Tail(@)]
           IN  /\ h \in GstType /\ (Loaded(h) <=> Loaded(g))
               /\ h.state = g.state /\ h.pending = g.pending /\ h.target = g.target
               /\ h.uri = g.uri /\ h.curUri = g.curUri /\ h.heard = g.heard
               /\ h.asked = g.asked /\ h.taken = g.taken /\ h.drained = g.drained
               /\ Len(g.bus) \in Nat \ {0} /\ Len(h.bus) = Len(g.bus) - 1
               /\ Head(g.bus) = g.bus[1] /\ g.bus[1] \in Messages
               /\ \A n \in 1..Len(h.bus) : h.bus[n] = g.bus[n + 1]
               /\ \A kind : OnBus(g, kind) <=> OnBus(h, kind) \/ g.bus[1][1] = kind
<1> DEFINE h == [g EXCEPT !.bus = Tail(@)]
<1>1. g.bus \in Seq(Messages)
  BY DEF GstType
<1>2. /\ Tail(g.bus) \in Seq(Messages) /\ Len(g.bus) \in Nat \ {0}
      /\ Len(Tail(g.bus)) = Len(g.bus) - 1 /\ Head(g.bus) = g.bus[1] /\ g.bus[1] \in Messages
      /\ \A n \in 1..Len(Tail(g.bus)) : Tail(g.bus)[n] = g.bus[n + 1]
  BY <1>1
<1>3. /\ h \in GstType /\ h.bus = Tail(g.bus)
      /\ h.state = g.state /\ h.pending = g.pending /\ h.target = g.target
      /\ h.uri = g.uri /\ h.curUri = g.curUri /\ h.heard = g.heard
      /\ h.asked = g.asked /\ h.taken = g.taken /\ h.drained = g.drained
  BY <1>2 DEF GstType
<1> HIDE DEF h
<1>4. \A kind : OnBus(g, kind) <=> OnBus(h, kind) \/ g.bus[1][1] = kind
  <2> TAKE kind
  <2>1. ASSUME OnBus(g, kind), g.bus[1][1] # kind PROVE OnBus(h, kind)
    <3>1. PICK n \in 1..Len(g.bus) : g.bus[n][1] = kind
      BY <2>1 DEF OnBus
    <3>2. n - 1 \in 1..Len(h.bus) /\ h.bus[n - 1] = g.bus[(n - 1) + 1] /\ (n - 1) + 1 = n
      BY <1>2, <1>3, <2>1, <3>1
    <3>3. QED
      BY <3>1, <3>2 DEF OnBus
  <2>2. ASSUME OnBus(h, kind) PROVE OnBus(g, kind)
    <3>1. PICK n \in 1..Len(h.bus) : h.bus[n][1] = kind
      BY <2>2 DEF OnBus
    <3>2. n + 1 \in 1..Len(g.bus) /\ h.bus[n] = g.bus[n + 1]
      BY <1>2, <1>3, <3>1
    <3>3. QED
      BY <3>1, <3>2 DEF OnBus
  <2>3. g.bus[1][1] = kind => OnBus(g, kind)
    BY <1>2 DEF OnBus
  <2>4. QED
    BY <2>1, <2>2, <2>3
<1>5. Loaded(h) <=> Loaded(g)
  BY <1>3 DEF Loaded, Prerolling
<1>6. QED
  BY <1>2, <1>3, <1>4, <1>5 DEF h

\* The first message is taken from the bus.
LEMMA TailBus ==
    ASSUME NEW g \in GstType, g.bus # <<>>, BusOk(g)
    PROVE  LET h == [g EXCEPT !.bus = Tail(@)]
           IN  /\ BusOk(h)
               /\ g.bus[1][1] = "STREAM_START" => ~OnBus(h, "STREAM_START")
               /\ g.bus[1][1] = "EOS" => \A n \in 1..Len(h.bus) : Late(h.bus[n])
<1> DEFINE h == [g EXCEPT !.bus = Tail(@)]
<1>1. /\ h.curUri = g.curUri /\ h.heard = g.heard /\ h.drained = g.drained
      /\ Loaded(h) <=> Loaded(g)
  BY TailFields
<1>2. /\ Len(g.bus) \in Nat \ {0} /\ Len(h.bus) = Len(g.bus) - 1
      /\ \A n \in 1..Len(h.bus) : h.bus[n] = g.bus[n + 1]
  BY TailFields
<1> HIDE DEF h
<1>3. \A n \in 1..Len(h.bus) : n + 1 \in 1..Len(g.bus) /\ h.bus[n] = g.bus[n + 1] /\ 1 < n + 1
  BY <1>2
<1>4. 1 \in 1..Len(g.bus)
  BY <1>2
<1>5. BusOk(h)
  <2>1. ASSUME NEW n \in 1..Len(h.bus)
        PROVE  /\ h.bus[n][1] # "CLOCK_LOST"
               /\ h.bus[n][1] = "STREAM_START" =>
                    Loaded(h) /\ h.bus[n][2] = h.curUri /\ h.heard = h.curUri
               /\ h.bus[n][1] = "EOS" => Loaded(h) /\ h.drained
               /\ ~Loaded(h) => Late(h.bus[n])
    BY <1>1, <1>3 DEF BusOk
  <2>2. ASSUME NEW m \in 1..Len(h.bus), NEW n \in 1..Len(h.bus)
        PROVE  /\ h.bus[m][1] = "STREAM_START" /\ h.bus[n][1] = "STREAM_START" => m = n
               /\ h.bus[m][1] = "EOS" /\ m < n => Late(h.bus[n])
    <3>1. /\ h.bus[m] = g.bus[m + 1] /\ h.bus[n] = g.bus[n + 1]
          /\ m + 1 \in 1..Len(g.bus) /\ n + 1 \in 1..Len(g.bus)
      BY <1>3
    <3>2. /\ g.bus[m + 1][1] = "STREAM_START" /\ g.bus[n + 1][1] = "STREAM_START" => m + 1 = n + 1
          /\ g.bus[m + 1][1] = "EOS" /\ m + 1 < n + 1 => Late(g.bus[n + 1])
      BY <3>1 DEF BusOk
    <3>3. QED
      BY <3>1, <3>2
  <2>3. QED
    BY <2>1, <2>2 DEF BusOk
<1>6. g.bus[1][1] = "STREAM_START" => ~OnBus(h, "STREAM_START")
  <2>1. SUFFICES ASSUME g.bus[1][1] = "STREAM_START", NEW n \in 1..Len(h.bus),
                        h.bus[n][1] = "STREAM_START"
                 PROVE  FALSE
    BY DEF OnBus
  <2>2. n + 1 = 1
    BY <1>3, <1>4, <2>1 DEF BusOk
  <2>3. QED
    BY <2>2
<1>7. g.bus[1][1] = "EOS" => \A n \in 1..Len(h.bus) : Late(h.bus[n])
  BY <1>3, <1>4 DEF BusOk
<1>8. QED
  BY <1>5, <1>6, <1>7 DEF h

\* Nothing has happened which the messages on the bus are about.
LEMMA SameBus ==
    ASSUME NEW g, NEW h, BusOk(g), h.bus = g.bus, Loaded(h) <=> Loaded(g),
           h.curUri = g.curUri, h.heard = g.heard, h.drained = g.drained
    PROVE  BusOk(h)
  BY DEF BusOk

-----------------------------------------------------------------------------
(* Going to PAUSED or to PLAYING *)

Active(g) == g.target \in {"PAUSED", "PLAYING"}

LEMMA LoadedIsActive ==
    ASSUME NEW g, GstOk(g), Loaded(g)
    PROVE  Active(g)
  BY DEF GstOk, Active, Loaded, Prerolling

\* gst_element_set_state() of a pipeline which is playing something.
LEMMA SteerLoaded ==
    ASSUME NEW g \in GstType, NEW t \in {"PAUSED", "PLAYING"}, GstOk(g), Loaded(g)
    PROVE  LET h == GstSetState(g, t)
           IN  /\ h \in GstType /\ Loaded(h) /\ GstOk(h)
               /\ h.state = g.state /\ h.target = t
               /\ h.uri = g.uri /\ h.curUri = g.curUri /\ h.heard = g.heard
               /\ h.asked = g.asked /\ h.taken = g.taken /\ h.drained = g.drained
               /\ h.state = "PLAYING" /\ h.pending = "VOID" => g.pending = "VOID"
               /\ \/ h.bus = g.bus
                  \/ h.bus = Append(g.bus, StateChanged("PAUSED", "PAUSED", "VOID"))
<1> DEFINE h == GstSetState(g, t)
           redirected == [g EXCEPT !.target = t, !.pending = t]
           still == [redirected EXCEPT !.pending = "VOID"]
<1>1. h \in GstType
  BY GstSetStateType DEF GstStates
<1>2. /\ t # "NULL" /\ t # "READY" /\ t # "VOID"
      /\ ~(g.state \in {"NULL", "READY"} /\ ~Prerolling(g))
  BY DEF Loaded, Prerolling
<1>3. h = CASE g.pending = "VOID" /\ g.state = t -> [g EXCEPT !.target = t]
            [] g.state = "PAUSED" /\ g.pending = "PLAYING" /\ t = "PAUSED" ->
                 Post(still, StateChanged("PAUSED", "PAUSED", "VOID"))
            [] OTHER -> redirected
  BY <1>2 DEF GstSetState, SetActive
<1>4. CASE g.pending = "VOID" /\ g.state = t
  <2>1. h = [g EXCEPT !.target = t]
    BY <1>3, <1>4
  <2> HIDE DEF h
  <2>2. /\ h.state = g.state /\ h.target = t /\ h.pending = g.pending
        /\ h.uri = g.uri /\ h.curUri = g.curUri /\ h.heard = g.heard
        /\ h.asked = g.asked /\ h.taken = g.taken /\ h.drained = g.drained /\ h.bus = g.bus
    BY <2>1 DEF GstType
  <2>3. QED
    BY <1>1, <1>4, <2>2 DEF GstOk, Loaded, Prerolling, h
<1>5. CASE ~(g.pending = "VOID" /\ g.state = t) /\
           ~(g.state = "PAUSED" /\ g.pending = "PLAYING" /\ t = "PAUSED")
  <2>1. h = redirected
    BY <1>3, <1>5
  <2> HIDE DEF h
  <2>2. /\ h.state = g.state /\ h.target = t /\ h.pending = t
        /\ h.uri = g.uri /\ h.curUri = g.curUri /\ h.heard = g.heard
        /\ h.asked = g.asked /\ h.taken = g.taken /\ h.drained = g.drained /\ h.bus = g.bus
    BY <2>1 DEF GstType
  <2>3. QED
    BY <1>1, <1>2, <2>2 DEF GstOk, Loaded, Prerolling, h
<1>6. CASE g.state = "PAUSED" /\ g.pending = "PLAYING" /\ t = "PAUSED"
  <2>1. h = Post(still, StateChanged("PAUSED", "PAUSED", "VOID"))
    BY <1>3, <1>6
  <2> HIDE DEF h
  <2>2. /\ h.state = g.state /\ h.target = t /\ h.pending = "VOID"
        /\ h.uri = g.uri /\ h.curUri = g.curUri /\ h.heard = g.heard
        /\ h.asked = g.asked /\ h.taken = g.taken /\ h.drained = g.drained
        /\ h.bus = Append(g.bus, StateChanged("PAUSED", "PAUSED", "VOID"))
    BY <2>1 DEF GstType, Post
  <2>3. QED
    BY <1>1, <1>6, <2>2 DEF GstOk, Loaded, Prerolling, h
<1>7. QED
  BY <1>4, <1>5, <1>6

\* And of one which has failed to open its URI.
LEMMA SteerUnopened ==
    ASSUME NEW g \in GstType, NEW t \in {"PAUSED", "PLAYING"},
           GstOk(g), ~Loaded(g), g.state = "READY", g.uri \in Unopenable
    PROVE  LET h == GstSetState(g, t)
           IN  /\ h \in GstType /\ ~Loaded(h) /\ GstOk(h)
               /\ h.state = "READY" /\ h.target = t /\ h.pending = "VOID"
               /\ h.uri = g.uri /\ h.curUri = g.curUri /\ h.heard = g.heard
               /\ h.drained = g.drained /\ h.bus = g.bus
<1> DEFINE h == GstSetState(g, t)
           load == [Unload(g) EXCEPT !.state = "READY", !.target = t, !.curUri = g.uri]
<1>1. h \in GstType
  BY GstSetStateType DEF GstStates
<1>2. t # "NULL" /\ t # "READY" /\ ~Prerolling(g)
  BY DEF Loaded
<1>3. h = [load EXCEPT !.pending = "VOID"]
  BY <1>2 DEF GstSetState, SetActive, LeaveReady
<1> HIDE DEF h
<1>4. /\ h.state = "READY" /\ h.target = t /\ h.pending = "VOID"
      /\ h.uri = g.uri /\ h.curUri = g.uri /\ h.heard = NoUri /\ h.drained = FALSE
      /\ h.bus = g.bus
  BY <1>3 DEF GstType, Unload
<1>5. g.curUri = g.uri /\ g.heard = NoUri /\ g.drained = FALSE
  BY DEF GstOk, GstType
<1>6. QED
  BY <1>1, <1>4, <1>5 DEF GstOk, Loaded, Prerolling, h
-----------------------------------------------------------------------------
(* Steps which leave the streams alone *)

\* What the phases of playback are about, except for the pipeline itself.
Alike(S, T) ==
    /\ T.pl.cur = S.pl.cur /\ T.pl.protected = S.pl.protected /\ T.fifo = S.fifo
    /\ T.item = S.item /\ T.calls = S.calls /\ T.skip = S.skip /\ T.client = S.client

LEMMA AlikePlain ==
    ASSUME NEW S, NEW T, Plain(S), Alike(S, T),
           RestartOk(S.pl.cur, S.fifo, S.item, T.gst), GstOk(T.gst), BusOk(T.gst),
           PhaseOk(S.pl.cur, S.pl.protected, S.fifo, S.item, T.gst, S.client.owed),
           AskedOk(T.ctl, T.pl.buf, T.pl.cur, T.idle, T.gst),
           WatchedOk(T.watcher, T.gst),
           BoostOk(T.pl.cur, T.item, T.pl.buf, T.gst, T.threads),
           CleanOk(T.gst, T.bug)
    PROVE  Plain(T)
  BY DEF Plain, Core, Alike

\* A pipeline in motion is redirected, or it is not.
LEMMA SteerPlain ==
    ASSUME NEW S \in State, NEW T \in State, NEW t \in {"PAUSED", "PLAYING"},
           Plain(S), Active(S.gst), Alike(S, T),
           T.gst = S.gst \/ T.gst = GstSetState(S.gst, t),
           T.watcher = S.watcher,
           T.ctl.activated, T.ctl.status # "STOPPED",
           T.ctl.status = "PLAYING" =>
               IsBuffering(T.pl.buf) \/ T.gst.target = "PLAYING" \/ T.idle > 0,
           LocalFiles => ~IsBuffering(T.pl.buf) /\ (S.threads.boosted => T.threads.boosted),
           NoErrors => T.bug \cap Fatal = {}
    PROVE  Plain(T) /\ Active(T.gst)
<1> DEFINE g == S.gst
           h == T.gst
           m == StateChanged("PAUSED", "PAUSED", "VOID")
<1>1. /\ g \in GstType /\ GstOk(g) /\ BusOk(g) /\ WatchedOk(S.watcher, g) /\ CleanOk(g, S.bug)
      /\ PhaseOk(S.pl.cur, S.pl.protected, S.fifo, S.item, g, S.client.owed)
      /\ RestartOk(S.pl.cur, S.fifo, S.item, g)
      /\ BoostOk(S.pl.cur, S.item, S.pl.buf, g, S.threads)
  BY DEF State, Plain, Core
<1>2. /\ m \in Messages /\ m[1] = "STATE_CHANGED" /\ Late(m) /\ ~Downward(m) /\ ~ArrivalInPlaying(m)
  BY MessageTypes DEF StateChanged, Late, Downward, ArrivalInPlaying, GstStates
<1>3. ASSUME h = g PROVE Plain(T) /\ Active(h)
  <2>1. BoostOk(T.pl.cur, T.item, T.pl.buf, h, T.threads)
    BY <1>1, <1>3 DEF BoostOk, Alike
  <2>2. AskedOk(T.ctl, T.pl.buf, T.pl.cur, T.idle, h)
    BY DEF AskedOk
  <2>3. CleanOk(h, T.bug) /\ WatchedOk(T.watcher, h)
    BY <1>1, <1>3 DEF CleanOk
  <2>4. QED
    BY <1>1, <1>3, <2>1, <2>2, <2>3, AlikePlain
<1>4. ASSUME /\ GstOk(h) /\ BusOk(h) /\ (Loaded(h) <=> Loaded(g)) /\ h.target = t
             /\ h.uri = g.uri /\ h.curUri = g.curUri /\ h.heard = g.heard
             /\ ~Loaded(g) => h.state = "READY"
             /\ WatchedOk(S.watcher, h)
             /\ \A kind : kind # "STATE_CHANGED" => (OnBus(h, kind) <=> OnBus(g, kind))
      PROVE  Plain(T) /\ Active(h)
  <2>1. PhaseOk(S.pl.cur, S.pl.protected, S.fifo, S.item, h, S.client.owed)
    <3>1. CASE Loaded(g)
      <4>1. First(S.pl.cur, S.fifo, S.item, g, S.client.owed) =>
              First(S.pl.cur, S.fifo, S.item, h, S.client.owed)
        BY <1>4 DEF First
      <4>2. Steady(S.pl.cur, S.fifo, S.item, g, S.client.owed) =>
              Steady(S.pl.cur, S.fifo, S.item, h, S.client.owed)
        BY <1>4 DEF Steady
      <4>3. Ahead(S.pl.cur, S.fifo, S.item, g, S.client.owed) =>
              Ahead(S.pl.cur, S.fifo, S.item, h, S.client.owed)
        BY <1>4 DEF Ahead
      <4>4. QED
        BY <1>1, <1>4, <3>1, <4>1, <4>2, <4>3 DEF PhaseOk
    <3>2. CASE ~Loaded(g)
      <4>1. Unopened(S.pl.cur, S.fifo, S.item, g)
        BY <1>1, <3>2 DEF PhaseOk, Resting, Active
      <4>2. Unopened(S.pl.cur, S.fifo, S.item, h)
        BY <1>4, <3>2, <4>1 DEF Unopened
      <4>3. QED
        BY <1>4, <3>2, <4>2 DEF PhaseOk
    <3>3. QED
      BY <3>1, <3>2
  <2>2. RestartOk(S.pl.cur, S.fifo, S.item, h)
    BY <1>1, <1>4 DEF RestartOk
  <2>3. BoostOk(T.pl.cur, T.item, T.pl.buf, h, T.threads)
    BY <1>1, <1>4 DEF BoostOk, Alike
  <2>4. AskedOk(T.ctl, T.pl.buf, T.pl.cur, T.idle, h)
    BY DEF AskedOk
  <2>5. CleanOk(h, T.bug)
    BY <1>1, <1>4 DEF CleanOk
  <2>6. Active(h)
    BY <1>4 DEF Active
  <2>7. WatchedOk(T.watcher, h)
    BY <1>4
  <2>8. QED
    BY <1>4, <2>1, <2>2, <2>3, <2>4, <2>5, <2>6, <2>7, AlikePlain
<1>5. ASSUME h = GstSetState(g, t), Loaded(g) PROVE Plain(T) /\ Active(h)
  <2>1. /\ h \in GstType /\ Loaded(h) /\ GstOk(h)
        /\ h.state = g.state /\ h.target = t
        /\ h.uri = g.uri /\ h.curUri = g.curUri /\ h.heard = g.heard /\ h.drained = g.drained
        /\ h.state = "PLAYING" /\ h.pending = "VOID" => g.pending = "VOID"
        /\ h.bus = g.bus \/ h.bus = Append(g.bus, m)
    BY <1>1, <1>5, SteerLoaded
  <2> HIDE DEF g, h, m
  <2>2. CASE h.bus = g.bus
    <3>1. BusOk(h) /\ \A kind : OnBus(h, kind) <=> OnBus(g, kind)
      BY <1>1, <1>5, <2>1, <2>2, SameBus DEF OnBus
    <3>2. WatchedOk(S.watcher, h)
      BY <1>1, <1>5, <2>1, <2>2 DEF WatchedOk
    <3>3. QED
      BY <1>4, <1>5, <2>1, <3>1, <3>2 DEF h
  <2>3. CASE h.bus = Append(g.bus, m)
    <3> DEFINE p == Post(g, m)
    <3>0. p.bus = h.bus
      <4>1. p = [g EXCEPT !.bus = Append(g.bus, m)]
        BY <1>1, <1>2, PostType
      <4> HIDE DEF p
      <4>2. QED
        BY <1>1, <2>3, <4>1 DEF GstType
    <3>1. /\ p \in GstType /\ (Loaded(p) <=> Loaded(g)) /\ p.bus = h.bus
          /\ p.curUri = g.curUri /\ p.heard = g.heard /\ p.drained = g.drained
          /\ \A kind : OnBus(p, kind) <=> OnBus(g, kind) \/ m[1] = kind
          /\ Len(g.bus) \in Nat /\ Len(p.bus) = Len(g.bus) + 1
          /\ p.bus[Len(g.bus) + 1] = m
          /\ \A n \in 1..Len(g.bus) : p.bus[n] = g.bus[n]
      BY <1>1, <1>2, <3>0, PostFields
    <3>2. BusOk(p)
      BY <1>1, <1>2, PostBus
    <3> HIDE DEF p
    <3>3. BusOk(h) /\ \A kind : OnBus(h, kind) <=> OnBus(p, kind)
      BY <1>5, <2>1, <3>1, <3>2, SameBus DEF OnBus
    <3>4. WatchedOk(S.watcher, h)
      BY <1>1, <1>2, <1>5, <2>1, <3>1, SMTT(30) DEF WatchedOk
    <3>5. \A kind : kind # "STATE_CHANGED" => (OnBus(h, kind) <=> OnBus(g, kind))
      BY <1>2, <3>1, <3>3
    <3>6. QED
      BY <1>4, <1>5, <2>1, <3>3, <3>4, <3>5 DEF h
  <2>4. QED
    BY <2>1, <2>2, <2>3
<1>6. ASSUME h = GstSetState(g, t), ~Loaded(g) PROVE Plain(T) /\ Active(h)
  <2>1. Unopened(S.pl.cur, S.fifo, S.item, g)
    BY <1>1, <1>6 DEF PhaseOk, Resting, Active
  <2>2. g.state = "READY" /\ g.uri \in Unopenable
    BY <2>1 DEF Unopened
  <2>3. /\ h \in GstType /\ ~Loaded(h) /\ GstOk(h)
        /\ h.state = "READY" /\ h.target = t /\ h.pending = "VOID"
        /\ h.uri = g.uri /\ h.curUri = g.curUri /\ h.heard = g.heard
        /\ h.drained = g.drained /\ h.bus = g.bus
    BY <1>1, <1>6, <2>2, SteerUnopened
  <2> HIDE DEF g, h
  <2>4. BusOk(h) /\ \A kind : OnBus(h, kind) <=> OnBus(g, kind)
    BY <1>1, <1>6, <2>3, SameBus DEF OnBus
  <2>5. WatchedOk(S.watcher, h)
    BY <1>1, <1>6, <2>3 DEF WatchedOk
  <2>6. QED
    BY <1>4, <1>6, <2>3, <2>4, <2>5 DEF h
<1>7. QED
  BY <1>3, <1>5, <1>6

-----------------------------------------------------------------------------
(* Buffering, while the pipeline is active *)

\* The step changes the pipeline's target, what is known about the buffer, and the threads.
Steered(S, T) ==
    /\ Plain(T) /\ Active(T.gst) /\ Alike(S, T)
    /\ T.watcher = S.watcher /\ T.ctl = S.ctl /\ T.idle = S.idle

LEMMA ActiveFacts ==
    ASSUME NEW S \in State, Plain(S), Active(S.gst)
    PROVE  /\ S.pl.cur \in Streams /\ S.pl.cur # None
           /\ S.ctl.activated /\ S.ctl.status # "STOPPED"
           /\ S.ctl.status = "PLAYING" =>
                IsBuffering(S.pl.buf) \/ S.gst.target = "PLAYING" \/ S.idle > 0
           /\ LocalFiles => ~IsBuffering(S.pl.buf)
           /\ NoErrors => S.bug \cap Fatal = {}
<1>1. S.pl.cur # None
  BY DEF Plain, Core, PhaseOk, Unopened, Resting, Active
<1>2. S.pl.cur \in Streams
  BY <1>1 DEF State, PlType
<1>3. LocalFiles => ~IsBuffering(S.pl.buf)
  BY DEF Plain, Core, BoostOk
<1>4. NoErrors => S.bug \cap Fatal = {}
  BY DEF Plain, Core, CleanOk
<1>5. QED
  BY <1>1, <1>2, <1>3, <1>4 DEF Plain, AskedOk, Active

LEMMA BufPlain ==
    ASSUME NEW S \in State, NEW b \in BufType, Plain(S), Active(S.gst),
           IsBuffering(b) <=> IsBuffering(S.pl.buf)
    PROVE  Steered(S, [S EXCEPT !.pl.buf = b])
<1> DEFINE T == [S EXCEPT !.pl.buf = b]
<1>1. /\ T \in State /\ T.pl.buf = b /\ Alike(S, T) /\ T.gst = S.gst /\ T.watcher = S.watcher
      /\ T.ctl = S.ctl /\ T.idle = S.idle /\ T.threads = S.threads /\ T.bug = S.bug
  BY DEF State, PlType, Alike
<1> HIDE DEF T
<1>2. Plain(T) /\ Active(T.gst)
  BY <1>1, ActiveFacts, SteerPlain
<1>3. QED
  BY <1>1, <1>2 DEF Steered, T

LEMMA TryLeavePlain ==
    ASSUME NEW S \in State, NEW b \in BufType, Plain(S), Active(S.gst),
           IsBuffering(b) <=> IsBuffering(S.pl.buf)
    PROVE  Steered(S, TryLeaveBufferingState([S EXCEPT !.pl.buf = b]))
<1> DEFINE R == [S EXCEPT !.pl.buf = b]
           T == TryLeaveBufferingState(R)
           left == Boost([R EXCEPT !.pl.buf = LeaveBuffering(@)], R.item[R.pl.cur].realtime)
<1>1. /\ R.pl.buf = b /\ Alike(S, R) /\ R.gst = S.gst /\ R.watcher = S.watcher
      /\ R.ctl = S.ctl /\ R.idle = S.idle /\ R.threads = S.threads /\ R.bug = S.bug
  BY DEF State, PlType, Alike
<1>2. R.pl.cur # None
  BY <1>1, ActiveFacts DEF Alike
<1>3. CASE ~BufferFilled(b)
  <2>1. T = R
    BY <1>1, <1>3 DEF TryLeaveBufferingState
  <2>2. QED
    BY <2>1, BufPlain
<1>4. CASE BufferFilled(b)
  <2>1. T = IF R.ctl.status = "PLAYING" THEN SetStreamState(left, "PLAYING") ELSE left
    BY <1>1, <1>2, <1>4 DEF TryLeaveBufferingState
  <2>2. T \in State
    BY LeaveAside DEF Aside
  <2>3. /\ Alike(S, left) /\ left.gst = S.gst /\ left.watcher = S.watcher
        /\ left.ctl = S.ctl /\ left.idle = S.idle /\ left.bug = S.bug
        /\ left \in State
    <3> DEFINE Q == [R EXCEPT !.pl.buf = LeaveBuffering(@)]
    <3>0. LeaveBuffering(b) \in BufType
      BY DEF BufType, LeaveBuffering, BufferingStates
    <3>1. /\ Alike(S, Q) /\ Q.gst = S.gst /\ Q.watcher = S.watcher
          /\ Q.ctl = S.ctl /\ Q.idle = S.idle /\ Q.bug = S.bug /\ Q \in State
      BY <3>0 DEF State, PlType, Alike
    <3> HIDE DEF Q
    <3>2. BT!Boost(Q.threads) \in ThreadsType
      BY <3>1, BoostThreads DEF State
    <3>3. CASE R.item[R.pl.cur].realtime
      <4>1. left = [Q EXCEPT !.threads = BT!Boost(@)]
        BY <3>3 DEF Boost, Q
      <4> HIDE DEF left
      <4>2. QED
        BY <3>1, <3>2, <4>1 DEF State, Alike
    <3>4. CASE ~R.item[R.pl.cur].realtime
      <4>1. left = Q
        BY <3>4 DEF Boost, Q
      <4>2. QED
        BY <3>1, <4>1
    <3>5. QED
      BY <3>3, <3>4
  <2>4. ~LocalFiles
    BY <1>4, ActiveFacts DEF BufferFilled, IsBuffering
  <2> HIDE DEF left, R, T
  <2>5. CASE R.ctl.status = "PLAYING"
    <3>1. T = [left EXCEPT !.gst = GstSetState(@, "PLAYING")]
      BY <2>1, <2>5 DEF SetStreamState
    <3>2. /\ Alike(S, T) /\ T.gst = GstSetState(S.gst, "PLAYING") /\ T.watcher = S.watcher
          /\ T.ctl = S.ctl /\ T.idle = S.idle /\ T.bug = S.bug
      BY <2>3, <3>1 DEF State, Alike
    <3>3. T.gst.target = "PLAYING"
      <4>1. S.gst \in GstType /\ GstOk(S.gst)
        BY DEF State, Plain, Core
      <4>2. ~Loaded(S.gst) => S.gst.state = "READY" /\ S.gst.uri \in Unopenable
        BY DEF Plain, Core, PhaseOk, Unopened, Resting, Active
      <4>3. QED
        BY <3>2, <4>1, <4>2, SteerLoaded, SteerUnopened
    <3>4. Plain(T) /\ Active(T.gst)
      BY <2>2, <2>4, <3>2, <3>3, ActiveFacts, SteerPlain
    <3>5. QED
      BY <3>2, <3>4 DEF Steered, T, R
  <2>6. CASE R.ctl.status # "PLAYING"
    <3>1. T = left
      BY <2>1, <2>6
    <3>2. Plain(T) /\ Active(T.gst)
      BY <1>1, <2>2, <2>3, <2>4, <2>6, <3>1, ActiveFacts, SteerPlain
    <3>3. QED
      BY <2>3, <3>1, <3>2 DEF Steered, T, R
  <2>7. QED
    BY <2>5, <2>6
<1>5. QED
  BY <1>3, <1>4

LEMMA EnterPausePlain ==
    ASSUME NEW S \in State, Plain(S), Active(S.gst)
    PROVE  Steered(S, EnterPause(S)) /\ EnterPause(S) \in State
<1>0. EnterPause(S) \in State
  BY EnterPauseAside DEF Aside
<1>1. CASE IsBuffering(S.pl.buf)
  <2> DEFINE b == EnteredPause(S.pl.buf)
  <2>1. S.pl.buf \in BufType
    BY DEF State, PlType
  <2>2. b \in BufType /\ IsBuffering(b)
    BY <1>1, <2>1 DEF BufType, EnteredPause, BufferingStates, IsBuffering
  <2>3. EnterPause(S) = TryLeaveBufferingState([S EXCEPT !.pl.buf = b])
    BY <1>1 DEF EnterPause
  <2> HIDE DEF b
  <2>4. QED
    BY <1>0, <1>1, <2>2, <2>3, TryLeavePlain
<1>2. CASE ~IsBuffering(S.pl.buf)
  <2>1. EnterPause(S) = S
    BY <1>2 DEF EnterPause
  <2>2. QED
    BY <2>1 DEF Steered, Alike
<1>3. QED
  BY <1>1, <1>2

\* The player begins to wait for its buffer.
LEMMA BeginPlain ==
    ASSUME NEW S \in State, NEW U \in State, NEW st \in BufferingStates \ {"NOT_BUFFERING"},
           Plain(S), Active(S.gst), ~LocalFiles, Alike(S, U),
           U.gst = S.gst \/ U.gst = GstSetState(S.gst, "PAUSED"),
           U.watcher = S.watcher, U.ctl = S.ctl, U.idle = S.idle,
           U.bug \ {"SUPPOSED_STATUS"} \subseteq S.bug
    PROVE  Steered(S, [Throttle(U) EXCEPT !.pl.buf = StartBuffering(@, st)])
<1> DEFINE Q == Throttle(U)
           T == [Q EXCEPT !.pl.buf = StartBuffering(@, st)]
<1>1. /\ Q \in State /\ Alike(S, Q) /\ Q.gst = U.gst /\ Q.watcher = S.watcher
      /\ Q.ctl = S.ctl /\ Q.idle = S.idle /\ Q.bug = U.bug
  <2>1. BT!Throttle(U.threads) \in ThreadsType
    BY ThrottleThreads DEF State
  <2>2. Q = [U EXCEPT !.threads = BT!Throttle(@)]
    BY DEF Throttle
  <2> HIDE DEF Q
  <2>3. QED
    BY <2>1, <2>2 DEF State, Alike
<1> HIDE DEF Q
<1>2. StartBuffering(Q.pl.buf, st) \in BufType /\ IsBuffering(StartBuffering(Q.pl.buf, st))
  BY <1>1 DEF State, PlType, BufType, StartBuffering, IsBuffering
<1>3. /\ T \in State /\ Alike(S, T) /\ T.gst = U.gst /\ T.watcher = S.watcher
      /\ T.ctl = S.ctl /\ T.idle = S.idle /\ T.bug = U.bug /\ IsBuffering(T.pl.buf)
  BY <1>1, <1>2 DEF State, PlType, Alike
<1> HIDE DEF T
<1>4. NoErrors => T.bug \cap Fatal = {}
  BY <1>3, ActiveFacts DEF Fatal
<1>5. Plain(T) /\ Active(T.gst)
  BY <1>3, <1>4, ActiveFacts, SteerPlain
<1>6. QED
  BY <1>3, <1>5 DEF Steered, T, Q

LEMMA HandleBufferUnderrunPlain ==
    ASSUME NEW S \in State, Plain(S), Active(S.gst), ~LocalFiles
    PROVE  Steered(S, HandleBufferUnderrun(S))
<1> DEFINE blame == IF S.ctl.status = S.gst.target THEN S ELSE Bug(S, "SUPPOSED_STATUS")
           paused == SetStreamState(blame, "PAUSED")
           begin(T, st) == [Throttle(T) EXCEPT !.pl.buf = StartBuffering(@, st)]
<1>1. CASE IsBuffering(S.pl.buf)
  <2>1. HandleBufferUnderrun(S) = S
    BY <1>1 DEF HandleBufferUnderrun
  <2>2. QED
    BY <2>1 DEF Steered, Alike
<1>2. CASE ~IsBuffering(S.pl.buf)
  <2>1. /\ blame \in State /\ Alike(S, blame) /\ blame.gst = S.gst /\ blame.watcher = S.watcher
        /\ blame.ctl = S.ctl /\ blame.idle = S.idle
        /\ blame.bug \ {"SUPPOSED_STATUS"} \subseteq S.bug
    BY DEF State, Bug, BugNames, Alike
  <2>2. /\ paused \in State /\ Alike(S, paused) /\ paused.gst = GstSetState(S.gst, "PAUSED")
        /\ paused.watcher = S.watcher /\ paused.ctl = S.ctl /\ paused.idle = S.idle
        /\ paused.bug \ {"SUPPOSED_STATUS"} \subseteq S.bug
    <3> HIDE DEF blame
    <3>1. GstSetState(blame.gst, "PAUSED") \in GstType
      BY <2>1, GstSetStateType DEF State, GstStates
    <3>2. paused = [blame EXCEPT !.gst = GstSetState(@, "PAUSED")]
      BY DEF SetStreamState
    <3> HIDE DEF paused
    <3>3. QED
      BY <2>1, <3>1, <3>2 DEF State, Alike
  <2>3. \E st \in BufferingStates \ {"NOT_BUFFERING"}, U \in {blame, paused} :
            HandleBufferUnderrun(S) = begin(U, st)
    <3>1. \/ HandleBufferUnderrun(S) = begin(blame, "PAUSED_FOR_BUFFERING")
          \/ HandleBufferUnderrun(S) = begin(paused, "PAUSED_PENDING")
          \/ HandleBufferUnderrun(S) = begin(blame, "PAUSED_PIGGYBACK")
          \/ HandleBufferUnderrun(S) = begin(blame, "PAUSED_PENDING")
      BY <1>2 DEF HandleBufferUnderrun, Active
    <3>2. {"PAUSED_FOR_BUFFERING", "PAUSED_PENDING", "PAUSED_PIGGYBACK"}
            = BufferingStates \ {"NOT_BUFFERING"}
      BY DEF BufferingStates
    <3> HIDE DEF begin, blame, paused
    <3>3. QED
      BY <3>1, <3>2
  <2> HIDE DEF blame, paused
  <2>4. QED
    BY <2>1, <2>2, <2>3, BeginPlain
<1>3. QED
  BY <1>1, <1>2

LEMMA SteeredTrans ==
    ASSUME NEW S, NEW T, NEW U, Steered(S, T), Steered(T, U)
    PROVE  Steered(S, U)
  BY DEF Steered, Alike

LEMMA DoEncourageBufferingPlain ==
    ASSUME NEW S \in State, Plain(S), Active(S.gst)
    PROVE  Steered(S, DoEncourageBuffering(S)) /\ DoEncourageBuffering(S) \in State
<1>0. DoEncourageBuffering(S) \in State
  BY DoEncourageBufferingAside DEF Aside
<1>1. S.pl.cur # None
  BY ActiveFacts
<1>2. CASE S.pl.cur \notin Network
  <2>1. DoEncourageBuffering(S) = S
    BY <1>1, <1>2 DEF DoEncourageBuffering
  <2>2. QED
    BY <2>1 DEF Steered, Alike
<1>3. CASE S.pl.cur \in Network
  <2> DEFINE b == SetBufferLevel(S.pl.buf, "0")
             R == [S EXCEPT !.pl.buf = b]
  <2>1. ~LocalFiles
    BY <1>3 DEF LocalFiles
  <2>2. S.pl.buf \in BufType
    BY DEF State, PlType
  <2>3. b \in BufType /\ (IsBuffering(b) <=> IsBuffering(S.pl.buf))
    BY <2>2, LevelType
  <2>4. DoEncourageBuffering(S) = HandleBufferUnderrun(R)
    BY <1>1, <1>3 DEF DoEncourageBuffering
  <2> HIDE DEF b
  <2>5. R \in State
    BY <2>3 DEF State, PlType
  <2>6. Steered(S, R)
    BY <2>3, BufPlain
  <2>7. Steered(R, HandleBufferUnderrun(R))
    BY <2>1, <2>5, <2>6, HandleBufferUnderrunPlain DEF Steered
  <2>8. QED
    BY <1>0, <2>4, <2>6, <2>7, SteeredTrans
<1>4. QED
  BY <1>2, <1>3

LEMMA HandleBufferingPlain ==
    ASSUME NEW S \in State, NEW percent, Plain(S), Active(S.gst), ~LocalFiles
    PROVE  Steered(S, HandleBuffering(S, percent))
<1> DEFINE b == SetBufferLevel(S.pl.buf, percent)
           level == [S EXCEPT !.pl.buf = b]
<1>1. S.ctl.status # "STOPPED"
  BY ActiveFacts
<1>2. b \in BufType /\ (IsBuffering(b) <=> IsBuffering(S.pl.buf))
  BY LevelType DEF State, PlType
<1>3. HandleBuffering(S, percent) \in
        {TryLeaveBufferingState(level), HandleBufferUnderrun(level), level}
  BY <1>1 DEF HandleBuffering
<1> HIDE DEF b
<1>4. Steered(S, TryLeaveBufferingState(level))
  BY <1>2, TryLeavePlain
<1>5. Steered(S, level) /\ level \in State
  BY <1>2, BufPlain DEF State, PlType
<1>6. Steered(level, HandleBufferUnderrun(level))
  BY <1>5, HandleBufferUnderrunPlain DEF Steered
<1>7. Steered(S, HandleBufferUnderrun(level))
  BY <1>5, <1>6, SteeredTrans
<1>8. QED
  BY <1>3, <1>4, <1>5, <1>7

-----------------------------------------------------------------------------
(* A message is taken from the bus *)

Taken(S) == [S EXCEPT !.gst.bus = Tail(@)]

LEMMA TakenFields ==
    ASSUME NEW S \in State, S.gst.bus # <<>>
    PROVE  LET R == Taken(S)
           IN  /\ R \in State /\ R.gst = [S.gst EXCEPT !.bus = Tail(@)]
               /\ R.ctl = S.ctl /\ R.pl = S.pl /\ R.watcher = S.watcher /\ R.fail = S.fail
               /\ R.fifo = S.fifo /\ R.item = S.item /\ R.calls = S.calls /\ R.idle = S.idle
               /\ R.skip = S.skip /\ R.threads = S.threads /\ R.client = S.client
               /\ R.bug = S.bug
<1>1. [S.gst EXCEPT !.bus = Tail(@)] \in GstType
  BY TailFields DEF State
<1>2. Taken(S) = [S EXCEPT !.gst = [S.gst EXCEPT !.bus = Tail(@)]]
  BY DEF Taken, State
<1>3. QED
  BY <1>1, <1>2 DEF State

\* What is not about the messages themselves.
LEMMA TakenCore ==
    ASSUME NEW S \in State, Plain(S), S.gst.bus # <<>>
    PROVE  LET R == Taken(S)
           IN  /\ ItemsPlain(R.item) /\ QueuePlain(R.pl.cur, R.fifo, R.client.owed)
               /\ R.calls = {} /\ ~R.skip
               /\ RestartOk(R.pl.cur, R.fifo, R.item, R.gst)
               /\ GstOk(R.gst) /\ BusOk(R.gst)
               /\ BoostOk(R.pl.cur, R.item, R.pl.buf, R.gst, R.threads)
               /\ CleanOk(R.gst, R.bug)
               /\ S.gst.bus[1][1] # "STREAM_START" => Core(R)
<1> DEFINE R == Taken(S)
           g == S.gst
           h == R.gst
<1>1. /\ g \in GstType
      /\ R.pl = S.pl /\ R.fifo = S.fifo /\ R.item = S.item /\ R.calls = S.calls
      /\ R.skip = S.skip /\ R.threads = S.threads /\ R.client = S.client /\ R.bug = S.bug
      /\ h = [g EXCEPT !.bus = Tail(@)]
  BY TakenFields DEF State
<1> HIDE DEF R, h
<1>2. /\ Loaded(h) <=> Loaded(g)
      /\ h.state = g.state /\ h.pending = g.pending /\ h.target = g.target
      /\ h.uri = g.uri /\ h.curUri = g.curUri /\ h.heard = g.heard
      /\ h.asked = g.asked /\ h.drained = g.drained
      /\ \A kind : OnBus(g, kind) <=> OnBus(h, kind) \/ g.bus[1][1] = kind
  BY <1>1, TailFields
<1>3. BusOk(h)
  BY <1>1, TailBus DEF Plain, Core
<1>4. GstOk(h)
  BY <1>2 DEF Plain, Core, GstOk
<1>5. RestartOk(R.pl.cur, R.fifo, R.item, h)
  BY <1>1, <1>2 DEF Plain, Core, RestartOk
<1>6. BoostOk(R.pl.cur, R.item, R.pl.buf, h, R.threads)
  BY <1>1, <1>2 DEF Plain, Core, BoostOk
<1>7. CleanOk(h, R.bug)
  BY <1>1, <1>2 DEF Plain, Core, CleanOk
<1>8. ASSUME g.bus[1][1] # "STREAM_START"
      PROVE  PhaseOk(R.pl.cur, R.pl.protected, R.fifo, R.item, h, R.client.owed)
  <2> DEFINE c == S.pl.cur
             f == S.fifo
             it == S.item
             o == S.client.owed
  <2>1. OnBus(g, "STREAM_START") <=> OnBus(h, "STREAM_START")
    BY <1>2, <1>8
  <2>2. First(c, f, it, g, o) => First(c, f, it, h, o)
    BY <1>2, <2>1 DEF First
  <2>3. Steady(c, f, it, g, o) => Steady(c, f, it, h, o)
    BY <1>2, <2>1 DEF Steady
  <2>4. Ahead(c, f, it, g, o) => Ahead(c, f, it, h, o)
    BY <1>2, <2>1 DEF Ahead
  <2>5. Unopened(c, f, it, g) => Unopened(c, f, it, h)
    BY <1>2 DEF Unopened
  <2>6. Resting(c, S.pl.protected, f, it, g, o) => Resting(c, S.pl.protected, f, it, h, o)
    BY <1>2 DEF Resting
  <2>7. PhaseOk(c, S.pl.protected, f, it, g, o)
    BY DEF Plain, Core
  <2>8. PhaseOk(c, S.pl.protected, f, it, h, o)
    BY <1>2, <2>2, <2>3, <2>4, <2>5, <2>6, <2>7 DEF PhaseOk
  <2>9. QED
    BY <1>1, <2>8
<1>9. ItemsPlain(R.item) /\ QueuePlain(R.pl.cur, R.fifo, R.client.owed) /\ R.calls = {} /\ ~R.skip
  BY <1>1 DEF Plain, Core
<1>10. QED
  BY <1>3, <1>4, <1>5, <1>6, <1>7, <1>8, <1>9 DEF Core, R, h

\* What the messages are waited for.
LEMMA TakenWaits ==
    ASSUME NEW S \in State, Plain(S), S.gst.bus # <<>>
    PROVE  LET R == Taken(S)
               m == S.gst.bus[1]
           IN  /\ ~Arrival(m) \/ S.gst.target # "READY" =>
                    AskedOk(R.ctl, R.pl.buf, R.pl.cur, R.idle, R.gst)
               /\ ~ArrivalInPlaying(m) \/ S.gst.state # "PLAYING" \/ S.gst.pending # "VOID" =>
                    WatchedOk(R.watcher, R.gst)
               /\ R.watcher # "GONE"
               /\ Loaded(R.gst) =>
                    \A k, n \in 1..Len(R.gst.bus) :
                        Downward(R.gst.bus[k]) /\ ArrivalInPlaying(R.gst.bus[n]) => k < n
               /\ Loaded(R.gst) /\ ArrivalInPlaying(m) =>
                    \A n \in 1..Len(R.gst.bus) : ~Downward(R.gst.bus[n])
               /\ S.gst.state = "PLAYING" /\ S.gst.pending = "VOID" =>
                    \/ \A n \in 1..Len(R.gst.bus) : ~Downward(R.gst.bus[n]) /\ ~Downward(m)
                    \/ \E n \in 1..Len(R.gst.bus) : ArrivalInPlaying(R.gst.bus[n])
<1> DEFINE R == Taken(S)
           g == S.gst
           h == R.gst
           m == g.bus[1]
<1>1. /\ g \in GstType
      /\ R.ctl = S.ctl /\ R.pl = S.pl /\ R.watcher = S.watcher /\ R.idle = S.idle
      /\ h = [g EXCEPT !.bus = Tail(@)]
  BY TakenFields DEF State
<1> HIDE DEF R, h
<1>2. /\ Loaded(h) <=> Loaded(g)
      /\ h.state = g.state /\ h.pending = g.pending /\ h.target = g.target
      /\ Len(g.bus) \in Nat \ {0} /\ Len(h.bus) = Len(g.bus) - 1
      /\ \A n \in 1..Len(h.bus) : h.bus[n] = g.bus[n + 1]
  BY <1>1, TailFields
<1>3. \A n \in 1..Len(h.bus) : n + 1 \in 1..Len(g.bus) /\ h.bus[n] = g.bus[n + 1] /\ 1 < n + 1
  BY <1>2
<1>4. \A n \in 1..Len(g.bus) : n # 1 => n - 1 \in 1..Len(h.bus) /\ h.bus[n - 1] = g.bus[n]
  <2> TAKE n \in 1..Len(g.bus)
  <2>1. SUFFICES ASSUME n # 1 PROVE n - 1 \in 1..Len(h.bus) /\ h.bus[n - 1] = g.bus[n]
    OBVIOUS
  <2>2. n - 1 \in 1..Len(h.bus) /\ (n - 1) + 1 = n
    BY <1>2, <2>1
  <2>3. QED
    BY <1>3, <2>2
<1>5. 1 \in 1..Len(g.bus)
  BY <1>2
<1>6. ASSUME ~Arrival(m) \/ g.target # "READY"
      PROVE  AskedOk(R.ctl, R.pl.buf, R.pl.cur, R.idle, h)
  <2>1. AskedOk(S.ctl, S.pl.buf, S.pl.cur, S.idle, g)
    BY DEF Plain
  <2>2. (\E k \in 1..Len(g.bus) : Arrival(g.bus[k])) /\ g.target = "READY" =>
          \E k \in 1..Len(h.bus) : Arrival(h.bus[k])
    BY <1>4, <1>6
  <2>3. QED
    BY <1>1, <1>2, <2>1, <2>2 DEF AskedOk
<1>7. WatchedOk(S.watcher, g)
  BY DEF Plain
<1>8. R.watcher # "GONE"
  BY <1>1, <1>7 DEF WatchedOk
<1>9. ASSUME Loaded(h), NEW k \in 1..Len(h.bus), NEW n \in 1..Len(h.bus),
             Downward(h.bus[k]), ArrivalInPlaying(h.bus[n])
      PROVE  k < n
  <2>1. k + 1 < n + 1
    BY <1>2, <1>3, <1>7, <1>9 DEF WatchedOk
  <2>2. QED
    BY <2>1
<1>10. ASSUME Loaded(h), ArrivalInPlaying(m), NEW n \in 1..Len(h.bus), Downward(h.bus[n])
       PROVE  FALSE
  <2>1. n + 1 < 1
    BY <1>2, <1>3, <1>5, <1>7, <1>10 DEF WatchedOk
  <2>2. QED
    BY <2>1
<1>11. ASSUME g.state = "PLAYING", g.pending = "VOID"
       PROVE  \/ \A n \in 1..Len(h.bus) : ~Downward(h.bus[n]) /\ ~Downward(m)
              \/ \E n \in 1..Len(h.bus) : ArrivalInPlaying(h.bus[n])
  <2>1. Loaded(h)
    BY <1>2, <1>11 DEF Loaded
  <2>2. CASE \A n \in 1..Len(g.bus) : ~Downward(g.bus[n])
    BY <1>3, <1>5, <2>2
  <2>3. CASE \E n \in 1..Len(g.bus) : ArrivalInPlaying(g.bus[n])
    <3>1. PICK n \in 1..Len(g.bus) : ArrivalInPlaying(g.bus[n])
      BY <2>3
    <3>2. CASE n = 1
      <4>1. ~Downward(m)
        BY <3>1, <3>2 DEF Downward, ArrivalInPlaying
      <4>2. \A k \in 1..Len(h.bus) : ~Downward(h.bus[k])
        BY <1>10, <2>1, <3>1, <3>2
      <4>3. QED
        BY <4>1, <4>2
    <3>3. CASE n # 1
      BY <1>4, <3>1, <3>3
    <3>4. QED
      BY <3>2, <3>3
  <2>4. QED
    BY <1>7, <1>11, <2>2, <2>3 DEF WatchedOk
<1>12. ASSUME ~ArrivalInPlaying(m) \/ g.state # "PLAYING" \/ g.pending # "VOID"
       PROVE  WatchedOk(R.watcher, h)
  <2>1. ASSUME h.state = "PLAYING", h.pending = "VOID"
        PROVE  \/ R.watcher = "RUNNING" /\ \A n \in 1..Len(h.bus) : ~Downward(h.bus[n])
               \/ \E n \in 1..Len(h.bus) : ArrivalInPlaying(h.bus[n])
    BY <1>1, <1>2, <1>3, <1>4, <1>7, <1>12, <2>1 DEF WatchedOk
  <2>2. QED
    BY <1>8, <1>9, <2>1 DEF WatchedOk
<1>13. QED
  BY <1>6, <1>8, <1>9, <1>10, <1>11, <1>12 DEF R, h

\* Most of the messages are not waited for.
LEMMA TakenPlain ==
    ASSUME NEW S \in State, Plain(S), S.gst.bus # <<>>,
           S.gst.bus[1][1] \notin {"STREAM_START", "STATE_CHANGED"}
    PROVE  Plain(Taken(S))
<1>1. ~Arrival(S.gst.bus[1]) /\ ~ArrivalInPlaying(S.gst.bus[1])
  BY DEF Arrival, ArrivalInPlaying
<1>2. QED
  BY <1>1, TakenCore, TakenWaits DEF Plain

-----------------------------------------------------------------------------
(* The streams to be played, in their order *)

Waiting(S) == (IF S.pl.cur \in S.client.owed THEN <<S.pl.cur>> ELSE <<>>) \o S.fifo.queue

\* The client hears at most that playback has stopped; the first streams may be gone.
Moves(S, T) ==
    /\ T.client.told \in {S.client.told, None}
    /\ \E k \in 0..Len(Waiting(S)) : Waiting(T) = SubSeq(Waiting(S), k + 1, Len(Waiting(S)))

LEMMA Suffixes ==
    ASSUME NEW q \in Seq(Streams), NEW c \in Streams
    PROVE  /\ <<c>> \o q \in Seq(Streams) /\ <<>> \o q = q
           /\ SubSeq(q, 1, Len(q)) = q
           /\ Len(<<c>> \o q) = Len(q) + 1
           /\ SubSeq(<<c>> \o q, 2, Len(q) + 1) = q
           /\ q # <<>> => /\ SubSeq(q, 2, Len(q)) = Tail(q) /\ Len(q) >= 1
                          /\ SubSeq(<<c>> \o q, 3, Len(q) + 1) = Tail(q)
                          /\ <<q[1]>> \o Tail(q) = q
<1>1. /\ <<c>> \o q \in Seq(Streams) /\ <<>> \o q = q
      /\ SubSeq(q, 1, Len(q)) = q
      /\ Len(<<c>> \o q) = Len(q) + 1
  OBVIOUS
<1>2. SubSeq(<<c>> \o q, 2, Len(q) + 1) = q
  OBVIOUS
<1>3. ASSUME q # <<>>
      PROVE  SubSeq(q, 2, Len(q)) = Tail(q) /\ Len(q) >= 1
  BY <1>3
<1>4. ASSUME q # <<>>
      PROVE  SubSeq(<<c>> \o q, 3, Len(q) + 1) = Tail(q)
  BY <1>4
<1>5. ASSUME q # <<>>
      PROVE  <<q[1]>> \o Tail(q) = q
  BY <1>5
<1>6. QED
  BY <1>1, <1>2, <1>3, <1>4, <1>5

LEMMA MovesOn ==
    ASSUME NEW S \in State, NEW T, T.client.told \in {S.client.told, None},
           \/ Waiting(T) \in {Waiting(S), S.fifo.queue}
           \/ S.fifo.queue # <<>> /\ Waiting(T) = Tail(S.fifo.queue)
    PROVE  Moves(S, T)
<1> DEFINE q == S.fifo.queue
           c == S.pl.cur
           W == Waiting(S)
<1>1. q \in Seq(Streams)
  BY FifoTypes
<1>2. S.client.owed \subseteq Streams
  BY DEF State, ClientType
<1>3. W = IF c \in S.client.owed THEN <<c>> \o q ELSE q
  <2>1. <<>> \o q = q
    BY <1>1
  <2>2. QED
    BY <2>1 DEF Waiting
<1>4. W \in Seq(Streams)
  BY <1>1, <1>2, <1>3, Suffixes
<1> HIDE DEF W
<1>5. SUFFICES \E k \in 0..Len(W) : Waiting(T) = SubSeq(W, k + 1, Len(W))
  BY DEF Moves, W
<1>6. CASE Waiting(T) = W
  <2>1. W = SubSeq(W, 0 + 1, Len(W)) /\ 0 \in 0..Len(W)
    BY <1>4
  <2>2. QED
    BY <1>6, <2>1
<1>7. CASE Waiting(T) = q
  <2>1. CASE c \in S.client.owed
    <3>1. q = SubSeq(W, 1 + 1, Len(W)) /\ 1 \in 0..Len(W)
      BY <1>1, <1>2, <1>3, <2>1, Suffixes
    <3>2. QED
      BY <1>7, <3>1
  <2>2. CASE c \notin S.client.owed
    BY <1>3, <1>6, <1>7, <2>2
  <2>3. QED
    BY <2>1, <2>2
<1>8. CASE q # <<>> /\ Waiting(T) = Tail(q)
  <2>1. CASE c \in S.client.owed
    <3>1. Tail(q) = SubSeq(W, 2 + 1, Len(W)) /\ 2 \in 0..Len(W)
      <4>1. Len(W) = Len(q) + 1 /\ Len(q) \in Nat /\ Len(q) >= 1
        BY <1>1, <1>2, <1>3, <1>8, <2>1, Suffixes
      <4>2. Tail(q) = SubSeq(W, 3, Len(q) + 1)
        BY <1>1, <1>2, <1>3, <1>8, <2>1, Suffixes
      <4>3. QED
        BY <4>1, <4>2
    <3>2. QED
      BY <1>8, <3>1
  <2>2. CASE c \notin S.client.owed
    <3>1. Tail(q) = SubSeq(W, 1 + 1, Len(W)) /\ 1 \in 0..Len(W)
      BY <1>1, <1>3, <1>8, <2>2
    <3>2. QED
      BY <1>8, <3>1
  <2>3. QED
    BY <2>1, <2>2
<1>9. QED
  BY <1>6, <1>7, <1>8 DEF W

LEMMA AlikeMoves ==
    ASSUME NEW S \in State, NEW T, Alike(S, T)
    PROVE  Moves(S, T)
<1>1. Waiting(T) = Waiting(S)
  BY DEF Alike, Waiting
<1>2. QED
  BY <1>1, MovesOn DEF Alike

-----------------------------------------------------------------------------
(* The state of the current stream *)

LEMMA SetStateFields ==
    ASSUME NEW S \in State, NEW i \in Streams, NEW st \in ItemStates
    PROVE  LET T == SetItemState(S, i, st)
           IN  /\ T \in State
               /\ T.ctl = S.ctl /\ T.pl = S.pl /\ T.watcher = S.watcher /\ T.fail = S.fail
               /\ T.fifo = S.fifo /\ T.gst = S.gst /\ T.calls = S.calls /\ T.idle = S.idle
               /\ T.skip = S.skip /\ T.threads = S.threads /\ T.client = S.client
               /\ T.bug = S.bug
               /\ T.item[i].state = st
               /\ \A j \in Streams : j # i => T.item[j] = S.item[j]
               /\ \A j \in Streams : /\ T.item[j].selected = S.item[j].selected
                                     /\ T.item[j].resolving = S.item[j].resolving
                                     /\ T.item[j].restart = S.item[j].restart
                                     /\ T.item[j].realtime = S.item[j].realtime
                                     /\ T.item[j].prefailed = S.item[j].prefailed
<1> DEFINE r == [S.item[i] EXCEPT !.state = st]
           T == SetItemState(S, i, st)
<1>1. /\ r \in ItemType /\ r.state = st
      /\ r.selected = S.item[i].selected /\ r.resolving = S.item[i].resolving
      /\ r.restart = S.item[i].restart /\ r.realtime = S.item[i].realtime
      /\ r.prefailed = S.item[i].prefailed
  BY DEF State, ItemType
<1>2. T = [S EXCEPT !.item[i] = r]
  BY DEF SetItemState, State
<1> HIDE DEF r, T
<1>3. /\ T \in State /\ T.item = [S.item EXCEPT ![i] = r]
      /\ T.ctl = S.ctl /\ T.pl = S.pl /\ T.watcher = S.watcher /\ T.fail = S.fail
      /\ T.fifo = S.fifo /\ T.gst = S.gst /\ T.calls = S.calls /\ T.idle = S.idle
      /\ T.skip = S.skip /\ T.threads = S.threads /\ T.client = S.client
      /\ T.bug = S.bug
  BY <1>1, <1>2 DEF State
<1>4. S.item \in [Streams -> ItemType]
  BY DEF State
<1>5. T.item[i] = r /\ \A j \in Streams : j # i => T.item[j] = S.item[j]
  BY <1>3, <1>4
<1>6. QED
  BY <1>1, <1>3, <1>5 DEF T

\* Nothing but the state of the current stream is changed.
SameButItems(S, T) ==
    /\ T.ctl = S.ctl /\ T.pl = S.pl /\ T.watcher = S.watcher /\ T.fifo = S.fifo
    /\ T.gst = S.gst /\ T.idle = S.idle /\ T.client = S.client /\ T.bug = S.bug

LEMMA CurrentStateCore ==
    ASSUME NEW S \in State, QueueOk(S.pl.cur, S.fifo, S.client.owed), Core(S),
           Active(S.gst), S.pl.cur # None, NEW st \in ItemStates,
           \/ S.item[S.pl.cur].state \in Awaited /\ st \in Awaited
           \/ S.item[S.pl.cur].state \in Announced /\ st \in Announced
    PROVE  LET T == SetItemState(S, S.pl.cur, st)
           IN  T \in State /\ Core(T) /\ SameButItems(S, T)
<1> DEFINE T == SetItemState(S, S.pl.cur, st)
           c == S.pl.cur
           f == S.fifo
           g == S.gst
           o == S.client.owed
           it == S.item
           jt == T.item
<1>1. /\ c \in Streams /\ f.queue \in Seq(Streams)
  BY FifoTypes
<1>2. /\ T \in State
      /\ T.ctl = S.ctl /\ T.pl = S.pl /\ T.watcher = S.watcher
      /\ T.fifo = f /\ T.gst = g /\ T.calls = S.calls /\ T.idle = S.idle
      /\ T.skip = S.skip /\ T.threads = S.threads /\ T.client = S.client /\ T.bug = S.bug
  BY <1>1, SetStateFields
<1>3. /\ jt[c].state = st
      /\ \A j \in Streams : j # c => jt[j] = it[j]
      /\ \A j \in Streams : /\ jt[j].selected = it[j].selected
                            /\ jt[j].resolving = it[j].resolving
                            /\ jt[j].restart = it[j].restart
                            /\ jt[j].realtime = it[j].realtime
  BY <1>1, SetStateFields
<1>4. \A n \in 1..Len(f.queue) : f.queue[n] \in Streams /\ f.queue[n] # c
  BY <1>1 DEF QueueOk, Elems
<1>5. ~IsEmpty(f) => jt[Peek(f)] = it[Peek(f)]
  BY <1>1, <1>3, <1>4 DEF IsEmpty, Peek
<1> HIDE DEF T
<1>6. ItemsPlain(jt) /\ RestartOk(c, f, jt, g)
  BY <1>3, <1>4 DEF Core, ItemsPlain, RestartOk, Size
<1>7. \A x : HeadIs(f, it, x) => HeadIs(f, jt, x)
  BY <1>5 DEF HeadIs
<1>8. PhaseOk(c, S.pl.protected, f, jt, g, o)
  <2>1. PhaseOk(c, S.pl.protected, f, it, g, o) /\ ~Resting(c, S.pl.protected, f, it, g, o)
    BY DEF Core, Resting, Active
  <2>2. Awaited \cap Announced = {}
    BY DEF Awaited, Announced
  <2>3. First(c, f, it, g, o) => First(c, f, jt, g, o)
    BY <1>3, <1>7, <2>2 DEF First
  <2>4. Steady(c, f, it, g, o) => Steady(c, f, jt, g, o)
    BY <1>3, <1>7, <2>2 DEF Steady
  <2>5. Ahead(c, f, it, g, o) => Ahead(c, f, jt, g, o)
    BY <1>3, <1>7, <2>2 DEF Ahead
  <2>6. Unopened(c, f, it, g) => Unopened(c, f, jt, g)
    BY <1>3, <1>7, <2>2 DEF Unopened
  <2>7. QED
    BY <2>1, <2>3, <2>4, <2>5, <2>6 DEF PhaseOk
<1>9. BoostOk(c, jt, S.pl.buf, g, S.threads)
  <2>1. Awaited \cap Announced = {}
    BY DEF Awaited, Announced
  <2>2. QED
    BY <1>3, <2>1 DEF Core, BoostOk
<1>10. QED
  BY <1>2, <1>6, <1>8, <1>9 DEF Core, SameButItems, T

LEMMA ActivateCore ==
    ASSUME NEW S \in State, QueueOk(S.pl.cur, S.fifo, S.client.owed), Core(S),
           Active(S.gst), S.pl.cur # None
    PROVE  LET T == ActivateStreamAndEmitPauseState(S)
           IN  T \in State /\ Core(T) /\ SameButItems(S, T)
<1> DEFINE T == ActivateStreamAndEmitPauseState(S)
           st == S.item[S.pl.cur].state
<1>1. st \in Awaited \cup Announced
  BY DEF Core, PhaseOk, First, Steady, Ahead, Unopened, Resting, Active
<1>2. CASE st = "ABOUT_TO_ACTIVATE"
  <2>1. T = SetItemState(S, S.pl.cur, "ACTIVE_HALF_PLAYING")
    BY <1>2 DEF ActivateStreamAndEmitPauseState, ActivateStream
  <2>2. QED
    BY <1>2, <2>1, CurrentStateCore DEF Awaited, ItemStates
<1>3. CASE st # "ABOUT_TO_ACTIVATE"
  <2>1. T = S
    BY <1>1, <1>3 DEF ActivateStreamAndEmitPauseState, ActivateStream, Awaited, Announced
  <2>2. QED
    BY <2>1 DEF SameButItems
<1>4. QED
  BY <1>2, <1>3

LEMMA SameButItemsMoves ==
    ASSUME NEW S \in State, NEW T, SameButItems(S, T)
    PROVE  Moves(S, T)
<1>1. Waiting(T) = Waiting(S)
  BY DEF SameButItems, Waiting
<1>2. QED
  BY <1>1, MovesOn DEF SameButItems

-----------------------------------------------------------------------------
(* Stopping *)

\* The signals which tell that playback has stopped.
StoppedAs(S, T, streams) ==
    /\ T \in State
    /\ T.ctl = [S.ctl EXCEPT !.status = "STOPPED"]
    /\ T.pl = [S.pl EXCEPT !.buf = NotBuffering]
    /\ T.gst = [S.gst EXCEPT !.uri = NoUri]
    /\ T.fifo.queue = S.fifo.queue /\ T.fifo.removed = <<>> /\ T.fifo.dropped = {}
    /\ T.client.owed = S.client.owed \ (streams \cup DroppedIds(S.fifo))
    /\ T.client.told \in {S.client.told, None}
    /\ ~T.threads.boosted
    /\ T.item = S.item /\ T.calls = S.calls /\ T.skip = S.skip /\ T.idle = S.idle
    /\ T.watcher = S.watcher /\ T.fail = S.fail /\ T.bug = S.bug

LEMMA StoppingFields ==
    ASSUME NEW S \in State
    PROVE  LET T == Stopping(S)
           IN  /\ T \in State
               /\ T.ctl = [S.ctl EXCEPT !.status = "STOPPED"]
               /\ T.pl = [S.pl EXCEPT !.buf = NotBuffering]
               /\ T.gst = [S.gst EXCEPT !.uri = NoUri]
               /\ ~T.threads.boosted
               /\ T.fifo = S.fifo /\ T.client = S.client
               /\ T.item = S.item /\ T.calls = S.calls /\ T.skip = S.skip /\ T.idle = S.idle
               /\ T.watcher = S.watcher /\ T.fail = S.fail /\ T.bug = S.bug
<1> DEFINE Q == [S EXCEPT !.ctl.status = "STOPPED", !.pl.buf = NotBuffering]
           R == Throttle(Q)
           T == Stopping(S)
<1>1. T \in State /\ ~T.threads.boosted
  BY StoppingAside DEF Aside
<1>2. /\ Q.ctl = [S.ctl EXCEPT !.status = "STOPPED"] /\ Q.pl = [S.pl EXCEPT !.buf = NotBuffering]
      /\ Q.gst = S.gst /\ Q.fifo = S.fifo /\ Q.client = S.client
      /\ Q.item = S.item /\ Q.calls = S.calls /\ Q.skip = S.skip /\ Q.idle = S.idle
      /\ Q.watcher = S.watcher /\ Q.fail = S.fail /\ Q.bug = S.bug
  BY DEF State
<1>3. T = [[Q EXCEPT !.threads = BT!Throttle(@)] EXCEPT !.gst.uri = NoUri]
  BY DEF Stopping, WipeOutUri, Throttle
<1>4. Q \in State
  BY DEF State, CtlType, Statuses, PlType, BufType, NotBuffering, BufferingStates, Levels
<1> HIDE DEF Q
<1>5. /\ T.ctl = Q.ctl /\ T.pl = Q.pl /\ T.gst = [Q.gst EXCEPT !.uri = NoUri]
      /\ T.fifo = Q.fifo /\ T.client = Q.client
      /\ T.item = Q.item /\ T.calls = Q.calls /\ T.skip = Q.skip /\ T.idle = Q.idle
      /\ T.watcher = Q.watcher /\ T.fail = Q.fail /\ T.bug = Q.bug
  BY <1>3, <1>4 DEF State
<1>6. QED
  BY <1>1, <1>2, <1>5

LEMMA TellFields ==
    ASSUME NEW S \in State, NEW streams
    PROVE  LET T == Tell(S, streams)
           IN  /\ T \in State
               /\ T.ctl = S.ctl /\ T.pl = S.pl /\ T.gst = S.gst
               /\ T.fifo.queue = S.fifo.queue /\ T.fifo.removed = <<>> /\ T.fifo.dropped = {}
               /\ T.client.owed = S.client.owed \ (streams \cup DroppedIds(S.fifo))
               /\ T.client.told = S.client.told /\ T.threads = S.threads
               /\ T.item = S.item /\ T.calls = S.calls /\ T.skip = S.skip /\ T.idle = S.idle
               /\ T.watcher = S.watcher /\ T.fail = S.fail /\ T.bug = S.bug
<1> DEFINE c == [S.client EXCEPT !.owed = @ \ (streams \cup DroppedIds(S.fifo))]
           f == TakeDropped(S.fifo)
           T == Tell(S, streams)
<1>1. /\ c \in ClientType /\ c.told = S.client.told
      /\ c.owed = S.client.owed \ (streams \cup DroppedIds(S.fifo))
  BY DEF State, ClientType
<1>2. /\ f \in FifoType(Streams)
      /\ f.queue = S.fifo.queue /\ f.removed = <<>> /\ f.dropped = {}
  <2>1. S.fifo \in FifoType(Streams) /\ <<>> \in Seq(Streams)
    BY DEF State
  <2>2. QED
    BY <2>1 DEF FifoType, TakeDropped
<1>3. T = [S EXCEPT !.client = c, !.fifo = f]
  BY DEF Tell, State
<1> HIDE DEF c, f, T
<1>4. QED
  BY <1>1, <1>2, <1>3 DEF State, T

LEMMA TellStopping ==
    ASSUME NEW S \in State, NEW streams
    PROVE  LET T == Tell(Stopping(S), streams)
           IN  /\ StoppedAs(S, T, streams) /\ T.client.told = S.client.told
               /\ StoppedAs(S, [T EXCEPT !.client.told = None], streams)
<1> DEFINE R == Stopping(S)
           T == Tell(R, streams)
           U == [T EXCEPT !.client.told = None]
<1>1. /\ R \in State
      /\ R.ctl = [S.ctl EXCEPT !.status = "STOPPED"]
      /\ R.pl = [S.pl EXCEPT !.buf = NotBuffering]
      /\ R.gst = [S.gst EXCEPT !.uri = NoUri]
      /\ ~R.threads.boosted
      /\ R.fifo = S.fifo /\ R.client = S.client
      /\ R.item = S.item /\ R.calls = S.calls /\ R.skip = S.skip /\ R.idle = S.idle
      /\ R.watcher = S.watcher /\ R.fail = S.fail /\ R.bug = S.bug
  BY StoppingFields
<1> HIDE DEF R
<1>2. /\ T \in State
      /\ T.ctl = R.ctl /\ T.pl = R.pl /\ T.gst = R.gst
      /\ T.fifo.queue = R.fifo.queue /\ T.fifo.removed = <<>> /\ T.fifo.dropped = {}
      /\ T.client.owed = R.client.owed \ (streams \cup DroppedIds(R.fifo))
      /\ T.client.told = R.client.told /\ T.threads = R.threads
      /\ T.item = R.item /\ T.calls = R.calls /\ T.skip = R.skip /\ T.idle = R.idle
      /\ T.watcher = R.watcher /\ T.fail = R.fail /\ T.bug = R.bug
  BY <1>1, TellFields
<1> HIDE DEF T
<1>3. StoppedAs(S, T, streams) /\ T.client.told = S.client.told
  BY <1>1, <1>2 DEF StoppedAs
<1>4. /\ U \in State
      /\ U.ctl = T.ctl /\ U.pl = T.pl /\ U.gst = T.gst /\ U.fifo = T.fifo
      /\ U.client.owed = T.client.owed /\ U.client.told = None /\ U.threads = T.threads
      /\ U.item = T.item /\ U.calls = T.calls /\ U.skip = T.skip /\ U.idle = T.idle
      /\ U.watcher = T.watcher /\ U.fail = T.fail /\ U.bug = T.bug
  BY <1>2 DEF State, ClientType
<1> HIDE DEF U
<1>5. StoppedAs(S, U, streams)
  BY <1>3, <1>4 DEF StoppedAs
<1>6. QED
  BY <1>3, <1>5 DEF T, U, R

LEMMA EmitStoppedAs ==
    ASSUME NEW S \in State
    PROVE  StoppedAs(S, EmitStopped(S), {S.pl.cur})
<1>1. \/ EmitStopped(S) = Tell(Stopping(S), {S.pl.cur})
      \/ EmitStopped(S) = [Tell(Stopping(S), {S.pl.cur}) EXCEPT !.client.told = None]
  BY DEF EmitStopped
<1>2. QED
  BY <1>1, TellStopping

LEMMA EmitStoppedWithErrorAs ==
    ASSUME NEW S \in State, NEW failed, failed # None => ~NoUrls(failed)
    PROVE  StoppedAs(S, EmitStoppedWithError(S, failed), {failed})
<1>1. EmitStoppedWithError(S, failed) = [Tell(Stopping(S), {failed}) EXCEPT !.client.told = None]
  BY DEF EmitStoppedWithError
<1>2. QED
  BY <1>1, TellStopping

-----------------------------------------------------------------------------
(* The head of the queue is taken out *)

LEMMA PopFacts ==
    ASSUME NEW S \in State, Good(S), ~IsEmpty(S.fifo)
    PROVE  LET f == Pop(S.fifo)
               head == Peek(S.fifo)
           IN  /\ f \in FifoType(Streams)
               /\ f.queue = Tail(S.fifo.queue)
               /\ f.removed = S.fifo.removed /\ f.dropped = S.fifo.dropped
               /\ head \in Streams /\ head # None /\ head # S.pl.cur /\ head \in S.client.owed
               /\ Elems(S.fifo.queue) = Elems(f.queue) \cup {head} /\ head \notin Elems(f.queue)
               /\ S.fifo.queue # <<>> /\ <<head>> \o f.queue = S.fifo.queue
               /\ Size(f) <= Size(S.fifo)
               /\ HeadIs(f, S.item, "IN_QUEUE")
               /\ S.item[head].state \in {"IN_QUEUE", "ABOUT_TO_ACTIVATE"}
               /\ \A cur, g : RestartOk(cur, S.fifo, S.item, g) =>
                      \A n \in 1..Len(f.queue) : ~S.item[f.queue[n]].restart
<1> DEFINE f == Pop(S.fifo)
           q == S.fifo.queue
           head == Peek(S.fifo)
<1>1. /\ S.fifo \in FifoType(Streams) /\ q \in Seq(Streams) /\ q # <<>>
      /\ Distinct(q) /\ S.pl.cur \notin Elems(q) /\ Elems(q) \subseteq S.client.owed
      /\ ItemsOk(q, S.item)
  BY FifoTypes DEF IsEmpty, Good, QueueOk
<1>2. /\ q[1] \in Streams /\ q[1] # None /\ 1 \in 1..Len(q)
      /\ Tail(q) \in Seq(Streams)
      /\ Elems(q) = Elems(Tail(q)) \cup {q[1]} /\ q[1] \notin Elems(Tail(q))
  BY <1>1, HeadOfQueue
<1>3. head = q[1]
  BY DEF Peek
<1>4. f \in FifoType(Streams) /\ f.queue = Tail(q) /\ f.removed = S.fifo.removed
        /\ f.dropped = S.fifo.dropped
  BY <1>1, <1>2 DEF Pop, IsEmpty, FifoType
<1>5. /\ Len(q) \in Nat \ {0} /\ Len(Tail(q)) = Len(q) - 1
      /\ \A n \in 1..Len(Tail(q)) : Tail(q)[n] = q[n + 1] /\ n + 1 \in 1..Len(q) /\ n + 1 # 1
  BY <1>1
<1>6. <<head>> \o f.queue = q
  BY <1>1, <1>3, <1>4
<1> HIDE DEF f, q, head
<1>7. HeadIs(f, S.item, "IN_QUEUE")
  <2>1. SUFFICES ASSUME Tail(q) # <<>> PROVE S.item[Tail(q)[1]].state = "IN_QUEUE"
    BY <1>4 DEF HeadIs, IsEmpty, Peek
  <2>2. 1 \in 1..Len(Tail(q))
    BY <1>2, <2>1
  <2>3. S.item[q[1 + 1]].state = "IN_QUEUE"
    BY <1>1, <1>5, <2>2 DEF ItemsOk
  <2>4. QED
    BY <1>5, <2>2, <2>3
<1>8. S.item[head].state \in {"IN_QUEUE", "ABOUT_TO_ACTIVATE"}
  BY <1>1, <1>2, <1>3 DEF ItemsOk
<1>9. ASSUME NEW cur, NEW g, RestartOk(cur, S.fifo, S.item, g), NEW n \in 1..Len(f.queue)
      PROVE  ~S.item[f.queue[n]].restart
  BY <1>4, <1>5, <1>9 DEF RestartOk, Size, q
<1>10. Size(f) <= Size(S.fifo)
  BY <1>4, <1>5 DEF Size, q
<1>11. head # S.pl.cur /\ head \in S.client.owed /\ head \in Streams /\ head # None
  BY <1>1, <1>2, <1>3
<1>12. QED
  BY <1>1, <1>2, <1>3, <1>4, <1>6, <1>7, <1>8, <1>9, <1>10, <1>11 DEF f, q, head

\* A state without anything to be played by the pipeline.
LEMMA RestPlain ==
    ASSUME NEW T \in State,
           ItemsPlain(T.item), QueuePlain(T.pl.cur, T.fifo, T.client.owed),
           T.calls = {}, ~T.skip, RestartOk(T.pl.cur, T.fifo, T.item, T.gst),
           GstOk(T.gst), BusOk(T.gst), ~Loaded(T.gst),
           Resting(T.pl.cur, T.pl.protected, T.fifo, T.item, T.gst, T.client.owed),
           AskedOk(T.ctl, T.pl.buf, T.pl.cur, T.idle, T.gst), T.watcher # "GONE",
           LocalFiles => ~IsBuffering(T.pl.buf) /\ \A i \in Streams : T.item[i].realtime,
           CleanOk(T.gst, T.bug)
    PROVE  Plain(T)
<1>1. ~OnBus(T.gst, "BUFFERING") /\ ~OnBus(T.gst, "ASYNC_DONE")
  BY DEF OnBus, BusOk, Late
<1>2. BoostOk(T.pl.cur, T.item, T.pl.buf, T.gst, T.threads)
  BY <1>1 DEF BoostOk
<1>3. WatchedOk(T.watcher, T.gst)
  BY DEF WatchedOk, Loaded
<1>4. PhaseOk(T.pl.cur, T.pl.protected, T.fifo, T.item, T.gst, T.client.owed)
  BY DEF PhaseOk
<1>5. QED
  BY <1>2, <1>3, <1>4 DEF Plain, Core

LEMMA UrlIsKnown ==
    ASSUME PlainPlayback, NEW S \in State, ItemsPlain(S.item), NEW i \in Streams
    PROVE  /\ UrlState(i, S.item[i]) = "KNOWN_DIRECT_URL" /\ ~NoUrls(i)
           /\ UrlForPlaying(i, S.item[i]) = UriOf(i)
           /\ \A late : ~HasNextUrl(i, S.item[i], late)
           /\ StartRequired(i, S.item[i]) = "START_NOW"
<1>1. Urls[i] = <<"DIRECT">> /\ S.item[i].selected = 1 /\ S.item[i].resolving = FALSE
  BY DEF PlainPlayback, ItemsPlain, State, ItemType
<1>2. Urls[i] # <<>> /\ Urls[i][1] = "DIRECT" /\ Len(Urls[i]) = 1
  BY <1>1
<1>3. ~NoUrls(i) /\ ~IsLink(i, S.item[i].selected)
  BY <1>1, <1>2 DEF NoUrls, IsLink
<1>4. UrlState(i, S.item[i]) = "KNOWN_DIRECT_URL"
  BY <1>1, <1>2 DEF UrlState, NoUrls, IsLink
<1>5. UrlForPlaying(i, S.item[i]) = UriOf(i)
  BY <1>1, <1>3 DEF UrlForPlaying, UriOf
<1>6. \A late : ~HasNextUrl(i, S.item[i], late)
  BY <1>1, <1>2, <1>3 DEF HasNextUrl, UrlExpired
<1>7. QED
  BY <1>3, <1>4, <1>5, <1>6 DEF StartRequired

-----------------------------------------------------------------------------
(* handle_stream_state_change() *)

LEMMA ArrivedInReadyPlain ==
    ASSUME PlainPlayback, NEW S \in State, Good(S), Core(S), ~Died(S), S.gst.target = "READY",
           S.watcher # "GONE", S.ctl.status # "STOPPED" \/ S.idle > 0 => S.ctl.activated,
           S.pl.cur = None /\ S.ctl.status = "PLAYING" => IsBuffering(S.pl.buf) \/ S.idle > 0
    PROVE  LET T == ArrivedInReady(S)
           IN  T \in State /\ Plain(T) /\ Moves(S, T)
<1> DEFINE T == ArrivedInReady(S)
           c == S.pl.cur
           g == S.gst
           q == S.fifo.queue
           Q == IF c = None THEN S ELSE EmitStopped(S)
           moved == CASE Q.pl.protected -> [Q EXCEPT !.pl.protected = FALSE]
                      [] ~Q.pl.protected /\ ~IsEmpty(Q.fifo) -> PopToCurrent(Q)
                      [] OTHER -> [Q EXCEPT !.pl.cur = None]
<1>1. /\ ~Loaded(g) /\ Resting(c, S.pl.protected, S.fifo, S.item, g, S.client.owed)
      /\ g \in GstType /\ GstOk(g) /\ BusOk(g) /\ g.uri = NoUri
  <2>1. g \in GstType /\ GstOk(g) /\ BusOk(g)
    BY DEF Core, State
  <2>2. ~Loaded(g)
    BY <2>1, LoadedIsActive DEF Active
  <2>3. Resting(c, S.pl.protected, S.fifo, S.item, g, S.client.owed)
    BY <2>2 DEF Core, PhaseOk, Unopened
  <2>4. QED
    BY <2>1, <2>2, <2>3 DEF Resting
<1>2. WipeOutUri(S) = S /\ [g EXCEPT !.uri = NoUri] = g
  <2>1. [g EXCEPT !.uri = NoUri] = g
    BY <1>1 DEF GstType
  <2>2. WipeOutUri(S) = [S EXCEPT !.gst = [g EXCEPT !.uri = NoUri]]
    BY DEF WipeOutUri
  <2> HIDE DEF g
  <2>3. WipeOutUri(S) = [S EXCEPT !.gst = g]
    BY <2>1, <2>2
  <2>4. QED
    BY <2>1, <2>3 DEF State, g
<1>3. c # None => c \in Streams /\ UrlState(c, S.item[c]) = "KNOWN_DIRECT_URL"
  BY FifoTypes, UrlIsKnown DEF Core
<1>4. T = [moved EXCEPT !.pl.justStarted = FALSE]
  BY <1>2, <1>3 DEF ArrivedInReady
<1>5. T \in State
  BY ArrivedInReadyLeads DEF Leads
<1>6. /\ q \in Seq(Streams) /\ c \in Streams \cup {None} /\ None \notin S.client.owed
      /\ Elems(q) \subseteq S.client.owed /\ c \notin Elems(q)
      /\ S.fifo.removed = <<>> /\ S.fifo.dropped = {} /\ DroppedIds(S.fifo) = {}
      /\ Size(S.fifo) <= MaxItems /\ S.client.owed \subseteq Elems(q) \cup {c}
  <2>1. DroppedIds([removed |-> <<>>, dropped |-> {}]) = {}
    BY DEF DroppedIds, Elems
  <2>2. S.fifo.removed = <<>> /\ S.fifo.dropped = {} /\ DroppedIds(S.fifo) = {}
    BY <2>1 DEF Core, QueuePlain, DroppedIds, Elems
  <2>3. S.client.owed \subseteq Streams /\ None \notin Streams
    BY StreamsAssumption DEF State, ClientType, None
  <2>4. QED
    BY <2>2, <2>3, FifoTypes DEF Core, QueuePlain, Good, QueueOk
<1>7. /\ Q \in State /\ Good(Q) /\ Q.gst = g /\ Q.fifo.queue = q /\ Q.fifo.removed = <<>>
      /\ Q.fifo.dropped = {} /\ Q.item = S.item /\ Q.calls = S.calls /\ Q.skip = S.skip
      /\ Q.idle = S.idle /\ Q.watcher = S.watcher /\ Q.bug = S.bug
      /\ Q.pl.cur = c /\ Q.pl.protected = S.pl.protected
      /\ Q.client.owed = S.client.owed \ {c} /\ Q.client.told \in {S.client.told, None}
      /\ Q.ctl.activated = S.ctl.activated
      /\ Q.ctl.status = "PLAYING" => IsBuffering(Q.pl.buf) \/ S.idle > 0
      /\ Q.ctl.status # "STOPPED" => S.ctl.status # "STOPPED"
      /\ IsBuffering(Q.pl.buf) => IsBuffering(S.pl.buf)
  <2>1. CASE c = None
    BY <1>6, <2>1
  <2>2. CASE c # None
    <3>1. StoppedAs(S, EmitStopped(S), {c}) /\ Leads(S, EmitStopped(S))
      BY EmitStoppedAs, EmitStoppedLeads
    <3>2. Q = EmitStopped(S)
      BY <2>2
    <3> HIDE DEF Q
    <3>3. StoppedAs(S, Q, {c}) /\ Leads(S, Q)
      BY <3>1, <3>2
    <3>4. /\ Q.ctl.activated = S.ctl.activated /\ Q.ctl.status = "STOPPED"
          /\ Q.pl.cur = c /\ Q.pl.protected = S.pl.protected /\ Q.pl.buf = NotBuffering
      BY <3>3 DEF StoppedAs, State, CtlType, PlType
    <3>5. Good(Q)
      <4>1. ~Died(Q)
        <5>1. Q.bug = S.bug
          BY <3>3 DEF StoppedAs
        <5>2. QED
          BY <3>3, <5>1 DEF Leads, Died
      <4>2. QED
        BY <3>3, <4>1 DEF Leads
    <3>6. QED
      BY <1>2, <1>6, <3>3, <3>4, <3>5 DEF StoppedAs, NotBuffering, IsBuffering
  <2>3. QED
    BY <2>1, <2>2
<1> HIDE DEF Q
<1>8. moved \in State
  <2>1. PopToCurrent(Q) \in State
    BY <1>7, PopToCurrentLeads DEF Leads
  <2>2. QED
    BY <1>7, <2>1 DEF State, PlType
<1>9. /\ T.pl.cur = moved.pl.cur /\ T.pl.protected = moved.pl.protected /\ T.pl.buf = moved.pl.buf
      /\ T.fifo = moved.fifo /\ T.item = moved.item /\ T.gst = moved.gst /\ T.calls = moved.calls
      /\ T.skip = moved.skip /\ T.client = moved.client /\ T.ctl = moved.ctl /\ T.idle = moved.idle
      /\ T.watcher = moved.watcher /\ T.bug = moved.bug
  <2> HIDE DEF moved, T
  <2>1. QED
    BY <1>4, <1>8 DEF State, PlType
<1>10. /\ moved.pl.buf = Q.pl.buf /\ moved.item = Q.item /\ moved.gst = Q.gst
       /\ moved.calls = Q.calls /\ moved.skip = Q.skip /\ moved.client = Q.client
       /\ moved.ctl = Q.ctl /\ moved.idle = Q.idle /\ moved.watcher = Q.watcher
       /\ moved.bug = Q.bug
       /\ \/ Q.pl.protected /\ moved.pl.cur = c /\ ~moved.pl.protected /\ moved.fifo = Q.fifo
          \/ /\ ~Q.pl.protected /\ ~moved.pl.protected /\ ~IsEmpty(Q.fifo)
             /\ moved.pl.cur = Peek(Q.fifo) /\ moved.fifo = Pop(Q.fifo)
          \/ ~moved.pl.protected /\ IsEmpty(Q.fifo) /\ moved.pl.cur = None /\ moved.fifo = Q.fifo
  BY <1>7 DEF PopToCurrent, State, PlType
<1> HIDE DEF moved, T
<1>11. /\ ItemsPlain(T.item) /\ T.calls = {} /\ ~T.skip /\ T.gst = g /\ T.watcher # "GONE"
       /\ CleanOk(T.gst, T.bug)
       /\ LocalFiles => ~IsBuffering(T.pl.buf) /\ \A i \in Streams : T.item[i].realtime
       /\ T.client.told \in {S.client.told, None} /\ T.item = S.item
  BY <1>7, <1>9, <1>10 DEF Core, BoostOk
<1>12. AskedOk(T.ctl, T.pl.buf, T.pl.cur, T.idle, T.gst)
  BY <1>7, <1>9, <1>10, <1>11 DEF AskedOk
<1>13. CASE Q.pl.protected /\ moved.pl.cur = c /\ moved.fifo = Q.fifo /\ ~moved.pl.protected
  <2>1. IsEmpty(Q.fifo) = IsEmpty(S.fifo) /\ Peek(Q.fifo) = Peek(S.fifo) /\ Size(Q.fifo) = Size(S.fifo)
    BY <1>7 DEF IsEmpty, Peek, Size
  <2>2. QueuePlain(T.pl.cur, T.fifo, T.client.owed)
    BY <1>6, <1>7, <1>9, <1>10, <1>13, <2>1 DEF QueuePlain
  <2>3. RestartOk(T.pl.cur, T.fifo, T.item, T.gst)
    BY <1>7, <1>9, <1>11, <1>13, <2>1 DEF RestartOk, Core
  <2>4. Resting(T.pl.cur, T.pl.protected, T.fifo, T.item, T.gst, T.client.owed)
    BY <1>1, <1>7, <1>9, <1>11, <1>13, <2>1 DEF Resting, HeadIs, Awaited
  <2>5. Waiting(T) = q
    <3>1. T.pl.cur \notin T.client.owed /\ T.fifo.queue = q
      BY <1>7, <1>9, <1>10, <1>13
    <3>2. <<>> \o q = q
      BY <1>6
    <3>3. QED
      BY <3>1, <3>2 DEF Waiting
  <2>6. QED
    BY <1>1, <1>5, <1>11, <1>12, <2>2, <2>3, <2>4, <2>5, RestPlain, MovesOn DEF T
<1>14. CASE /\ ~moved.pl.protected /\ ~IsEmpty(Q.fifo)
            /\ moved.pl.cur = Peek(Q.fifo) /\ moved.fifo = Pop(Q.fifo)
  <2> DEFINE f == Pop(Q.fifo)
             head == Peek(Q.fifo)
  <2>1. /\ f.queue = Tail(q) /\ f.removed = <<>> /\ f.dropped = {}
        /\ head \in Streams /\ head # None /\ head # c /\ head \in Q.client.owed
        /\ Elems(q) = Elems(f.queue) \cup {head}
        /\ q # <<>> /\ <<head>> \o f.queue = q
        /\ Size(f) <= Size(Q.fifo)
        /\ HeadIs(f, Q.item, "IN_QUEUE")
        /\ Q.item[head].state \in {"IN_QUEUE", "ABOUT_TO_ACTIVATE"}
        /\ \A cur : RestartOk(cur, Q.fifo, Q.item, g) =>
                \A n \in 1..Len(f.queue) : ~Q.item[f.queue[n]].restart
    BY <1>7, <1>14, PopFacts
  <2> HIDE DEF f, head
  <2>2. T.pl.cur = head /\ T.fifo = f /\ ~T.pl.protected /\ T.client.owed = Q.client.owed
    BY <1>9, <1>10, <1>14 DEF f, head
  <2>3. QueuePlain(T.pl.cur, T.fifo, T.client.owed)
    <3>1. Size(Q.fifo) = Size(S.fifo) /\ Size(f) \in Nat /\ Size(Q.fifo) \in Nat
      BY <1>6, <1>7, <2>1 DEF Size
    <3>2. Size(f) <= MaxItems
      BY <1>6, <2>1, <3>1, MaxItemsAssumption
    <3>3. QED
      BY <1>6, <1>7, <2>1, <2>2, <3>2 DEF QueuePlain
  <2>4. RestartOk(T.pl.cur, T.fifo, T.item, T.gst)
    <3>1. RestartOk(c, Q.fifo, Q.item, g)
      BY <1>7 DEF Core, RestartOk, Size
    <3>2. QED
      BY <1>7, <1>11, <2>1, <2>2, <3>1 DEF RestartOk, Size
  <2>5. Resting(T.pl.cur, T.pl.protected, T.fifo, T.item, T.gst, T.client.owed)
    BY <1>1, <1>7, <1>11, <2>1, <2>2 DEF Resting, Awaited
  <2>6. Waiting(T) = q
    BY <2>1, <2>2 DEF Waiting
  <2>7. QED
    BY <1>1, <1>5, <1>11, <1>12, <2>3, <2>4, <2>5, <2>6, RestPlain, MovesOn DEF T
<1>15. CASE ~moved.pl.protected /\ IsEmpty(Q.fifo) /\ moved.pl.cur = None /\ moved.fifo = Q.fifo
  <2>1. T.pl.cur = None /\ T.fifo = Q.fifo /\ T.client.owed = Q.client.owed /\ q = <<>>
    BY <1>7, <1>9, <1>10, <1>15 DEF IsEmpty
  <2>2. QueuePlain(T.pl.cur, T.fifo, T.client.owed)
    <3>1. Size(T.fifo) = 0 /\ 0 <= MaxItems
      BY <1>7, <2>1, MaxItemsAssumption DEF Size
    <3>2. QED
      BY <1>6, <1>7, <2>1, <3>1 DEF QueuePlain
  <2>3. RestartOk(T.pl.cur, T.fifo, T.item, T.gst)
    BY <1>7, <2>1 DEF RestartOk, Size
  <2>4. Resting(T.pl.cur, T.pl.protected, T.fifo, T.item, T.gst, T.client.owed)
    BY <1>1, <1>11, <2>1 DEF Resting
  <2>5. Waiting(T) = q
    <3>1. T.pl.cur \notin T.client.owed
      BY <1>6, <1>7, <2>1
    <3>2. QED
      BY <1>7, <2>1, <3>1 DEF Waiting
  <2>6. QED
    BY <1>1, <1>5, <1>11, <1>12, <2>2, <2>3, <2>4, <2>5, RestPlain, MovesOn DEF T
<1>16. QED
  BY <1>10, <1>13, <1>14, <1>15

LEMMA WatcherFields ==
    ASSUME NEW S \in State, NEW w \in {"NONE", "RUNNING", "GONE"}
    PROVE  LET T == [S EXCEPT !.watcher = w]
           IN  /\ T \in State /\ T.watcher = w
               /\ T.ctl = S.ctl /\ T.pl = S.pl /\ T.fifo = S.fifo /\ T.item = S.item
               /\ T.gst = S.gst /\ T.calls = S.calls /\ T.idle = S.idle /\ T.skip = S.skip
               /\ T.threads = S.threads /\ T.client = S.client /\ T.bug = S.bug
               /\ Core(S) => Core(T)
               /\ Good(S) => Good(T)
<1> DEFINE T == [S EXCEPT !.watcher = w]
<1>1. /\ T \in State /\ T.watcher = w
      /\ T.ctl = S.ctl /\ T.pl = S.pl /\ T.fifo = S.fifo /\ T.item = S.item
      /\ T.gst = S.gst /\ T.calls = S.calls /\ T.idle = S.idle /\ T.skip = S.skip
      /\ T.threads = S.threads /\ T.client = S.client /\ T.bug = S.bug
  BY DEF State
<1> HIDE DEF T
<1>2. QED
  BY <1>1 DEF Core, Good, T

\* justStarted_ is of no concern for anything else.
LEMMA JustStartedFields ==
    ASSUME NEW S \in State, NEW b \in BOOLEAN
    PROVE  LET T == [S EXCEPT !.pl.justStarted = b]
           IN  /\ T \in State /\ T.pl.cur = S.pl.cur /\ T.pl.protected = S.pl.protected
               /\ T.pl.buf = S.pl.buf /\ T.pl.nextReq = S.pl.nextReq
               /\ T.ctl = S.ctl /\ T.watcher = S.watcher /\ T.fifo = S.fifo /\ T.item = S.item
               /\ T.gst = S.gst /\ T.calls = S.calls /\ T.idle = S.idle /\ T.skip = S.skip
               /\ T.threads = S.threads /\ T.client = S.client /\ T.bug = S.bug
               /\ Core(S) => Core(T)
               /\ Plain(S) => Plain(T)
<1> DEFINE T == [S EXCEPT !.pl.justStarted = b]
<1>1. /\ T \in State /\ T.pl.cur = S.pl.cur /\ T.pl.protected = S.pl.protected
      /\ T.pl.buf = S.pl.buf /\ T.pl.nextReq = S.pl.nextReq
      /\ T.ctl = S.ctl /\ T.watcher = S.watcher /\ T.fifo = S.fifo /\ T.item = S.item
      /\ T.gst = S.gst /\ T.calls = S.calls /\ T.idle = S.idle /\ T.skip = S.skip
      /\ T.threads = S.threads /\ T.client = S.client /\ T.bug = S.bug
  BY DEF State, PlType
<1> HIDE DEF T
<1>2. (Core(S) => Core(T)) /\ (Plain(S) => Plain(T))
  BY <1>1 DEF Core, Plain
<1>3. QED
  BY <1>1, <1>2 DEF T

LEMMA BugFields ==
    ASSUME NEW S \in State, NEW what \in BugNames
    PROVE  LET T == Bug(S, what)
           IN  /\ T \in State /\ T.bug = S.bug \cup {what}
               /\ T.ctl = S.ctl /\ T.pl = S.pl /\ T.watcher = S.watcher /\ T.fifo = S.fifo
               /\ T.item = S.item
               /\ T.gst = S.gst /\ T.calls = S.calls /\ T.idle = S.idle /\ T.skip = S.skip
               /\ T.threads = S.threads /\ T.client = S.client
               /\ Plain(S) /\ (NoErrors => what \notin Fatal) => Plain(T)
               /\ Alike(S, T)
<1> DEFINE T == Bug(S, what)
<1>1. /\ T \in State /\ T.bug = S.bug \cup {what}
      /\ T.ctl = S.ctl /\ T.pl = S.pl /\ T.watcher = S.watcher /\ T.fifo = S.fifo
      /\ T.item = S.item
      /\ T.gst = S.gst /\ T.calls = S.calls /\ T.idle = S.idle /\ T.skip = S.skip
      /\ T.threads = S.threads /\ T.client = S.client
  BY DEF State, Bug
<1> HIDE DEF T
<1>2. ASSUME Plain(S), NoErrors => what \notin Fatal PROVE Plain(T)
  BY <1>1, <1>2 DEF Plain, Core, CleanOk
<1>3. QED
  BY <1>1, <1>2 DEF T, Alike

\* The pipeline is on its way up.
LEMMA UpwardPlain ==
    ASSUME NEW S \in State, Plain(S), Active(S.gst), S.gst.target = "PLAYING", NEW b \in BOOLEAN
    PROVE  LET T == [[S EXCEPT !.pl.justStarted = b] EXCEPT !.pl.buf = NotBuffering]
           IN  T \in State /\ Plain(T) /\ Alike(S, T)
<1> DEFINE Q == [S EXCEPT !.pl.justStarted = b]
           T == [Q EXCEPT !.pl.buf = NotBuffering]
<1>1. Q \in State /\ Plain(Q) /\ Alike(S, Q) /\ Q.gst = S.gst
  BY JustStartedFields DEF Alike
<1> HIDE DEF Q
<1>2. /\ T \in State /\ Alike(Q, T) /\ T.pl.buf = NotBuffering /\ T.gst = Q.gst
      /\ T.watcher = Q.watcher /\ T.ctl = Q.ctl /\ T.idle = Q.idle /\ T.threads = Q.threads
      /\ T.bug = Q.bug
  BY <1>1 DEF State, PlType, BufType, NotBuffering, BufferingStates, Levels, Alike
<1> HIDE DEF T
<1>3. ~IsBuffering(T.pl.buf)
  BY <1>2 DEF NotBuffering, IsBuffering
<1>4. Plain(T)
  BY <1>1, <1>2, <1>3, ActiveFacts, SteerPlain
<1>5. QED
  BY <1>1, <1>2, <1>4 DEF Alike, T, Q

LEMMA MovesFrom ==
    ASSUME NEW S, NEW R, NEW T, R.pl.cur = S.pl.cur, R.fifo = S.fifo, R.client = S.client,
           Moves(R, T)
    PROVE  Moves(S, T)
<1>1. Waiting(R) = Waiting(S)
  BY DEF Waiting
<1>2. QED
  BY <1>1 DEF Moves

LEMMA HandleStreamStateChangePlain ==
    ASSUME PlainPlayback, NEW S \in State, Good(S), ~Died(S), Plain(S), S.gst.bus # <<>>,
           S.gst.bus[1][1] = "STATE_CHANGED",
           NEW old, NEW new, NEW pending, S.gst.bus[1] = StateChanged(old, new, pending)
    PROVE  LET T == HandleStreamStateChange(Taken(S), old, new, pending)
           IN  T \in State /\ Plain(T) /\ Moves(S, T)
<1> DEFINE R == Taken(S)
           m == S.gst.bus[1]
           T == HandleStreamStateChange(R, old, new, pending)
           starting == new = "PAUSED" /\ old \in {"READY", "NULL"} /\ pending = "PLAYING"
           just == [R EXCEPT !.pl.justStarted = TRUE]
           V == IF new \in {"READY", "NULL"} THEN StopWatching(R) ELSE R
<1>1. /\ R \in State /\ R.gst = [S.gst EXCEPT !.bus = Tail(@)]
      /\ R.ctl = S.ctl /\ R.pl = S.pl /\ R.watcher = S.watcher
      /\ R.fifo = S.fifo /\ R.item = S.item /\ R.calls = S.calls /\ R.idle = S.idle
      /\ R.skip = S.skip /\ R.threads = S.threads /\ R.client = S.client /\ R.bug = S.bug
  BY TakenFields
<1>2. /\ Loaded(R.gst) <=> Loaded(S.gst)
      /\ R.gst.state = S.gst.state /\ R.gst.pending = S.gst.pending
      /\ R.gst.target = S.gst.target
      /\ 1 \in 1..Len(S.gst.bus) /\ R.gst \in GstType /\ S.gst \in GstType
  <2> DEFINE g == S.gst
             h == R.gst
  <2>1. g \in GstType /\ h \in GstType /\ g.bus # <<>> /\ h = [g EXCEPT !.bus = Tail(@)]
    BY <1>1 DEF State
  <2> HIDE DEF g, h
  <2>2. /\ Loaded(h) <=> Loaded(g)
        /\ h.state = g.state /\ h.pending = g.pending /\ h.target = g.target
        /\ Len(g.bus) \in Nat \ {0}
    BY <2>1, TailFields
  <2>3. QED
    BY <2>1, <2>2 DEF g, h
<1>3. m[1] = "STATE_CHANGED" /\ m[2] = old /\ m[3] = new /\ m[4] = pending
  BY DEF StateChanged
<1>4. Core(R)
  BY <1>3, TakenCore
<1>5. /\ ~Arrival(m) \/ S.gst.target # "READY" =>
           AskedOk(R.ctl, R.pl.buf, R.pl.cur, R.idle, R.gst)
      /\ ~ArrivalInPlaying(m) \/ S.gst.state # "PLAYING" \/ S.gst.pending # "VOID" =>
           WatchedOk(R.watcher, R.gst)
      /\ R.watcher # "GONE"
      /\ Loaded(R.gst) =>
           \A k, n \in 1..Len(R.gst.bus) :
               Downward(R.gst.bus[k]) /\ ArrivalInPlaying(R.gst.bus[n]) => k < n
      /\ Loaded(R.gst) /\ ArrivalInPlaying(m) =>
           \A n \in 1..Len(R.gst.bus) : ~Downward(R.gst.bus[n])
      /\ S.gst.state = "PLAYING" /\ S.gst.pending = "VOID" =>
           \/ \A n \in 1..Len(R.gst.bus) : ~Downward(R.gst.bus[n]) /\ ~Downward(m)
           \/ \E n \in 1..Len(R.gst.bus) : ArrivalInPlaying(R.gst.bus[n])
  BY TakenWaits
<1>6. Good(R) /\ ~Died(R)
  BY <1>1 DEF Good, Died
<1>7. /\ V \in State /\ Core(V) /\ Good(V) /\ V.watcher \in {R.watcher, "NONE"}
      /\ new \in {"READY", "NULL"} => V.watcher = "NONE"
      /\ new \notin {"READY", "NULL"} => V.watcher = R.watcher
      /\ V.ctl = R.ctl /\ V.pl = R.pl /\ V.fifo = R.fifo /\ V.item = R.item
      /\ V.gst = R.gst /\ V.calls = R.calls /\ V.idle = R.idle /\ V.skip = R.skip
      /\ V.threads = R.threads /\ V.client = R.client /\ V.bug = R.bug
  <2> HIDE DEF R
  <2>1. V = IF new \in {"READY", "NULL"} THEN [R EXCEPT !.watcher = "NONE"] ELSE R
    BY DEF StopWatching
  <2> HIDE DEF V
  <2>2. QED
    BY <1>1, <1>4, <1>6, <2>1, WatcherFields
<1>8. \A X : Moves(R, X) => Moves(S, X)
  BY <1>1, MovesFrom
<1>9. \A X : Moves(V, X) => Moves(S, X)
  BY <1>1, <1>7, MovesFrom
<1>10. starting => Loaded(R.gst) /\ Active(R.gst) /\ ~Arrival(m) /\ ~ArrivalInPlaying(m)
  <2>1. starting => ~Late(m) /\ ~Arrival(m) /\ ~ArrivalInPlaying(m)
    BY <1>3 DEF Late, Arrival, ArrivalInPlaying
  <2>2. starting => Loaded(S.gst)
    BY <1>2, <2>1 DEF Plain, Core, BusOk
  <2>3. QED
    BY <1>2, <1>4, <2>1, <2>2, LoadedIsActive DEF Core
<1>11. R.gst.target \in {"NULL", "READY", "PAUSED", "PLAYING"}
  BY <1>2, <1>4, LoadedIsActive DEF Core, PhaseOk, Unopened, Resting, Active
<1> HIDE DEF R
<1>12. CASE new = old /\ new \in {"READY", "NULL"}
  <2>1. T = R
    BY <1>12 DEF HandleStreamStateChange
  <2>2. ~Arrival(m) /\ ~ArrivalInPlaying(m)
    BY <1>3, <1>12 DEF Arrival, ArrivalInPlaying
  <2>3. Plain(R)
    BY <1>4, <1>5, <2>2 DEF Plain
  <2>4. Moves(R, R)
    BY <1>1, AlikeMoves DEF Alike
  <2>5. QED
    BY <1>1, <1>8, <2>1, <2>3, <2>4 DEF R
<1>13. CASE ~(new = old /\ new \in {"READY", "NULL"}) /\ starting
  <2>1. Plain(R)
    BY <1>4, <1>5, <1>10, <1>13 DEF Plain
  <2>2. Plain(just) /\ just \in State /\ Alike(R, just) /\ just.gst = R.gst
    BY <1>1, <2>1, JustStartedFields DEF Alike
  <2>3. T = IF R.gst.target = "PAUSED" THEN EnterPause(just)
                                       ELSE [just EXCEPT !.pl.buf = NotBuffering]
    BY <1>10, <1>13 DEF HandleStreamStateChange, Active
  <2>4. T \in State /\ Plain(T) /\ Alike(R, T)
    <3>1. CASE R.gst.target = "PAUSED"
      <4> HIDE DEF just
      <4>1. Steered(just, EnterPause(just)) /\ EnterPause(just) \in State
        BY <1>10, <1>13, <2>2, EnterPausePlain
      <4>2. QED
        BY <2>2, <2>3, <3>1, <4>1 DEF Steered, Alike
    <3>2. CASE R.gst.target # "PAUSED"
      <4>1. R.gst.target = "PLAYING"
        BY <1>10, <1>13, <3>2 DEF Active
      <4>2. QED
        BY <1>1, <1>10, <1>13, <2>1, <2>3, <3>2, <4>1, UpwardPlain
    <3>3. QED
      BY <3>1, <3>2
  <2>5. QED
    BY <1>1, <1>8, <2>4, AlikeMoves DEF R
<1>14. CASE ~(new = old /\ new \in {"READY", "NULL"}) /\ ~starting
  <2>1. T = CASE R.gst.target = "NULL" -> Bug(V, "BOGUS_TARGET")
              [] R.gst.target # "NULL" /\ pending # "VOID" -> V
              [] R.gst.target = "READY" /\ pending = "VOID" -> ArrivedInReady(V)
              [] R.gst.target = "PAUSED" /\ pending = "VOID" ->
                   EnterPause(ActivateStreamAndEmitPauseState(V))
              [] R.gst.target = "PLAYING" /\ pending = "VOID" ->
                   WatchProgress([IF V.pl.justStarted
                                  THEN EmitPauseStateIfNotBuffering(V)
                                  ELSE ActivateStreamAndEmitPauseState(V)
                                    EXCEPT !.pl.justStarted = FALSE])
    BY <1>11, <1>14 DEF HandleStreamStateChange
  <2> HIDE DEF V, T
  <2>2. ~ArrivalInPlaying(m) \/ S.gst.state # "PLAYING" \/ S.gst.pending # "VOID" =>
          WatchedOk(V.watcher, V.gst)
    <3>1. SUFFICES ASSUME ~ArrivalInPlaying(m) \/ S.gst.state # "PLAYING" \/ S.gst.pending # "VOID",
                          new \in {"READY", "NULL"}, WatchedOk(R.watcher, R.gst)
                   PROVE  WatchedOk(V.watcher, V.gst)
      BY <1>5, <1>7
    <3>2. Downward(m)
      BY <1>3, <3>1 DEF Downward
    <3>3. S.gst.state = "PLAYING" /\ S.gst.pending = "VOID" =>
            \E n \in 1..Len(R.gst.bus) : ArrivalInPlaying(R.gst.bus[n])
      <4>1. SUFFICES ASSUME S.gst.state = "PLAYING", S.gst.pending = "VOID"
                     PROVE  \E n \in 1..Len(R.gst.bus) : ArrivalInPlaying(R.gst.bus[n])
        OBVIOUS
      <4>2. WatchedOk(S.watcher, S.gst)
        BY DEF Plain
      <4>3. PICK n \in 1..Len(S.gst.bus) : ArrivalInPlaying(S.gst.bus[n])
        BY <1>2, <3>2, <4>1, <4>2 DEF WatchedOk
      <4>4. n # 1
        BY <3>2, <4>3 DEF Downward, ArrivalInPlaying
      <4>5. /\ Len(S.gst.bus) \in Nat \ {0} /\ Len(R.gst.bus) = Len(S.gst.bus) - 1
            /\ \A k \in 1..Len(R.gst.bus) : R.gst.bus[k] = S.gst.bus[k + 1]
        BY <1>1, <1>2, TailFields
      <4>6. n - 1 \in 1..Len(R.gst.bus) /\ R.gst.bus[n - 1] = S.gst.bus[(n - 1) + 1]
              /\ (n - 1) + 1 = n
        BY <4>4, <4>5
      <4>7. QED
        BY <4>3, <4>6
    <3>4. QED
      BY <1>2, <1>7, <3>1, <3>3 DEF WatchedOk
  <2>3. CASE R.gst.target = "NULL"
    <3>1. /\ ~Loaded(V.gst)
          /\ Resting(V.pl.cur, V.pl.protected, V.fifo, V.item, V.gst, V.client.owed)
      BY <1>7, <2>3, LoadedIsActive DEF Core, PhaseOk, Unopened, Active
    <3>2. AskedOk(V.ctl, V.pl.buf, V.pl.cur, V.idle, V.gst)
      BY <1>2, <1>5, <1>7, <2>3
    <3>3. WatchedOk(V.watcher, V.gst)
      BY <1>2, <1>7, <2>2, <3>1 DEF Loaded
    <3>4. Plain(V)
      BY <1>7, <3>2, <3>3 DEF Plain
    <3>5. ~NoErrors
      BY <1>4, <2>3 DEF Core, CleanOk
    <3>6. T = Bug(V, "BOGUS_TARGET")
      BY <2>1, <2>3
    <3>7. T \in State /\ Plain(T) /\ Alike(V, T)
      BY <1>7, <3>4, <3>5, <3>6, BugFields DEF BugNames
    <3>8. QED
      BY <1>7, <1>9, <3>7, AlikeMoves DEF T, R
  <2>4. CASE R.gst.target # "NULL" /\ pending # "VOID"
    <3>1. T = V
      BY <2>1, <2>4
    <3>2. ~Arrival(m) /\ ~ArrivalInPlaying(m)
      BY <1>3, <2>4 DEF Arrival, ArrivalInPlaying
    <3>3. Plain(V)
      BY <1>5, <1>7, <2>2, <3>2 DEF Plain
    <3>4. Moves(V, V)
      BY <1>7, AlikeMoves DEF Alike
    <3>5. QED
      BY <1>7, <1>9, <3>1, <3>3, <3>4 DEF T, R
  <2>5. CASE R.gst.target = "READY" /\ pending = "VOID"
    <3>1. T = ArrivedInReady(V)
      BY <2>1, <2>5
    <3>2. AskedOk(S.ctl, S.pl.buf, S.pl.cur, S.idle, S.gst)
      BY DEF Plain
    <3>3. /\ V.ctl.status # "STOPPED" \/ V.idle > 0 => V.ctl.activated
          /\ V.pl.cur = None /\ V.ctl.status = "PLAYING" => IsBuffering(V.pl.buf) \/ V.idle > 0
      BY <1>1, <1>2, <1>7, <2>5, <3>2 DEF AskedOk
    <3>4. ~Died(V) /\ V.watcher # "GONE" /\ V.gst.target = "READY"
      BY <1>5, <1>6, <1>7, <2>5 DEF Died
    <3>5. T \in State /\ Plain(T) /\ Moves(V, T)
      BY <1>7, <3>1, <3>3, <3>4, ArrivedInReadyPlain
    <3>6. QED
      BY <1>9, <3>5 DEF T, R
  <2>6. CASE R.gst.target = "PAUSED" /\ pending = "VOID"
    <3> DEFINE A == ActivateStreamAndEmitPauseState(V)
    <3>1. T = EnterPause(A)
      BY <2>1, <2>6
    <3>2. Active(V.gst) /\ V.pl.cur # None
      BY <1>7, <2>6 DEF Active, Core, PhaseOk, Unopened, Resting
    <3>3. A \in State /\ Core(A) /\ SameButItems(V, A)
      BY <1>7, <3>2, ActivateCore DEF Good
    <3> HIDE DEF A
    <3>4. S.gst.state # "PLAYING" \/ S.gst.pending # "VOID"
      BY <1>2, <1>4, <2>6 DEF Core, GstOk, Loaded
    <3>5. Plain(A)
      BY <1>2, <1>5, <1>7, <2>2, <2>6, <3>3, <3>4 DEF Plain, SameButItems
    <3>6. Steered(A, T) /\ T \in State
      BY <3>1, <3>2, <3>3, <3>5, EnterPausePlain DEF SameButItems
    <3>7. Moves(A, T)
      BY <3>3, <3>6, AlikeMoves DEF Steered
    <3>8. A.pl.cur = V.pl.cur /\ A.fifo = V.fifo /\ A.client = V.client
      BY <3>3 DEF SameButItems
    <3>9. Moves(V, T)
      BY <3>7, <3>8, MovesFrom
    <3>10. QED
      BY <1>9, <3>6, <3>9 DEF Steered, T, R
  <2>7. CASE R.gst.target = "PLAYING" /\ pending = "VOID"
    <3> DEFINE A == IF V.pl.justStarted
                    THEN EmitPauseStateIfNotBuffering(V)
                    ELSE ActivateStreamAndEmitPauseState(V)
               B == [A EXCEPT !.pl.justStarted = FALSE]
    <3>1. T = WatchProgress(B)
      BY <2>1, <2>7
    <3>2. Active(V.gst) /\ V.pl.cur # None
      BY <1>7, <2>7 DEF Active, Core, PhaseOk, Unopened, Resting
    <3>3. A \in State /\ Core(A) /\ SameButItems(V, A)
      BY <1>7, <3>2, ActivateCore DEF Good, EmitPauseStateIfNotBuffering, SameButItems
    <3> HIDE DEF A
    <3>4. /\ B \in State /\ Core(B) /\ B.pl.cur = A.pl.cur /\ B.pl.buf = A.pl.buf
          /\ B.ctl = A.ctl /\ B.watcher = A.watcher /\ B.fifo = A.fifo /\ B.gst = A.gst
          /\ B.idle = A.idle /\ B.client = A.client
      BY <3>3, JustStartedFields
    <3> HIDE DEF B
    <3>5. B.watcher \in {"NONE", "RUNNING"}
      BY <1>1, <1>5, <1>7, <3>3, <3>4 DEF SameButItems, State
    <3>6. T = [B EXCEPT !.watcher = "RUNNING"]
      BY <3>1, <3>5 DEF WatchProgress
    <3>7. /\ T \in State /\ Core(T) /\ T.watcher = "RUNNING" /\ T.pl = B.pl /\ T.ctl = B.ctl
          /\ T.fifo = B.fifo /\ T.gst = B.gst /\ T.idle = B.idle /\ T.client = B.client
      BY <3>4, <3>6, WatcherFields
    <3>8. /\ T.gst = R.gst /\ T.pl.cur = V.pl.cur /\ T.pl.buf = R.pl.buf /\ T.ctl = R.ctl
          /\ T.idle = R.idle /\ T.fifo = V.fifo /\ T.client = V.client
      BY <1>7, <3>3, <3>4, <3>7 DEF SameButItems
    <3>9. AskedOk(T.ctl, T.pl.buf, T.pl.cur, T.idle, T.gst)
      BY <1>2, <1>5, <1>7, <2>7, <3>8
    <3>10. WatchedOk(T.watcher, T.gst)
      BY <1>2, <1>5, <3>7, <3>8 DEF WatchedOk
    <3>11. Plain(T)
      BY <3>7, <3>9, <3>10 DEF Plain
    <3>12. Moves(V, T)
      <4>1. Waiting(T) = Waiting(V)
        BY <3>8 DEF Waiting
      <4>2. QED
        BY <1>7, <3>8, <4>1, MovesOn
    <3>13. QED
      BY <1>9, <3>7, <3>11, <3>12 DEF T, R
  <2>8. QED
    BY <1>11, <2>3, <2>4, <2>5, <2>6, <2>7
<1>15. QED
  BY <1>12, <1>13, <1>14 DEF R

-----------------------------------------------------------------------------
(* Choosing the stream to be prefetched *)

LEMMA NextReqFields ==
    ASSUME NEW S \in State, NEW r \in {"NOT_REQUESTED", "REQUESTED", "REQUEST_DEFERRED"}
    PROVE  LET T == [S EXCEPT !.pl.nextReq = r]
           IN  /\ T \in State /\ T.pl.cur = S.pl.cur /\ T.pl.protected = S.pl.protected
               /\ T.pl.buf = S.pl.buf /\ T.pl.nextReq = r
               /\ T.ctl = S.ctl /\ T.watcher = S.watcher /\ T.fifo = S.fifo /\ T.item = S.item
               /\ T.gst = S.gst /\ T.calls = S.calls /\ T.idle = S.idle /\ T.skip = S.skip
               /\ T.threads = S.threads /\ T.client = S.client /\ T.bug = S.bug
               /\ Plain(S) => Plain(T)
<1> DEFINE T == [S EXCEPT !.pl.nextReq = r]
<1>1. /\ T \in State /\ T.pl.cur = S.pl.cur /\ T.pl.protected = S.pl.protected
      /\ T.pl.buf = S.pl.buf /\ T.pl.nextReq = r
      /\ T.ctl = S.ctl /\ T.watcher = S.watcher /\ T.fifo = S.fifo /\ T.item = S.item
      /\ T.gst = S.gst /\ T.calls = S.calls /\ T.idle = S.idle /\ T.skip = S.skip
      /\ T.threads = S.threads /\ T.client = S.client /\ T.bug = S.bug
  BY DEF State, PlType
<1> HIDE DEF T
<1>2. Plain(S) => Plain(T)
  BY <1>1 DEF Core, Plain
<1>3. QED
  BY <1>1, <1>2 DEF T

\* The pipeline is the same, except for its next URI.
SamePipeline(g, h) ==
    /\ h.state = g.state /\ h.pending = g.pending /\ h.target = g.target
    /\ h.curUri = g.curUri /\ h.heard = g.heard
    /\ h.asked = g.asked /\ h.taken = g.taken /\ h.drained = g.drained /\ h.bus = g.bus

\* What remains as it is when the next stream is chosen.
ChosenNext(S, T) ==
    /\ T \in State /\ Plain(T) /\ SamePipeline(S.gst, T.gst)
    /\ T.pl.cur = S.pl.cur /\ T.fifo = S.fifo /\ T.client = S.client

\* The head of the queue is given to the pipeline.
LEMMA GivePlain ==
    ASSUME PlainPlayback, NEW S \in State, QueueOk(S.pl.cur, S.fifo, S.client.owed), Plain(S),
           Loaded(S.gst), ~IsEmpty(S.fifo), S.item[Peek(S.fifo)].state = "IN_QUEUE",
           S.item[S.pl.cur].state \in Announced
    PROVE  ChosenNext(S, PlayNextStream(S, None, Peek(S.fifo), "NULL", FALSE, TRUE).s)
<1> DEFINE c == S.pl.cur
           f == S.fifo
           g == S.gst
           o == S.client.owed
           head == Peek(f)
           A == SetItemState(S, head, "ABOUT_TO_ACTIVATE")
           T == PlayNextStream(S, None, head, "NULL", FALSE, TRUE).s
<1>1. /\ f.queue \in Seq(Streams) /\ f.queue # <<>> /\ c \in Streams \cup {None}
      /\ head = f.queue[1] /\ c \notin Elems(f.queue)
  BY FifoTypes DEF IsEmpty, QueueOk, Peek
<1>2. head \in Streams /\ head # None /\ head # c /\ 1 \in 1..Len(f.queue) /\ head \in Elems(f.queue)
  BY <1>1, HeadOfQueue
<1>3. ~S.item[head].restart
  BY <1>1, <1>2 DEF Plain, Core, RestartOk, Size
<1>4. Steady(c, f, S.item, g, o) /\ g.uri = g.curUri /\ c # None
  BY DEF Plain, Core, PhaseOk, First, Steady, Ahead, HeadIs, Awaited, Announced
<1>5. /\ A \in State
      /\ A.ctl = S.ctl /\ A.pl = S.pl /\ A.watcher = S.watcher /\ A.fail = S.fail
      /\ A.fifo = S.fifo /\ A.gst = S.gst /\ A.calls = S.calls /\ A.idle = S.idle
      /\ A.skip = S.skip /\ A.threads = S.threads /\ A.client = S.client
      /\ A.bug = S.bug
      /\ A.item[head].state = "ABOUT_TO_ACTIVATE"
      /\ \A j \in Streams : j # head => A.item[j] = S.item[j]
      /\ \A j \in Streams : /\ A.item[j].selected = S.item[j].selected
                            /\ A.item[j].resolving = S.item[j].resolving
                            /\ A.item[j].restart = S.item[j].restart
                            /\ A.item[j].realtime = S.item[j].realtime
                            /\ A.item[j].prefailed = S.item[j].prefailed
  <2> HIDE DEF head
  <2>1. "ABOUT_TO_ACTIVATE" \in ItemStates
    BY DEF ItemStates
  <2>2. QED
    BY <1>2, <2>1, SetStateFields
<1>6. ItemsPlain(A.item)
  BY <1>5 DEF ItemsPlain, Plain, Core
<1>7. T = [A EXCEPT !.gst.uri = UriOf(head), !.pl.nextReq = "NOT_REQUESTED"]
  <2>1. T = ResolveSelectedUrlOrPlayUri(A, head, "NULL", TRUE).s
    BY DEF PlayNextStream
  <2> HIDE DEF A, T
  <2>2. UrlState(head, A.item[head]) = "KNOWN_DIRECT_URL" /\ UrlForPlaying(head, A.item[head]) = UriOf(head)
    BY <1>2, <1>5, <1>6, UrlIsKnown
  <2>3. T = OnLinkResolved(A, head, "NULL", TRUE).s
    BY <2>1, <2>2 DEF ResolveSelectedUrlOrPlayUri
  <2>4. ~A.item[head].restart
    BY <1>2, <1>3, <1>5
  <2>5. QED
    BY <2>2, <2>3, <2>4 DEF OnLinkResolved
<1> HIDE DEF A, T
<1>8. UriOf(head) \in Uris
  BY <1>2 DEF UriOf, Uris
<1>9. /\ T \in State /\ T.gst = [g EXCEPT !.uri = UriOf(head)]
      /\ T.pl.cur = c /\ T.pl.buf = S.pl.buf /\ T.pl.protected = S.pl.protected
      /\ T.item = A.item /\ T.fifo = f /\ T.client = S.client /\ T.ctl = S.ctl
      /\ T.watcher = S.watcher /\ T.idle = S.idle /\ T.calls = S.calls /\ T.skip = S.skip
      /\ T.threads = S.threads /\ T.bug = S.bug
  BY <1>5, <1>7, <1>8 DEF State, PlType, GstType
<1>10. T.gst.uri = UriOf(head) /\ SamePipeline(g, T.gst)
  BY <1>9 DEF State, GstType, SamePipeline
<1>11. (Loaded(T.gst) <=> Loaded(g)) /\ \A kind : OnBus(T.gst, kind) <=> OnBus(g, kind)
  BY <1>10 DEF Loaded, Prerolling, OnBus, SamePipeline
<1>12. GstOk(T.gst) /\ BusOk(T.gst)
  <2>1. BusOk(T.gst)
    BY <1>10, <1>11, SameBus DEF SamePipeline, Plain, Core
  <2>2. QED
    BY <1>10, <1>11, <2>1 DEF GstOk, SamePipeline, Plain, Core
<1>13. RestartOk(c, f, T.item, T.gst)
  <2>1. \A n \in 1..Len(f.queue) : f.queue[n] \in Streams
    BY <1>1
  <2>2. QED
    BY <1>5, <1>9, <1>11, <2>1, SMTT(30) DEF RestartOk, Size, Plain, Core
<1>14. PhaseOk(c, T.pl.protected, f, T.item, T.gst, o)
  <2>1. c \in Streams /\ T.item[c] = S.item[c]
    BY <1>1, <1>2, <1>4, <1>5, <1>9
  <2>2. Steady(c, f, T.item, T.gst, o)
    BY <1>4, <1>5, <1>9, <1>10, <1>11, <2>1 DEF Steady, SamePipeline, HeadIs
  <2>3. QED
    BY <1>4, <1>11, <2>2 DEF PhaseOk
<1>15. BoostOk(c, T.item, T.pl.buf, T.gst, T.threads)
  <2>1. c \in Streams /\ T.item[c] = S.item[c]
    BY <1>1, <1>2, <1>4, <1>5, <1>9
  <2>2. QED
    BY <1>5, <1>9, <1>11, <2>1 DEF BoostOk, Plain, Core
<1>16. AskedOk(T.ctl, T.pl.buf, c, T.idle, T.gst) /\ WatchedOk(T.watcher, T.gst)
  <2>1. AskedOk(T.ctl, T.pl.buf, c, T.idle, T.gst)
    BY <1>9, <1>10 DEF AskedOk, SamePipeline, Plain
  <2>2. WatchedOk(T.watcher, T.gst)
    BY <1>9, <1>10, <1>11 DEF WatchedOk, SamePipeline, Plain
  <2>3. QED
    BY <2>1, <2>2
<1>17. CleanOk(T.gst, T.bug)
  BY <1>9, <1>10, <1>11 DEF CleanOk, SamePipeline, Plain, Core
<1>18. Plain(T)
  BY <1>5, <1>6, <1>9, <1>12, <1>13, <1>14, <1>15, <1>16, <1>17 DEF Plain, Core
<1>19. QED
  BY <1>9, <1>10, <1>18 DEF ChosenNext, T

LEMMA QueueStreamPlain ==
    ASSUME PlainPlayback, NEW S \in State, QueueOk(S.pl.cur, S.fifo, S.client.owed), Plain(S),
           Loaded(S.gst), S.pl.nextReq = "REQUESTED"
    PROVE  ChosenNext(S, QueueStreamFromUrlFifo(S))
<1> DEFINE c == S.pl.cur
           st == S.item[c].state
           T == QueueStreamFromUrlFifo(S)
           head == Peek(S.fifo)
<1>1. /\ c # None /\ c \in Streams /\ st \in Awaited \cup Announced
      /\ ~IsEmpty(S.fifo) /\ st \in Announced =>
           S.item[head].state \in {"IN_QUEUE", "ABOUT_TO_ACTIVATE"}
  <2>1. c # None /\ st \in Awaited \cup Announced
    BY DEF Plain, Core, PhaseOk, First, Steady, Ahead
  <2>2. ~IsEmpty(S.fifo) => S.item[head].state \in {"IN_QUEUE", "ABOUT_TO_ACTIVATE"}
    BY DEF Plain, Core, PhaseOk, First, Steady, Ahead, HeadIs
  <2>3. QED
    BY <2>1, <2>2, FifoTypes
<1>2. Active(S.gst)
  BY LoadedIsActive DEF Plain, Core
<1>3. SamePipeline(S.gst, S.gst) /\ ChosenNext(S, S)
  BY DEF SamePipeline, ChosenNext
<1>4. CASE st \in Awaited
  <2>1. PickNextItem(S) = [id |-> c, inFifo |-> FALSE]
    BY <1>1, <1>4 DEF PickNextItem, Awaited
  <2>2. T = PlayNextStream(S, c, c, "NULL", FALSE, TRUE).s
    <3>1. PickNextItem(S).id = c /\ ~PickNextItem(S).inFifo
      BY <2>1
    <3>2. QED
      BY <1>1, <3>1 DEF QueueStreamFromUrlFifo
  <2>3. T = S \/ T = Bug(S, "UNEXPECTED_STREAM_STATE")
    BY <1>1, <1>4, <2>2 DEF PlayNextStream, Awaited
  <2>4. ChosenNext(S, Bug(S, "UNEXPECTED_STREAM_STATE"))
    BY BugFields DEF BugNames, Fatal, ChosenNext, SamePipeline
  <2>5. QED
    BY <1>3, <2>3, <2>4
<1>5. CASE st \in Announced /\ IsEmpty(S.fifo)
  <2>1. PickNextItem(S).id = None
    BY <1>5 DEF PickNextItem, Announced
  <2>2. T = SetItemState(S, c, "ABOUT_TO_PHASE_OUT")
    BY <1>1, <2>1 DEF QueueStreamFromUrlFifo
  <2>3. T \in State /\ Core(T) /\ SameButItems(S, T)
    BY <1>1, <1>2, <1>5, <2>2, CurrentStateCore DEF Plain, Announced, ItemStates
  <2>4. QED
    BY <2>3 DEF Plain, SameButItems, ChosenNext, SamePipeline
<1>6. CASE st \in Announced /\ ~IsEmpty(S.fifo)
  <2>1. PickNextItem(S) = [id |-> head, inFifo |-> TRUE]
    BY <1>6 DEF PickNextItem, Announced
  <2>2. head # None
    BY <1>6, FifoTypes, HeadOfQueue DEF IsEmpty, Peek
  <2>3. T = PlayNextStream(S, None, head, "NULL", FALSE, TRUE).s
    BY <2>1, <2>2 DEF QueueStreamFromUrlFifo
  <2>4. CASE S.item[head].state = "IN_QUEUE"
    BY <1>6, <2>3, <2>4, GivePlain
  <2>5. CASE S.item[head].state = "ABOUT_TO_ACTIVATE"
    <3>1. T = [S EXCEPT !.pl.nextReq = "REQUEST_DEFERRED"]
      BY <2>3, <2>5 DEF PlayNextStream
    <3> HIDE DEF T
    <3>2. /\ T \in State /\ Plain(T) /\ T.pl.cur = S.pl.cur /\ T.fifo = S.fifo
          /\ T.client = S.client /\ T.gst = S.gst
      BY <3>1, NextReqFields
    <3>3. QED
      BY <3>2 DEF ChosenNext, SamePipeline, T
  <2>6. QED
    BY <1>1, <1>6, <2>4, <2>5
<1>7. QED
  BY <1>1, <1>4, <1>5, <1>6

-----------------------------------------------------------------------------
(* Start of a stream *)

\* The stream whose start is reported is announced; it is the one to be played first.
Announces(S, T) ==
    /\ S.gst.bus # <<>>
    /\ T.client.told \in Streams
    /\ S.gst.bus[1] = StreamStart(UriOf(T.client.told))
    /\ Waiting(S) = <<T.client.told>> \o Waiting(T)

\* Which stream has started.
Started(S, id, q) ==
    \/ /\ First(S.pl.cur, S.fifo, S.item, S.gst, S.client.owed)
       /\ id = S.pl.cur /\ q = S.fifo.queue
    \/ /\ Ahead(S.pl.cur, S.fifo, S.item, S.gst, S.client.owed)
       /\ id = Peek(S.fifo) /\ q = Tail(S.fifo.queue)

LEMMA StartedFacts ==
    ASSUME NEW S \in State, Good(S), Plain(S), S.gst.bus # <<>>,
           S.gst.bus[1][1] = "STREAM_START", NEW id, NEW q, Started(S, id, q)
    PROVE  /\ id \in Streams /\ id # None /\ q \in Seq(Streams) /\ Len(q) <= MaxItems
           /\ S.gst.curUri = UriOf(id) /\ S.gst.uri = UriOf(id) /\ S.gst.heard = UriOf(id)
           /\ S.gst.bus[1] = StreamStart(UriOf(id)) /\ Loaded(S.gst)
           /\ Waiting(S) = <<id>> \o q
           /\ Distinct(q) /\ id \notin Elems(q) /\ Elems(q) \subseteq S.client.owed \ {id}
           /\ S.client.owed \ {id} \subseteq Elems(q)
           /\ \A n \in 1..Len(q) : q[n] \in Streams /\ q[n] # id /\ ~S.item[q[n]].restart
           /\ q # <<>> => S.item[q[1]].state = "IN_QUEUE"
<1> DEFINE c == S.pl.cur
           f == S.fifo
           g == S.gst
           o == S.client.owed
<1>1. /\ 1 \in 1..Len(g.bus) /\ g.bus[1] \in Messages
  <2>1. g \in GstType
    BY DEF State
  <2>2. g.bus \in Seq(Messages)
    BY <2>1 DEF GstType
  <2>3. QED
    BY <2>2
<1>2. Loaded(g) /\ g.bus[1][2] = g.curUri /\ g.heard = g.curUri /\ OnBus(g, "STREAM_START")
  BY <1>1 DEF Plain, Core, BusOk, OnBus
<1>3. g.bus[1] = StreamStart(g.curUri)
  BY <1>1, <1>2 DEF Messages, StreamStart, StateChanged, ErrorMessage, BufferingMessage,
     EndOfStream, VideoDecoderFound, ClockLost, AsyncDone
<1>4. /\ f.queue \in Seq(Streams) /\ c \in Streams \cup {None} /\ c \notin Elems(f.queue)
      /\ Distinct(f.queue) /\ Elems(f.queue) \subseteq o /\ Len(f.queue) <= MaxItems
      /\ o \subseteq Elems(f.queue) \cup {c}
      /\ \A n \in 1..Len(f.queue) : f.queue[n] \in Streams /\ ~S.item[f.queue[n]].restart
  BY <1>2, FifoTypes DEF Good, QueueOk, Plain, Core, QueuePlain, Size, RestartOk
<1>5. c # None
  BY <1>2 DEF Plain, Core, PhaseOk
<1>6. CASE First(c, f, S.item, g, o) /\ id = c /\ q = f.queue
  <2>1. g.curUri = UriOf(id) /\ g.uri = UriOf(id) /\ c \in o
    BY <1>6 DEF First
  <2>2. Waiting(S) = <<id>> \o q
    BY <1>6, <2>1 DEF Waiting
  <2>3. \A n \in 1..Len(q) : q[n] # id
    BY <1>4, <1>6 DEF Elems
  <2>4. q # <<>> => S.item[q[1]].state = "IN_QUEUE"
    BY <1>6 DEF First, HeadIs, IsEmpty, Peek
  <2>5. Elems(q) \subseteq o \ {id} /\ o \ {id} \subseteq Elems(q)
    BY <1>4, <1>6
  <2>6. QED
    BY <1>2, <1>3, <1>4, <1>5, <1>6, <2>1, <2>2, <2>3, <2>4, <2>5
<1>7. CASE Ahead(c, f, S.item, g, o) /\ id = Peek(f) /\ q = Tail(f.queue)
  <2>1. /\ g.curUri = UriOf(id) /\ g.uri = UriOf(id) /\ c \notin o /\ f.queue # <<>>
        /\ ~IsEmpty(f)
    BY <1>7 DEF Ahead, IsEmpty
  <2>2. Waiting(S) = f.queue
    BY <1>4, <2>1 DEF Waiting
  <2>3. id \in Streams /\ id # None /\ q \in Seq(Streams) /\ Elems(f.queue) = Elems(q) \cup {id}
        /\ Distinct(q) /\ id \notin Elems(q)
    BY <1>4, <1>7, <2>1, HeadOfQueue DEF Peek
  <2>4. <<id>> \o q = f.queue /\ Len(q) = Len(f.queue) - 1 /\ Len(f.queue) \in Nat /\ Len(q) \in Nat
        /\ \A n \in 1..Len(q) : q[n] = f.queue[n + 1] /\ n + 1 \in 1..Len(f.queue)
    BY <1>4, <1>7, <2>1, <2>3, Suffixes DEF Peek
  <2>5. ASSUME NEW n \in 1..Len(q)
        PROVE  q[n] # id /\ q[n] \in Streams /\ ~S.item[q[n]].restart
    <3>1. q[n] = f.queue[n + 1] /\ n + 1 \in 1..Len(f.queue)
      BY <2>4
    <3>2. q[n] \in Streams /\ ~S.item[q[n]].restart
      BY <1>4, <3>1
    <3>3. q[n] \in Elems(q)
      BY DEF Elems
    <3>4. QED
      BY <2>3, <3>2, <3>3
  <2>6. q # <<>> => S.item[q[1]].state = "IN_QUEUE"
    BY <1>7, <2>1, PopFacts DEF HeadIs, IsEmpty, Peek
  <2>7. Len(q) <= MaxItems
    BY <1>4, <2>4, MaxItemsAssumption
  <2>8. Elems(q) \subseteq o \ {id} /\ o \ {id} \subseteq Elems(q)
    BY <1>4, <2>1, <2>3
  <2>9. QED
    BY <1>2, <1>3, <2>1, <2>2, <2>3, <2>4, <2>5, <2>6, <2>7, <2>8
<1>8. QED
  BY <1>6, <1>7 DEF Started

\* The stream is announced, and everything else remains as it is.
AnnouncedAs(S, U, id, q) ==
    /\ U \in State
    /\ U.pl.cur = id /\ U.pl.buf = S.pl.buf /\ U.pl.protected = S.pl.protected
    /\ U.fifo.queue = q /\ U.fifo.removed = <<>> /\ U.fifo.dropped = {}
    /\ U.gst = Taken(S).gst
    /\ U.item[id].state \in Announced
    /\ \A j \in Streams : j # id => U.item[j].state = S.item[j].state
    /\ \A j \in Streams : /\ U.item[j].selected = S.item[j].selected
                          /\ U.item[j].resolving = S.item[j].resolving
                          /\ U.item[j].restart = S.item[j].restart
                          /\ U.item[j].realtime = S.item[j].realtime
    /\ U.client.told = id /\ U.client.owed = S.client.owed \ {id}
    /\ U.ctl = S.ctl /\ U.watcher = S.watcher /\ U.calls = S.calls /\ U.idle = S.idle
    /\ U.skip = S.skip /\ U.bug = S.bug /\ (LocalFiles => U.threads.boosted)

LEMMA AnnouncedPlain ==
    ASSUME NEW S \in State, Good(S), Plain(S), S.gst.bus # <<>>,
           S.gst.bus[1][1] = "STREAM_START", NEW id, NEW q, Started(S, id, q),
           NEW U, AnnouncedAs(S, U, id, q)
    PROVE  /\ Plain(U) /\ Announces(S, U) /\ Loaded(U.gst)
           /\ QueueOk(U.pl.cur, U.fifo, U.client.owed)
<1> DEFINE R == Taken(S)
           g == S.gst
           h == R.gst
<1>1. /\ id \in Streams /\ id # None /\ q \in Seq(Streams) /\ Len(q) <= MaxItems
      /\ g.curUri = UriOf(id) /\ g.uri = UriOf(id) /\ g.heard = UriOf(id)
      /\ g.bus[1] = StreamStart(UriOf(id)) /\ Loaded(g)
      /\ Waiting(S) = <<id>> \o q
      /\ Distinct(q) /\ id \notin Elems(q) /\ Elems(q) \subseteq S.client.owed \ {id}
      /\ S.client.owed \ {id} \subseteq Elems(q)
      /\ \A n \in 1..Len(q) : q[n] \in Streams /\ q[n] # id /\ ~S.item[q[n]].restart
      /\ q # <<>> => S.item[q[1]].state = "IN_QUEUE"
  BY StartedFacts
<1>2. g \in GstType /\ h = [g EXCEPT !.bus = Tail(@)]
      /\ R.ctl = S.ctl /\ R.pl = S.pl /\ R.watcher = S.watcher
      /\ R.fifo = S.fifo /\ R.item = S.item /\ R.calls = S.calls /\ R.idle = S.idle
      /\ R.skip = S.skip /\ R.threads = S.threads /\ R.client = S.client /\ R.bug = S.bug
  BY TakenFields DEF State
<1>3. /\ ItemsPlain(R.item) /\ R.calls = {} /\ ~R.skip /\ GstOk(h) /\ BusOk(h)
      /\ BoostOk(R.pl.cur, R.item, R.pl.buf, h, R.threads) /\ CleanOk(h, R.bug)
  BY TakenCore
<1>4. AskedOk(R.ctl, R.pl.buf, R.pl.cur, R.idle, h) /\ WatchedOk(R.watcher, h)
  BY TakenWaits DEF Arrival, ArrivalInPlaying
<1> HIDE DEF R, g, h
<1> USE DEF AnnouncedAs
<1>5. /\ Loaded(h) /\ h.uri = UriOf(id) /\ h.curUri = UriOf(id) /\ h.heard = UriOf(id)
  BY <1>1, <1>2, TailFields DEF g
<1>6. ~OnBus(h, "STREAM_START")
  BY <1>2, TailBus DEF g, Plain, Core
<1>7. U.gst = h
  BY DEF h, R
<1>8. ItemsPlain(U.item)
  BY <1>2, <1>3 DEF ItemsPlain
<1>9. QueuePlain(id, U.fifo, U.client.owed)
  BY <1>1 DEF QueuePlain, Size
<1>10. RestartOk(id, U.fifo, U.item, h)
  BY <1>1 DEF RestartOk, Size
<1>11. Steady(id, U.fifo, U.item, h, U.client.owed)
  <2>1. HeadIs(U.fifo, U.item, "IN_QUEUE")
    <3>1. ASSUME q # <<>> PROVE U.item[q[1]].state = "IN_QUEUE"
      <4>1. 1 \in 1..Len(q)
        BY <1>1, <3>1
      <4>2. QED
        BY <1>1, <3>1, <4>1
    <3>2. QED
      BY <3>1 DEF HeadIs, IsEmpty, Peek
  <2>2. QED
    BY <1>5, <1>6, <2>1 DEF Steady
<1>12. PhaseOk(id, U.pl.protected, U.fifo, U.item, h, U.client.owed)
  BY <1>1, <1>5, <1>11 DEF PhaseOk
<1>13. BoostOk(id, U.item, U.pl.buf, h, U.threads)
  BY <1>2, <1>3 DEF BoostOk
<1>14. AskedOk(U.ctl, U.pl.buf, id, U.idle, h)
  BY <1>1, <1>2, <1>4 DEF AskedOk
<1>15. Plain(U)
  BY <1>2, <1>3, <1>4, <1>7, <1>8, <1>9, <1>10, <1>12, <1>13, <1>14 DEF Plain, Core
<1>16. Waiting(U) = q
  BY <1>1 DEF Waiting
<1>17. Announces(S, U)
  BY <1>1, <1>16 DEF Announces, g
<1>18. QueueOk(id, U.fifo, U.client.owed)
  BY <1>1 DEF QueueOk, DroppedIds, Elems
<1>19. QED
  BY <1>5, <1>7, <1>15, <1>17, <1>18

LEMMA BoostFields ==
    ASSUME NEW S \in State, NEW allowed
    PROVE  LET T == Boost(S, allowed)
           IN  /\ T \in State /\ (allowed => T.threads.boosted)
               /\ (S.threads.boosted => T.threads.boosted)
               /\ T.ctl = S.ctl /\ T.pl = S.pl /\ T.watcher = S.watcher /\ T.fifo = S.fifo
               /\ T.item = S.item /\ T.gst = S.gst /\ T.calls = S.calls /\ T.idle = S.idle
               /\ T.skip = S.skip /\ T.client = S.client /\ T.bug = S.bug
<1> DEFINE T == Boost(S, allowed)
           th == BT!Boost(S.threads)
<1>1. th \in ThreadsType
  BY BoostThreads DEF State
<1>2. th.boosted
  BY DEF State, ThreadsType, BT!Boost, BT!ConfigureAll
<1> HIDE DEF th
<1>3. CASE allowed
  <2>1. T = [S EXCEPT !.threads = th]
    BY <1>3 DEF Boost, th
  <2> HIDE DEF T
  <2>2. QED
    BY <1>1, <1>2, <2>1 DEF State, T
<1>4. CASE ~allowed
  BY <1>4 DEF Boost
<1>5. QED
  BY <1>3, <1>4

\* The last part of handle_start_of_stream(), after the stream has been found.
Announce(A) ==
    LET active == ActivateStream(A, 2)
    IN  IF active.res = "ACTIVATED" THEN EmitNowPlaying(active.s) ELSE active.s

LEMMA AnnounceFields ==
    ASSUME NEW S \in State, NEW i \in Streams, S.pl.cur = i, S.fifo.removed = <<>>, S.fifo.dropped = {}
    PROVE  LET U == Announce(SetItemState(S, i, "ACTIVE_HALF_PLAYING"))
           IN  /\ U \in State /\ U.pl = S.pl /\ U.gst = S.gst
               /\ U.fifo.queue = S.fifo.queue /\ U.fifo.removed = <<>> /\ U.fifo.dropped = {}
               /\ U.item[i].state \in Announced
               /\ \A j \in Streams : j # i => U.item[j].state = S.item[j].state
               /\ \A j \in Streams : /\ U.item[j].selected = S.item[j].selected
                                     /\ U.item[j].resolving = S.item[j].resolving
                                     /\ U.item[j].restart = S.item[j].restart
                                     /\ U.item[j].realtime = S.item[j].realtime
               /\ U.client.told = i /\ U.client.owed = S.client.owed \ {i}
               /\ U.ctl = S.ctl /\ U.watcher = S.watcher /\ U.calls = S.calls /\ U.idle = S.idle
               /\ U.skip = S.skip /\ U.bug = S.bug /\ U.threads = S.threads
<1> DEFINE A == SetItemState(S, i, "ACTIVE_HALF_PLAYING")
           new == IF IsEmpty(A.fifo) THEN "ABOUT_TO_PHASE_OUT" ELSE "ACTIVE_NOW_PLAYING"
           B == SetItemState(A, i, new)
           C == Tell(B, {i})
           U == Announce(A)
<1>1. /\ A \in State /\ A.ctl = S.ctl /\ A.pl = S.pl /\ A.watcher = S.watcher
      /\ A.fifo = S.fifo /\ A.gst = S.gst /\ A.calls = S.calls /\ A.idle = S.idle
      /\ A.skip = S.skip /\ A.threads = S.threads /\ A.client = S.client /\ A.bug = S.bug
      /\ A.item[i].state = "ACTIVE_HALF_PLAYING"
      /\ \A j \in Streams : j # i => A.item[j] = S.item[j]
      /\ \A j \in Streams : /\ A.item[j].selected = S.item[j].selected
                            /\ A.item[j].resolving = S.item[j].resolving
                            /\ A.item[j].restart = S.item[j].restart
                            /\ A.item[j].realtime = S.item[j].realtime
  <2>1. "ACTIVE_HALF_PLAYING" \in ItemStates
    BY DEF ItemStates
  <2>2. QED
    BY <2>1, SetStateFields
<1> HIDE DEF A
<1>2. i # None
  BY StreamsAssumption DEF None
<1>3. new \in ItemStates /\ new \in Announced
  BY DEF ItemStates, Announced
<1>4. ActivateStream(A, 2) = [s |-> B, res |-> "ACTIVATED"]
  BY <1>1, <1>2 DEF ActivateStream
<1> HIDE DEF new
<1>5. /\ B \in State /\ B.ctl = A.ctl /\ B.pl = A.pl /\ B.watcher = A.watcher
      /\ B.fifo = A.fifo /\ B.gst = A.gst /\ B.calls = A.calls /\ B.idle = A.idle
      /\ B.skip = A.skip /\ B.threads = A.threads /\ B.client = A.client /\ B.bug = A.bug
      /\ B.item[i].state = new
      /\ \A j \in Streams : j # i => B.item[j] = A.item[j]
      /\ \A j \in Streams : /\ B.item[j].selected = A.item[j].selected
                            /\ B.item[j].resolving = A.item[j].resolving
                            /\ B.item[j].restart = A.item[j].restart
                            /\ B.item[j].realtime = A.item[j].realtime
  BY <1>1, <1>3, SetStateFields
<1> HIDE DEF B
<1>6. /\ C \in State /\ C.ctl = B.ctl /\ C.pl = B.pl /\ C.gst = B.gst
      /\ C.fifo.queue = B.fifo.queue /\ C.fifo.removed = <<>> /\ C.fifo.dropped = {}
      /\ C.client.owed = B.client.owed \ ({i} \cup DroppedIds(B.fifo))
      /\ C.threads = B.threads
      /\ C.item = B.item /\ C.calls = B.calls /\ C.skip = B.skip /\ C.idle = B.idle
      /\ C.watcher = B.watcher /\ C.bug = B.bug
  BY <1>5, TellFields
<1>7. U = [C EXCEPT !.client.told = i]
  <2>1. ActivateStream(A, 2).s = B /\ ActivateStream(A, 2).res = "ACTIVATED"
    BY <1>4
  <2>2. U = EmitNowPlaying(B)
    BY <2>1 DEF Announce
  <2>3. B.pl.cur = i
    BY <1>1, <1>5
  <2>4. QED
    BY <2>2, <2>3 DEF EmitNowPlaying
<1> HIDE DEF C, U
<1>8. /\ U \in State /\ U.client.told = i /\ U.client.owed = C.client.owed
      /\ U.ctl = C.ctl /\ U.pl = C.pl /\ U.gst = C.gst /\ U.fifo = C.fifo
      /\ U.threads = C.threads
      /\ U.item = C.item /\ U.calls = C.calls /\ U.skip = C.skip /\ U.idle = C.idle
      /\ U.watcher = C.watcher /\ U.bug = C.bug
  BY <1>6, <1>7 DEF State, ClientType
<1>9. DroppedIds(B.fifo) = {}
  BY <1>1, <1>5 DEF DroppedIds, Elems
<1>10. U.client.owed = S.client.owed \ {i}
  BY <1>1, <1>5, <1>6, <1>8, <1>9
<1>11. /\ U \in State /\ U.pl = S.pl /\ U.gst = S.gst
       /\ U.fifo.queue = S.fifo.queue /\ U.fifo.removed = <<>> /\ U.fifo.dropped = {}
       /\ U.client.told = i
       /\ U.ctl = S.ctl /\ U.watcher = S.watcher /\ U.calls = S.calls /\ U.idle = S.idle
       /\ U.skip = S.skip /\ U.bug = S.bug /\ U.threads = S.threads
  BY <1>1, <1>5, <1>6, <1>8
<1>12. /\ U.item[i].state \in Announced
       /\ \A j \in Streams : j # i => U.item[j].state = S.item[j].state
       /\ \A j \in Streams : /\ U.item[j].selected = S.item[j].selected
                             /\ U.item[j].resolving = S.item[j].resolving
                             /\ U.item[j].restart = S.item[j].restart
                             /\ U.item[j].realtime = S.item[j].realtime
  BY <1>1, <1>3, <1>5, <1>6, <1>8
<1>13. QED
  BY <1>10, <1>11, <1>12 DEF U, A

LEMMA HandleStartOfStreamPlain ==
    ASSUME PlainPlayback, NEW S \in State, Good(S), Plain(S), S.gst.bus # <<>>,
           S.gst.bus[1][1] = "STREAM_START"
    PROVE  LET T == HandleStartOfStream(Taken(S))
           IN  T \in State /\ Plain(T) /\ Announces(S, T)
<1> DEFINE R == Taken(S)
           T == HandleStartOfStream(R)
           c == S.pl.cur
           allowed == ~IsBuffering(R.pl.buf) /\ R.item[R.pl.cur].realtime
           fast == Boost(R, allowed)
<1>1. /\ R \in State /\ R.gst = [S.gst EXCEPT !.bus = Tail(@)]
      /\ R.ctl = S.ctl /\ R.pl = S.pl /\ R.watcher = S.watcher
      /\ R.fifo = S.fifo /\ R.item = S.item /\ R.calls = S.calls /\ R.idle = S.idle
      /\ R.skip = S.skip /\ R.threads = S.threads /\ R.client = S.client /\ R.bug = S.bug
  BY TakenFields
<1>2. /\ Loaded(S.gst) /\ OnBus(S.gst, "STREAM_START") /\ c # None /\ c \in Streams
  <2>1. S.gst.bus \in Seq(Messages)
    BY DEF State, GstType
  <2>2. 1 \in 1..Len(S.gst.bus)
    BY <2>1
  <2>3. Loaded(S.gst) /\ OnBus(S.gst, "STREAM_START")
    BY <2>2 DEF Plain, Core, BusOk, OnBus
  <2>4. QED
    BY <2>3, FifoTypes DEF Plain, Core, PhaseOk
<1>3. \/ First(c, S.fifo, S.item, S.gst, S.client.owed)
      \/ Ahead(c, S.fifo, S.item, S.gst, S.client.owed)
  BY <1>2 DEF Plain, Core, PhaseOk, Steady
<1> HIDE DEF R
<1>4. /\ fast \in State /\ (LocalFiles => fast.threads.boosted)
      /\ fast.ctl = R.ctl /\ fast.pl = R.pl /\ fast.watcher = R.watcher /\ fast.fifo = R.fifo
      /\ fast.item = R.item /\ fast.gst = R.gst /\ fast.calls = R.calls /\ fast.idle = R.idle
      /\ fast.skip = R.skip /\ fast.client = R.client /\ fast.bug = R.bug
  <2>1. LocalFiles => allowed
    BY <1>1, <1>2 DEF Plain, Core, BoostOk
  <2> HIDE DEF allowed
  <2>2. QED
    BY <1>1, <2>1, BoostFields
<1> HIDE DEF fast
<1>5. S.fifo.removed = <<>> /\ S.fifo.dropped = {}
  BY DEF Plain, Core, QueuePlain
<1>6. \E A \in State, id \in Streams, q \in Seq(Streams) :
          /\ Started(S, id, q) /\ A.pl.cur = id /\ A.fifo.queue = q
          /\ A.fifo.removed = <<>> /\ A.fifo.dropped = {}
          /\ A.pl.buf = S.pl.buf /\ A.pl.protected = S.pl.protected
          /\ A.gst = R.gst /\ A.item = S.item /\ A.client = S.client /\ A.ctl = S.ctl
          /\ A.watcher = S.watcher /\ A.calls = S.calls /\ A.idle = S.idle /\ A.skip = S.skip
          /\ A.bug = S.bug /\ A.threads = fast.threads
          /\ LET U == Announce(SetItemState(A, id, "ACTIVE_HALF_PLAYING"))
             IN  T = U \/ T = QueueStreamFromUrlFifo([U EXCEPT !.pl.nextReq = "REQUESTED"])
  <2>1. CASE First(c, S.fifo, S.item, S.gst, S.client.owed)
    <3>1. S.item[c].state \in Awaited /\ HeadIs(S.fifo, S.item, "IN_QUEUE")
      BY <2>1 DEF First
    <3>2. PickNextItem(R).id = c /\ ~PickNextItem(R).inFifo
      BY <1>1, <1>2, <3>1 DEF PickNextItem, Awaited
    <3> DEFINE r == R.pl.nextReq = "REQUEST_DEFERRED"
                      /\ R.item[c].state \notin {"ACTIVE_HALF_PLAYING", "ACTIVE_NOW_PLAYING"}
               U == Announce(SetItemState(fast, c, "ACTIVE_HALF_PLAYING"))
    <3>3. T = IF r THEN QueueStreamFromUrlFifo([U EXCEPT !.pl.nextReq = "REQUESTED"]) ELSE U
      BY <1>1, <1>2, <3>1, <3>2 DEF HandleStartOfStream, Awaited, HeadIs, Announce, fast
    <3>4. Started(S, c, S.fifo.queue) /\ S.fifo.queue \in Seq(Streams)
      BY <2>1, FifoTypes DEF Started
    <3>5. T = U \/ T = QueueStreamFromUrlFifo([U EXCEPT !.pl.nextReq = "REQUESTED"])
      BY <3>3
    <3> HIDE DEF T
    <3> fast \in State /\ c \in Streams /\ S.fifo.queue \in Seq(Streams)
      BY <1>2, <1>4, <3>4
    <3>6. WITNESS fast \in State, c \in Streams, S.fifo.queue \in Seq(Streams)
    <3>7. QED
      BY <1>1, <1>4, <1>5, <3>4, <3>5
  <2>2. CASE Ahead(c, S.fifo, S.item, S.gst, S.client.owed)
    <3> DEFINE head == Peek(S.fifo)
               A == PopToCurrent(fast)
    <3>1. /\ S.item[c].state \in Announced /\ ~IsEmpty(S.fifo)
          /\ S.item[head].state = "ABOUT_TO_ACTIVATE"
      BY <2>2 DEF Ahead, HeadIs
    <3>2. head \in Streams /\ head # None /\ S.fifo.queue # <<>>
      BY <3>1, FifoTypes, HeadOfQueue DEF IsEmpty, Peek
    <3>3. PickNextItem(R).id = head /\ PickNextItem(R).inFifo
      BY <1>1, <1>2, <3>1 DEF PickNextItem, Announced
    <3> DEFINE r == R.pl.nextReq = "REQUEST_DEFERRED"
                      /\ R.item[head].state \notin {"ACTIVE_HALF_PLAYING", "ACTIVE_NOW_PLAYING"}
               U == Announce(SetItemState(A, head, "ACTIVE_HALF_PLAYING"))
    <3>4. T = IF r THEN QueueStreamFromUrlFifo([U EXCEPT !.pl.nextReq = "REQUESTED"]) ELSE U
      <4> HIDE DEF head
      <4>1. QED
        BY <1>1, <1>2, <3>1, <3>2, <3>3 DEF HandleStartOfStream, Announce, fast
    <3>5. Started(S, head, Tail(S.fifo.queue)) /\ Tail(S.fifo.queue) \in Seq(Streams)
      BY <2>2, <3>2, FifoTypes, HeadOfQueue DEF Started
    <3>6. Pop(S.fifo) \in FifoType(Streams) /\ Pop(S.fifo).queue = Tail(S.fifo.queue)
          /\ Pop(S.fifo).removed = <<>> /\ Pop(S.fifo).dropped = {}
      BY <1>5, <3>1, PopFacts
    <3>7. A = [fast EXCEPT !.pl.cur = head, !.fifo = Pop(S.fifo)]
      BY <1>1, <1>4, <3>1 DEF PopToCurrent
    <3> HIDE DEF A, head
    <3>8. /\ A \in State /\ A.pl.cur = head /\ A.fifo = Pop(S.fifo)
          /\ A.pl.buf = S.pl.buf /\ A.pl.protected = S.pl.protected
          /\ A.gst = R.gst /\ A.item = S.item /\ A.client = S.client /\ A.ctl = S.ctl
          /\ A.watcher = S.watcher /\ A.calls = S.calls /\ A.idle = S.idle /\ A.skip = S.skip
          /\ A.bug = S.bug /\ A.threads = fast.threads
      BY <1>1, <1>4, <3>2, <3>6, <3>7, ZenonT(30) DEF State, PlType
    <3>9. T = U \/ T = QueueStreamFromUrlFifo([U EXCEPT !.pl.nextReq = "REQUESTED"])
      BY <3>4
    <3> HIDE DEF T
    <3> A \in State /\ head \in Streams /\ Tail(S.fifo.queue) \in Seq(Streams)
      BY <3>2, <3>5, <3>8
    <3>10. WITNESS A \in State, head \in Streams, Tail(S.fifo.queue) \in Seq(Streams)
    <3>11. QED
      BY <3>5, <3>6, <3>8, <3>9
  <2>3. QED
    BY <1>3, <2>1, <2>2
<1> HIDE DEF T
<1>7. PICK A \in State, id \in Streams, q \in Seq(Streams) :
          /\ Started(S, id, q) /\ A.pl.cur = id /\ A.fifo.queue = q
          /\ A.fifo.removed = <<>> /\ A.fifo.dropped = {}
          /\ A.pl.buf = S.pl.buf /\ A.pl.protected = S.pl.protected
          /\ A.gst = R.gst /\ A.item = S.item /\ A.client = S.client /\ A.ctl = S.ctl
          /\ A.watcher = S.watcher /\ A.calls = S.calls /\ A.idle = S.idle /\ A.skip = S.skip
          /\ A.bug = S.bug /\ A.threads = fast.threads
          /\ LET U == Announce(SetItemState(A, id, "ACTIVE_HALF_PLAYING"))
             IN  T = U \/ T = QueueStreamFromUrlFifo([U EXCEPT !.pl.nextReq = "REQUESTED"])
  BY <1>6
<1> DEFINE U == Announce(SetItemState(A, id, "ACTIVE_HALF_PLAYING"))
<1>8. /\ U \in State /\ U.pl = A.pl /\ U.gst = A.gst
      /\ U.fifo.queue = A.fifo.queue /\ U.fifo.removed = <<>> /\ U.fifo.dropped = {}
      /\ U.item[id].state \in Announced
      /\ \A j \in Streams : j # id => U.item[j].state = A.item[j].state
      /\ \A j \in Streams : /\ U.item[j].selected = A.item[j].selected
                            /\ U.item[j].resolving = A.item[j].resolving
                            /\ U.item[j].restart = A.item[j].restart
                            /\ U.item[j].realtime = A.item[j].realtime
      /\ U.client.told = id /\ U.client.owed = A.client.owed \ {id}
      /\ U.ctl = A.ctl /\ U.watcher = A.watcher /\ U.calls = A.calls /\ U.idle = A.idle
      /\ U.skip = A.skip /\ U.bug = A.bug /\ U.threads = A.threads
  BY <1>7, AnnounceFields, ZenonT(30)
<1>9. T = U \/ T = QueueStreamFromUrlFifo([U EXCEPT !.pl.nextReq = "REQUESTED"])
  BY <1>7
<1> HIDE DEF U
<1>10. /\ Plain(U) /\ Announces(S, U) /\ Loaded(U.gst)
       /\ QueueOk(U.pl.cur, U.fifo, U.client.owed)
  <2>1. /\ U.pl.cur = id /\ U.pl.buf = S.pl.buf /\ U.pl.protected = S.pl.protected
        /\ U.fifo.queue = q /\ U.fifo.removed = <<>> /\ U.fifo.dropped = {}
        /\ U.gst = Taken(S).gst
        /\ U.client.told = id /\ U.client.owed = S.client.owed \ {id}
        /\ U.ctl = S.ctl /\ U.watcher = S.watcher /\ U.calls = S.calls /\ U.idle = S.idle
        /\ U.skip = S.skip /\ U.bug = S.bug /\ (LocalFiles => U.threads.boosted)
    BY <1>4, <1>7, <1>8 DEF R
  <2>2. /\ \A j \in Streams : j # id => U.item[j].state = S.item[j].state
        /\ \A j \in Streams : /\ U.item[j].selected = S.item[j].selected
                              /\ U.item[j].resolving = S.item[j].resolving
                              /\ U.item[j].restart = S.item[j].restart
                              /\ U.item[j].realtime = S.item[j].realtime
    BY <1>7, <1>8
  <2>3. Started(S, id, q) /\ U.item[id].state \in Announced /\ U \in State
    BY <1>7, <1>8
  <2>4. AnnouncedAs(S, U, id, q)
    BY <2>1, <2>2, <2>3 DEF AnnouncedAs
  <2>5. QED
    BY <2>4, <2>3, AnnouncedPlain
<1>11. CASE T = U
  BY <1>8, <1>10, <1>11 DEF T, R
<1>12. CASE T = QueueStreamFromUrlFifo([U EXCEPT !.pl.nextReq = "REQUESTED"])
  <2> DEFINE V == [U EXCEPT !.pl.nextReq = "REQUESTED"]
  <2>1. /\ V \in State /\ V.pl.cur = U.pl.cur /\ V.pl.nextReq = "REQUESTED" /\ V.fifo = U.fifo
        /\ V.client = U.client /\ V.gst = U.gst /\ Plain(V)
    BY <1>8, <1>10, NextReqFields, ZenonT(30)
  <2> HIDE DEF V
  <2>2. ChosenNext(V, QueueStreamFromUrlFifo(V))
    BY <1>10, <2>1, QueueStreamPlain
  <2>3. T = QueueStreamFromUrlFifo(V)
    BY <1>12 DEF V
  <2>4. /\ T \in State /\ Plain(T) /\ T.pl.cur = U.pl.cur /\ T.fifo = U.fifo /\ T.client = U.client
    BY <2>1, <2>2, <2>3 DEF ChosenNext
  <2>5. Announces(S, T)
    BY <1>10, <2>4 DEF Announces, Waiting
  <2>6. QED
    BY <2>4, <2>5 DEF T, R
<1>13. QED
  BY <1>9, <1>11, <1>12

-----------------------------------------------------------------------------
(* End of the last stream in the pipeline *)

\* The pipeline is taken down to READY and has nothing to play; what is on the bus stays there.
LEMMA DownFields ==
    ASSUME NEW g \in GstType, GstOk(g), Loaded(g), \A n \in 1..Len(g.bus) : Late(g.bus[n])
    PROVE  LET h == [GstSetState(g, "READY") EXCEPT !.uri = NoUri]
           IN  /\ GstSetState(g, "READY") \in GstType
               /\ h \in GstType /\ ~Loaded(h) /\ GstOk(h) /\ BusOk(h)
               /\ h.uri = NoUri /\ h.target = "READY"
               /\ \A kind : kind # "STATE_CHANGED" => (OnBus(h, kind) <=> OnBus(g, kind))
<1> DEFINE down == [Unload(g) EXCEPT !.state = "READY", !.pending = "VOID", !.target = "READY"]
           k == GstSetState(g, "READY")
           h == [k EXCEPT !.uri = NoUri]
           m1 == StateChanged("PLAYING", "PAUSED", "READY")
           m2 == StateChanged("PAUSED", "READY", "VOID")
           m3 == StateChanged("READY", "READY", "VOID")
<1>1. /\ down \in GstType /\ down.state = "READY" /\ down.pending = "VOID"
      /\ down.target = "READY" /\ down.bus = g.bus /\ ~down.drained
      /\ down.curUri = NoUri /\ down.heard = NoUri
  BY NoUriType DEF GstType, Unload, GstStates
<1> HIDE DEF down
<1>2. /\ ~Loaded(down) /\ BusOk(down) /\ \A kind : OnBus(down, kind) <=> OnBus(g, kind)
  BY <1>1 DEF Loaded, Prerolling, BusOk, Late, OnBus
<1>3. /\ m1 \in Messages /\ m2 \in Messages /\ m3 \in Messages
      /\ m1[1] = "STATE_CHANGED" /\ m2[1] = "STATE_CHANGED" /\ m3[1] = "STATE_CHANGED"
      /\ Late(m1) /\ Late(m2) /\ Late(m3)
  <2>1. m1 \in Messages /\ m2 \in Messages /\ m3 \in Messages
    BY MessageTypes DEF GstStates
  <2>2. QED
    BY <2>1 DEF Late, StateChanged
<1>4. k = Post(Post(down, m1), m2) \/ k = Post(down, m2) \/ k = Post(down, m3)
  BY DEF GstSetState, SetReady, Loaded, down
<1> HIDE DEF m1, m2, m3, k
<1>5. /\ k \in GstType /\ ~Loaded(k) /\ BusOk(k)
      /\ k.state = "READY" /\ k.pending = "VOID" /\ k.target = "READY" /\ ~k.drained
      /\ k.curUri = NoUri /\ k.heard = NoUri
      /\ \A kind : kind # "STATE_CHANGED" => (OnBus(k, kind) <=> OnBus(g, kind))
  <2> DEFINE Good1(x) ==
        /\ x \in GstType /\ ~Loaded(x) /\ BusOk(x)
        /\ x.state = "READY" /\ x.pending = "VOID" /\ x.target = "READY" /\ ~x.drained
        /\ x.curUri = NoUri /\ x.heard = NoUri
        /\ \A kind : kind # "STATE_CHANGED" => (OnBus(x, kind) <=> OnBus(g, kind))
  <2>1. Good1(down)
    BY <1>1, <1>2
  <2>2. ASSUME NEW x, Good1(x), NEW m \in Messages, m[1] = "STATE_CHANGED", Late(m)
        PROVE  Good1(Post(x, m))
    <3>1. BusOk(Post(x, m))
      BY <2>2, PostBus
    <3>2. QED
      BY <2>2, <3>1, PostFields
  <2> HIDE DEF Good1
  <2>3. Good1(Post(down, m1)) /\ Good1(Post(down, m2)) /\ Good1(Post(down, m3))
    BY <1>3, <2>1, <2>2
  <2>4. Good1(Post(Post(down, m1), m2))
    BY <1>3, <2>2, <2>3
  <2>5. Good1(k)
    BY <1>4, <2>3, <2>4
  <2>6. QED
    BY <2>5 DEF Good1
<1>6. /\ h \in GstType /\ h.state = k.state /\ h.pending = k.pending /\ h.target = k.target
      /\ h.drained = k.drained /\ h.curUri = k.curUri /\ h.heard = k.heard /\ h.bus = k.bus
      /\ h.uri = NoUri
  BY <1>5, NoUriType DEF GstType
<1> HIDE DEF h
<1>7. ~Loaded(h) /\ GstOk(h)
  BY <1>5, <1>6 DEF Loaded, Prerolling, GstOk
<1>8. BusOk(h)
  BY <1>5, <1>6, <1>7, SameBus
<1>9. \A kind : OnBus(h, kind) <=> OnBus(k, kind)
  BY <1>6 DEF OnBus
<1>10. QED
  BY <1>5, <1>6, <1>7, <1>8, <1>9 DEF h, k

\* GST_MESSAGE_EOS is handled while the current stream is still the one which has ended.
LEMMA DrainedIsSteady ==
    ASSUME NEW S \in State, Plain(S), S.gst.bus # <<>>, S.gst.bus[1][1] = "EOS"
    PROVE  /\ Loaded(S.gst) /\ S.pl.cur \in Streams /\ S.pl.cur # None
           /\ S.pl.cur \notin S.client.owed
           /\ Loaded(Taken(S).gst)
           /\ \A n \in 1..Len(Taken(S).gst.bus) : Late(Taken(S).gst.bus[n])
<1> DEFINE g == S.gst
           h == Taken(S).gst
           c == S.pl.cur
<1>1. g \in GstType /\ h = [g EXCEPT !.bus = Tail(@)]
  BY TakenFields DEF State
<1> HIDE DEF h
<1>2. /\ (Loaded(h) <=> Loaded(g)) /\ 1 \in 1..Len(g.bus)
      /\ \A kind : OnBus(g, kind) <=> OnBus(h, kind) \/ g.bus[1][1] = kind
  <2>1. g.bus # <<>>
    OBVIOUS
  <2> HIDE DEF g
  <2>2. g.bus \in Seq(Messages)
    BY <1>1 DEF GstType
  <2>3. 1 \in 1..Len(g.bus)
    BY <2>1, <2>2
  <2>4. /\ (Loaded(h) <=> Loaded(g))
        /\ \A kind : OnBus(g, kind) <=> OnBus(h, kind) \/ g.bus[1][1] = kind
    BY <1>1, <2>1, TailFields
  <2>5. QED
    BY <2>3, <2>4
<1>3. Loaded(g) /\ g.drained
  BY <1>2 DEF Plain, Core, BusOk
<1>4. \A n \in 1..Len(h.bus) : Late(h.bus[n])
  BY <1>1, TailBus DEF Plain, Core
<1>5. ~OnBus(g, "STREAM_START")
  BY <1>2, <1>4 DEF OnBus, Late
<1>6. g.heard = g.curUri
  BY <1>3 DEF Plain, Core, GstOk
<1>7. c # None /\ c \in Streams
  BY <1>3, FifoTypes DEF Plain, Core, PhaseOk
<1>8. UriOf(c) # NoUri
  BY <1>7 DEF UriOf, NoUri
<1>9. ~First(c, S.fifo, S.item, g, S.client.owed)
  BY <1>5, <1>6, <1>8 DEF First
<1>10. c \notin S.client.owed
  BY <1>3, <1>9 DEF Plain, Core, PhaseOk, Steady, Ahead
<1>11. QED
  BY <1>2, <1>3, <1>4, <1>7, <1>10 DEF h

\* No stream, and the pipeline has nothing to play.
LEMMA NoCurrentRests ==
    ASSUME NEW f, NEW it, NEW g, NEW o, NEW protected,
           g.uri = NoUri, g.target \in {"NULL", "READY"}
    PROVE  Resting(None, protected, f, it, g, o)
BY DEF Resting

LEMMA NoneWaits ==
    ASSUME NEW T \in State, T.pl.cur = None
    PROVE  Waiting(T) = T.fifo.queue
<1>1. None \notin T.client.owed
  BY StreamsAssumption DEF State, ClientType, None
<1>2. T.fifo.queue \in Seq(Streams)
  BY FifoTypes
<1>3. QED
  BY <1>1, <1>2 DEF Waiting

LEMMA HandleEndOfStreamPlain ==
    ASSUME PlainPlayback, NEW S \in State, Good(S), Plain(S), S.gst.bus # <<>>,
           S.gst.bus[1][1] = "EOS"
    PROVE  LET T == HandleEndOfStream(Taken(S))
           IN  T \in State /\ Plain(T) /\ Moves(S, T)
<1> DEFINE R == Taken(S)
           T == HandleEndOfStream(R)
           g == R.gst
           k == GstSetState(g, "READY")
           h == [k EXCEPT !.uri = NoUri]
           down == SetStreamState(R, "READY")
           head == Peek(R.fifo)
<1>1. /\ R \in State /\ g \in GstType
      /\ R.ctl = S.ctl /\ R.pl = S.pl /\ R.watcher = S.watcher
      /\ R.fifo = S.fifo /\ R.item = S.item /\ R.calls = S.calls /\ R.idle = S.idle
      /\ R.skip = S.skip /\ R.threads = S.threads /\ R.client = S.client /\ R.bug = S.bug
  BY TakenFields DEF State
<1>2. Core(R) /\ R.watcher # "GONE"
  BY TakenCore, TakenWaits
<1>3. /\ R.pl.cur \in Streams /\ R.pl.cur # None /\ R.pl.cur \notin R.client.owed
      /\ Loaded(g) /\ \A n \in 1..Len(g.bus) : Late(g.bus[n])
  BY <1>1, DrainedIsSteady
<1>4. Plain(R)
  BY TakenPlain
<1>5. R.ctl.activated /\ R.ctl.status # "STOPPED"
  BY <1>1, <1>2, <1>3, <1>4, LoadedIsActive, ActiveFacts DEF Core
<1>6. T \in State
  BY <1>1, HandleEndOfStreamLeads DEF Leads
<1> HIDE DEF R
<1>7. /\ k \in GstType
      /\ h \in GstType /\ ~Loaded(h) /\ GstOk(h) /\ BusOk(h)
      /\ h.uri = NoUri /\ h.target = "READY"
      /\ \A kind : kind # "STATE_CHANGED" => (OnBus(h, kind) <=> OnBus(g, kind))
  <2>1. GstOk(g)
    BY <1>2 DEF Core
  <2> HIDE DEF g
  <2>2. QED
    BY <1>1, <1>3, <2>1, DownFields
<1>8. CleanOk(h, R.bug)
  BY <1>2, <1>7 DEF CleanOk, Core
<1>9. /\ down \in State /\ down.gst = k /\ down.ctl = R.ctl /\ down.pl = R.pl
      /\ down.watcher = R.watcher /\ down.fifo = R.fifo /\ down.item = R.item
      /\ down.calls = R.calls /\ down.idle = R.idle /\ down.skip = R.skip
      /\ down.threads = R.threads /\ down.client = R.client /\ down.bug = R.bug
  <2> HIDE DEF k
  <2>1. down = [R EXCEPT !.gst = k]
    BY DEF SetStreamState, k
  <2> HIDE DEF down
  <2>2. QED
    BY <1>1, <1>7, <2>1 DEF State
<1> HIDE DEF k
<1>10. /\ R.fifo.removed = <<>> /\ R.fifo.dropped = {} /\ Size(R.fifo) <= MaxItems
       /\ R.client.owed \subseteq Elems(R.fifo.queue) /\ R.calls = {} /\ ~R.skip
       /\ ItemsPlain(R.item)
       /\ LocalFiles => ~IsBuffering(R.pl.buf) /\ \A i \in Streams : R.item[i].realtime
       /\ \A n \in 1..Len(R.fifo.queue) : ~R.item[R.fifo.queue[n]].restart
  BY <1>2, <1>3 DEF Core, QueuePlain, BoostOk, RestartOk, Size
<1>11. CASE IsEmpty(R.fifo)
  <2> DEFINE E == EmitStopped(down)
  <2>1. T = [[E EXCEPT !.pl.cur = None] EXCEPT !.gst.uri = NoUri]
    BY <1>11 DEF HandleEndOfStream, WipeOutUri, down
  <2>2. StoppedAs(down, E, {down.pl.cur})
    BY <1>9, EmitStoppedAs
  <2> HIDE DEF E, T, down
  <2>3. /\ T.pl = [E.pl EXCEPT !.cur = None] /\ T.gst = [E.gst EXCEPT !.uri = NoUri]
        /\ T.ctl = E.ctl /\ T.watcher = E.watcher /\ T.fifo = E.fifo /\ T.item = E.item
        /\ T.calls = E.calls /\ T.idle = E.idle /\ T.skip = E.skip /\ T.client = E.client
        /\ T.bug = E.bug
    BY <2>1, <2>2 DEF StoppedAs, State
  <2>4. T.gst = h
    BY <1>7, <1>9, <2>2, <2>3, ZenonT(30) DEF StoppedAs, GstType
  <2>5. T.pl.cur = None /\ T.pl.buf = NotBuffering
    BY <1>9, <2>2, <2>3 DEF StoppedAs, State, PlType
  <2>6. T.ctl.status = "STOPPED" /\ T.ctl.activated
    BY <1>5, <1>9, <2>2, <2>3 DEF StoppedAs, State, CtlType
  <2>7. /\ T.fifo.queue = R.fifo.queue /\ T.fifo.removed = <<>> /\ T.fifo.dropped = {}
        /\ T.client.owed = R.client.owed
        /\ T.client.told \in {R.client.told, None}
        /\ T.item = R.item /\ T.calls = {} /\ ~T.skip
        /\ T.watcher = R.watcher /\ T.bug = R.bug
    <3>1. DroppedIds(down.fifo) = {}
      BY <1>9, <1>10 DEF DroppedIds, Elems
    <3>2. T.client.owed = R.client.owed \ ({R.pl.cur} \cup {})
      BY <1>9, <2>2, <2>3, <3>1 DEF StoppedAs
    <3>3. T.client.owed = R.client.owed
      BY <1>3, <3>2
    <3>4. QED
      BY <1>9, <1>10, <2>2, <2>3, <3>3 DEF StoppedAs
  <2> HIDE DEF h
  <2>8. /\ QueuePlain(None, T.fifo, T.client.owed) /\ RestartOk(None, T.fifo, T.item, h)
    BY <1>10, <2>7 DEF QueuePlain, RestartOk, Size
  <2>9. AskedOk(T.ctl, T.pl.buf, None, T.idle, h)
    BY <1>7, <2>6 DEF AskedOk
  <2>10. Resting(None, T.pl.protected, T.fifo, T.item, h, T.client.owed)
    BY <1>7, NoCurrentRests
  <2>11. Plain(T)
    BY <1>2, <1>6, <1>7, <1>8, <1>10, <2>4, <2>5, <2>7, <2>8, <2>9, <2>10, RestPlain
       DEF NotBuffering, IsBuffering
  <2>12. Moves(S, T)
    BY <1>1, <1>6, <2>5, <2>7, NoneWaits, MovesOn
  <2>13. QED
    BY <1>6, <2>11, <2>12 DEF T, R
<1>12. CASE ~IsEmpty(R.fifo)
  <2>1. head \in Streams /\ head = R.fifo.queue[1] /\ R.fifo.queue \in Seq(Streams)
    BY <1>1, <1>12, FifoTypes, HeadOfQueue DEF IsEmpty, Peek
  <2>2. StartRequired(head, R.item[head]) = "START_NOW"
    BY <1>1, <1>10, <2>1, UrlIsKnown
  <2> HIDE DEF head
  <2>3. T = [[[[down EXCEPT !.item[head] = MarkForRestart(@)] EXCEPT !.idle = @ + 1]
               EXCEPT !.pl.cur = None] EXCEPT !.gst.uri = NoUri]
    BY <1>12, <2>2 DEF HandleEndOfStream, WipeOutUri, down, head
  <2> HIDE DEF T, down
  <2>4. /\ T.pl = [R.pl EXCEPT !.cur = None] /\ T.gst = h
        /\ T.ctl = R.ctl /\ T.watcher = R.watcher /\ T.fifo = R.fifo
        /\ T.item = [R.item EXCEPT ![head] = MarkForRestart(@)]
        /\ T.calls = R.calls /\ T.idle = R.idle + 1 /\ T.skip = R.skip /\ T.client = R.client
        /\ T.bug = R.bug
    BY <1>9, <2>3 DEF State
  <2>5. T.pl.cur = None /\ T.pl.buf = R.pl.buf
    BY <1>1, <2>4 DEF State, PlType
  <2>6. /\ \A i \in Streams : /\ T.item[i].selected = R.item[i].selected
                              /\ T.item[i].resolving = R.item[i].resolving
                              /\ T.item[i].realtime = R.item[i].realtime
        /\ \A i \in Streams : i # head => T.item[i] = R.item[i]
    BY <1>1, <2>1, <2>4 DEF State, ItemType, MarkForRestart
  <2> HIDE DEF h
  <2>7. QueuePlain(None, T.fifo, T.client.owed) /\ ItemsPlain(T.item)
    BY <1>10, <2>4, <2>6 DEF QueuePlain, ItemsPlain
  <2>8. RestartOk(None, T.fifo, T.item, h)
    <3>1. SUFFICES ASSUME NEW n \in 1..Len(R.fifo.queue), T.item[R.fifo.queue[n]].restart
                   PROVE  n = 1
      BY <1>7, <2>4 DEF RestartOk, Size
    <3>2. R.fifo.queue[n] = head
      BY <1>10, <2>1, <2>6, <3>1
    <3>3. Distinct(R.fifo.queue) /\ 1 \in 1..Len(R.fifo.queue)
      BY <1>1, <1>12, <2>1 DEF Good, QueueOk, IsEmpty
    <3>4. QED
      BY <2>1, <3>1, <3>2, <3>3 DEF Distinct
  <2>9. AskedOk(T.ctl, T.pl.buf, None, T.idle, h)
    <3>1. R.idle \in Nat
      BY <1>1 DEF State
    <3>2. QED
      BY <1>5, <1>7, <2>4, <3>1 DEF AskedOk
  <2>10. Resting(None, T.pl.protected, T.fifo, T.item, h, T.client.owed)
    BY <1>7, NoCurrentRests
  <2>11. LocalFiles => ~IsBuffering(T.pl.buf) /\ \A i \in Streams : T.item[i].realtime
    BY <1>10, <2>5, <2>6
  <2>12. Plain(T)
    BY <1>2, <1>6, <1>7, <1>8, <1>10, <2>4, <2>5, <2>7, <2>8, <2>9, <2>10, <2>11, RestPlain
  <2>13. Moves(S, T)
    <3>1. Waiting(T) = S.fifo.queue /\ T.client.told = S.client.told
      <4>1. Waiting(T) = T.fifo.queue
        BY <1>6, <2>5, NoneWaits
      <4>2. QED
        BY <1>1, <2>4, <4>1
    <3>2. QED
      BY <3>1, MovesOn
  <2>14. QED
    BY <1>6, <2>12, <2>13 DEF T, R
<1>13. QED
  BY <1>11, <1>12

-----------------------------------------------------------------------------
(* Other messages *)

LEMMA ItemFields ==
    ASSUME NEW S \in State, NEW i \in Streams, NEW r \in ItemType
    PROVE  LET T == [S EXCEPT !.item[i] = r]
           IN  /\ T \in State
               /\ T.ctl = S.ctl /\ T.pl = S.pl /\ T.watcher = S.watcher /\ T.fail = S.fail
               /\ T.fifo = S.fifo /\ T.gst = S.gst /\ T.calls = S.calls /\ T.idle = S.idle
               /\ T.skip = S.skip /\ T.threads = S.threads /\ T.client = S.client
               /\ T.bug = S.bug
               /\ T.item[i] = r
               /\ \A j \in Streams : j # i => T.item[j] = S.item[j]
BY DEF State

\* Details of items which do not matter to the phase.
LEMMA DetailPlain ==
    ASSUME NEW S \in State, Plain(S), NEW T \in State,
           T.ctl = S.ctl, T.pl = S.pl, T.watcher = S.watcher, T.fifo = S.fifo, T.gst = S.gst,
           T.calls = S.calls, T.idle = S.idle, T.skip = S.skip, T.client = S.client,
           T.bug = S.bug,
           \A i \in Streams : /\ T.item[i].state = S.item[i].state
                              /\ T.item[i].selected = S.item[i].selected
                              /\ T.item[i].resolving = S.item[i].resolving
                              /\ T.item[i].restart = S.item[i].restart,
           LocalFiles => /\ T.threads = S.threads
                         /\ \A i \in Streams : T.item[i].realtime = S.item[i].realtime
    PROVE  Plain(T) /\ Moves(S, T)
<1>1. /\ S.fifo.queue \in Seq(Streams) /\ S.pl.cur \in Streams \cup {None}
      /\ ~IsEmpty(S.fifo) => Peek(S.fifo) \in Streams
      /\ \A n \in 1..Len(S.fifo.queue) : S.fifo.queue[n] \in Streams
  <2>1. S.fifo.queue \in Seq(Streams) /\ S.pl.cur \in Streams \cup {None}
    BY FifoTypes
  <2>2. ~IsEmpty(S.fifo) => Peek(S.fifo) \in Streams
    BY <2>1, HeadOfQueue DEF IsEmpty, Peek
  <2>3. QED
    BY <2>1, <2>2
<1>2. ItemsPlain(T.item) /\ RestartOk(S.pl.cur, S.fifo, T.item, S.gst)
  BY <1>1 DEF Plain, Core, ItemsPlain, RestartOk, Size
<1>3. \A st : HeadIs(S.fifo, T.item, st) <=> HeadIs(S.fifo, S.item, st)
  BY <1>1 DEF HeadIs
<1>4. S.pl.cur # None => T.item[S.pl.cur].state = S.item[S.pl.cur].state
  BY <1>1
<1>5. PhaseOk(S.pl.cur, S.pl.protected, S.fifo, T.item, S.gst, S.client.owed)
  <2>1. CASE Loaded(S.gst)
    <3>1. S.pl.cur # None
      BY <2>1 DEF Plain, Core, PhaseOk
    <3>2. CASE First(S.pl.cur, S.fifo, S.item, S.gst, S.client.owed)
      BY <1>3, <1>4, <2>1, <3>1, <3>2 DEF First, PhaseOk
    <3>3. CASE Steady(S.pl.cur, S.fifo, S.item, S.gst, S.client.owed)
      BY <1>3, <1>4, <2>1, <3>1, <3>3 DEF Steady, PhaseOk
    <3>4. CASE Ahead(S.pl.cur, S.fifo, S.item, S.gst, S.client.owed)
      BY <1>3, <1>4, <2>1, <3>1, <3>4 DEF Ahead, PhaseOk
    <3>5. QED
      BY <2>1, <3>2, <3>3, <3>4 DEF Plain, Core, PhaseOk
  <2>2. CASE ~Loaded(S.gst)
    BY <1>3, <1>4, <2>2 DEF Plain, Core, PhaseOk, Unopened, Resting
  <2>3. QED
    BY <2>1, <2>2
<1>6. BoostOk(S.pl.cur, T.item, S.pl.buf, S.gst, T.threads)
  <2>1. Loaded(S.gst) => S.pl.cur # None
    BY DEF Plain, Core, PhaseOk
  <2>2. QED
    BY <1>4, <2>1 DEF Plain, Core, BoostOk
<1>7. Plain(T)
  BY <1>2, <1>5, <1>6 DEF Plain, Core
<1>8. Waiting(T) = Waiting(S)
  BY DEF Waiting
<1>9. QED
  BY <1>7, <1>8, MovesOn

\* GStreamer posts a message which is not about states or streams.
LEMMA PostPlain ==
    ASSUME NEW S \in State, Plain(S), NEW T \in State, NEW m \in Messages,
           m[1] \in {"ERROR", "VIDEO_DECODER", "BUFFERING", "ASYNC_DONE"},
           T = [S EXCEPT !.gst = Post(@, m)],
           ~Loaded(S.gst) \/ OnBus(S.gst, "EOS") => Late(m),
           LocalFiles => m[1] \notin {"BUFFERING", "ASYNC_DONE"},
           NoErrors => m[1] \notin {"ERROR", "VIDEO_DECODER"}
    PROVE  Plain(T) /\ Moves(S, T)
<1> DEFINE g == S.gst
           h == Post(g, m)
<1>1. g \in GstType
  BY DEF State
<1>2. BusOk(h)
  <2>1. BusOk(g) /\ m[1] \notin {"STREAM_START", "EOS"}
    BY DEF Plain, Core
  <2> HIDE DEF g
  <2>2. QED
    BY <1>1, <2>1, PostBus DEF g
<1>3. /\ h \in GstType /\ (Loaded(h) <=> Loaded(g))
      /\ h.state = g.state /\ h.pending = g.pending /\ h.target = g.target
      /\ h.uri = g.uri /\ h.curUri = g.curUri /\ h.heard = g.heard
      /\ h.asked = g.asked /\ h.taken = g.taken /\ h.drained = g.drained
      /\ Len(g.bus) \in Nat /\ Len(h.bus) = Len(g.bus) + 1
      /\ h.bus[Len(g.bus) + 1] = m
      /\ \A n \in 1..Len(g.bus) : h.bus[n] = g.bus[n]
      /\ \A kind : OnBus(h, kind) <=> OnBus(g, kind) \/ m[1] = kind
  <2> HIDE DEF g
  <2>1. QED
    BY <1>1, PostFields
<1>4. /\ T.gst = h
      /\ T.ctl = S.ctl /\ T.pl = S.pl /\ T.watcher = S.watcher /\ T.fifo = S.fifo
      /\ T.item = S.item /\ T.calls = S.calls /\ T.idle = S.idle /\ T.skip = S.skip
      /\ T.threads = S.threads /\ T.client = S.client /\ T.bug = S.bug
  BY DEF State
<1> HIDE DEF h
<1>5. Alike(S, T)
  BY <1>4 DEF Alike
<1>6. /\ RestartOk(S.pl.cur, S.fifo, S.item, h) /\ GstOk(h)
  BY <1>3 DEF Plain, Core, RestartOk, GstOk
<1>7. PhaseOk(S.pl.cur, S.pl.protected, S.fifo, S.item, h, S.client.owed)
  <2>1. OnBus(h, "STREAM_START") <=> OnBus(g, "STREAM_START")
    BY <1>3
  <2>2. QED
    BY <1>3, <2>1 DEF Plain, Core, PhaseOk, First, Steady, Ahead, Unopened, Resting
<1>8. AskedOk(S.ctl, S.pl.buf, S.pl.cur, S.idle, h)
  <2>1. (\E n \in 1..Len(g.bus) : Arrival(g.bus[n])) => \E n \in 1..Len(h.bus) : Arrival(h.bus[n])
    BY <1>3
  <2>2. QED
    BY <1>3, <2>1 DEF Plain, AskedOk
<1>9. WatchedOk(S.watcher, h)
  <2>1. ~Downward(m) /\ ~ArrivalInPlaying(m)
    BY DEF Downward, ArrivalInPlaying
  <2>2. \A n \in 1..Len(h.bus) : n \in 1..Len(g.bus) \/ h.bus[n] = m
    BY <1>3
  <2>3. Loaded(h) =>
          \A k, n \in 1..Len(h.bus) : Downward(h.bus[k]) /\ ArrivalInPlaying(h.bus[n]) => k < n
    BY <1>3, <2>1, <2>2 DEF Plain, WatchedOk
  <2>4. (\A n \in 1..Len(g.bus) : ~Downward(g.bus[n])) =>
          \A n \in 1..Len(h.bus) : ~Downward(h.bus[n])
    BY <1>3, <2>1, <2>2
  <2>5. (\E n \in 1..Len(g.bus) : ArrivalInPlaying(g.bus[n])) =>
          \E n \in 1..Len(h.bus) : ArrivalInPlaying(h.bus[n])
    BY <1>3
  <2>6. QED
    BY <1>3, <2>3, <2>4, <2>5 DEF Plain, WatchedOk
<1>10. BoostOk(S.pl.cur, S.item, S.pl.buf, h, S.threads) /\ CleanOk(h, S.bug)
  BY <1>3 DEF Plain, Core, BoostOk, CleanOk
<1>11. Plain(T)
  BY <1>2, <1>4, <1>5, <1>6, <1>7, <1>8, <1>9, <1>10, AlikePlain
<1>12. QED
  BY <1>5, <1>11, AlikeMoves

LEMMA HandleVideoDecoderPlain ==
    ASSUME NEW S \in State, Plain(S), ~NoErrors
    PROVE  LET T == HandleVideoDecoder(S)
           IN  T \in State /\ Plain(T) /\ Moves(S, T)
<1> DEFINE c == S.pl.cur
           M == [S EXCEPT !.item[c].prefailed = TRUE]
           T == HandleVideoDecoder(S)
           m == ErrorMessage("RETRY")
<1>1. CASE T = S
  <2>1. Moves(S, S)
    BY MovesOn
  <2>2. QED
    BY <1>1, <2>1
<1>2. CASE c # None /\ T \in {M, [M EXCEPT !.gst = Post(@, m)]}
  <2>1. c \in Streams
    BY <1>2, FifoTypes
  <2>2. /\ M \in State
        /\ M.ctl = S.ctl /\ M.pl = S.pl /\ M.watcher = S.watcher /\ M.fifo = S.fifo
        /\ M.gst = S.gst /\ M.calls = S.calls /\ M.idle = S.idle /\ M.skip = S.skip
        /\ M.client = S.client /\ M.bug = S.bug /\ M.threads = S.threads
        /\ \A i \in Streams : /\ M.item[i].state = S.item[i].state
                              /\ M.item[i].selected = S.item[i].selected
                              /\ M.item[i].resolving = S.item[i].resolving
                              /\ M.item[i].restart = S.item[i].restart
                              /\ M.item[i].realtime = S.item[i].realtime
    <3> DEFINE r == [S.item[c] EXCEPT !.prefailed = TRUE]
    <3>1. S.item[c] \in ItemType
      BY <2>1 DEF State
    <3>2. /\ r \in ItemType /\ r.state = S.item[c].state /\ r.selected = S.item[c].selected
          /\ r.resolving = S.item[c].resolving /\ r.restart = S.item[c].restart
          /\ r.realtime = S.item[c].realtime
      BY <3>1 DEF ItemType
    <3>3. M = [S EXCEPT !.item[c] = r]
      OBVIOUS
    <3> HIDE DEF r, M, c
    <3>4. QED
      BY <2>1, <3>2, <3>3, ItemFields
  <2> HIDE DEF M
  <2>3. Plain(M) /\ Moves(S, M)
    BY <2>2, DetailPlain
  <2>4. CASE T = M
    BY <2>2, <2>3, <2>4
  <2>5. CASE T = [M EXCEPT !.gst = Post(@, m)]
    <3>1. m \in Messages /\ m[1] = "ERROR" /\ Late(m)
      <4>1. m \in Messages
        BY MessageTypes
      <4>2. QED
        BY <4>1 DEF ErrorMessage, Late
    <3> HIDE DEF m, T
    <3>2. T \in State
      BY <2>2, <2>5, <3>1, PostType, GstAside DEF State, Aside
    <3>3. Plain(T) /\ Moves(M, T)
      BY <2>2, <2>3, <2>5, <3>1, <3>2, PostPlain
    <3>4. Moves(S, T)
      BY <2>2, <3>3, MovesFrom
    <3>5. QED
      BY <3>2, <3>3, <3>4 DEF T
  <2>6. QED
    BY <1>2, <2>4, <2>5
<1>3. QED
  BY <1>1, <1>2 DEF HandleVideoDecoder

LEMMA HandleStreamDurationAsyncPlain ==
    ASSUME NEW S \in State, NEW known \in BOOLEAN, Plain(S), ~LocalFiles, S.pl.cur # None
    PROVE  LET T == HandleStreamDurationAsync(S, known)
           IN  T \in State /\ Plain(T) /\ Moves(S, T)
<1> DEFINE c == S.pl.cur
           M == [S EXCEPT !.item[c] = DisableRealtime(@)]
           th == BT!Throttle(M.threads)
           T == HandleStreamDurationAsync(S, known)
<1>1. CASE known
  <2>1. T = S /\ Moves(S, S)
    BY <1>1, MovesOn DEF HandleStreamDurationAsync
  <2>2. QED
    BY <2>1
<1>2. CASE ~known
  <2>1. T = [M EXCEPT !.threads = th]
    BY <1>2 DEF HandleStreamDurationAsync, Throttle
  <2>2. c \in Streams
    BY FifoTypes
  <2>3. /\ M \in State
        /\ M.ctl = S.ctl /\ M.pl = S.pl /\ M.watcher = S.watcher /\ M.fifo = S.fifo
        /\ M.gst = S.gst /\ M.calls = S.calls /\ M.idle = S.idle /\ M.skip = S.skip
        /\ M.client = S.client /\ M.bug = S.bug
        /\ \A i \in Streams : /\ M.item[i].state = S.item[i].state
                              /\ M.item[i].selected = S.item[i].selected
                              /\ M.item[i].resolving = S.item[i].resolving
                              /\ M.item[i].restart = S.item[i].restart
    <3> DEFINE r == DisableRealtime(S.item[c])
    <3>1. S.item[c] \in ItemType
      BY <2>2 DEF State
    <3>2. /\ r \in ItemType /\ r.state = S.item[c].state /\ r.selected = S.item[c].selected
          /\ r.resolving = S.item[c].resolving /\ r.restart = S.item[c].restart
      BY <3>1 DEF ItemType, DisableRealtime
    <3>3. M = [S EXCEPT !.item[c] = r]
      OBVIOUS
    <3> HIDE DEF r, M, c
    <3>4. QED
      BY <2>2, <3>2, <3>3, ItemFields
  <2> HIDE DEF M
  <2>4. th \in ThreadsType
    BY <2>3, ThrottleThreads DEF State
  <2> HIDE DEF th, T
  <2>5. /\ T \in State
        /\ T.ctl = S.ctl /\ T.pl = S.pl /\ T.watcher = S.watcher /\ T.fifo = S.fifo
        /\ T.gst = S.gst /\ T.calls = S.calls /\ T.idle = S.idle /\ T.skip = S.skip
        /\ T.client = S.client /\ T.bug = S.bug /\ T.item = M.item
    BY <2>1, <2>3, <2>4 DEF State
  <2>6. Plain(T) /\ Moves(S, T)
    BY <2>3, <2>5, DetailPlain
  <2>7. QED
    BY <2>5, <2>6 DEF T
<1>3. QED
  BY <1>1, <1>2

-----------------------------------------------------------------------------
(* Failure *)

LEMMA RebuiltPipeline ==
    LET g == GstSetState(NewPipeline, "READY")
    IN  /\ g \in GstType /\ ~Loaded(g) /\ GstOk(g) /\ BusOk(g)
        /\ g.state = "READY" /\ g.pending = "VOID"
        /\ g.uri = NoUri /\ g.target = "READY" /\ g.bus = <<StateChanged("NULL", "READY", "VOID")>>
        /\ \A kind : kind # "STATE_CHANGED" => ~OnBus(g, kind)
<1> DEFINE g == GstSetState(NewPipeline, "READY")
<1>1. /\ g.state = "READY" /\ g.pending = "VOID" /\ g.target = "READY" /\ g.uri = NoUri
      /\ g.curUri = NoUri /\ g.heard = NoUri /\ ~g.drained
      /\ g.bus = <<StateChanged("NULL", "READY", "VOID")>>
  <2> DEFINE p == NewPipeline
             d == [Unload(p) EXCEPT !.state = "READY", !.pending = "VOID", !.target = "READY"]
             m == StateChanged("NULL", "READY", "VOID")
  <2>1. p \in GstType /\ p.state = "NULL" /\ p.bus = <<>> /\ p.uri = NoUri
    BY NewPipelineType DEF NewPipeline
  <2> HIDE DEF p
  <2>2. g = Post(d, m)
    BY <2>1 DEF GstSetState, SetReady, Prerolling, p
  <2>3. /\ d \in GstType /\ d.state = "READY" /\ d.pending = "VOID" /\ d.target = "READY"
        /\ d.uri = NoUri /\ d.curUri = NoUri /\ d.heard = NoUri /\ ~d.drained /\ d.bus = <<>>
    BY <2>1, NoUriType DEF GstType, GstStates, Unload
  <2> HIDE DEF d, m, g
  <2>4. g = [d EXCEPT !.bus = <<m>>]
    BY <2>2, <2>3 DEF Post
  <2>5. QED
    BY <2>3, <2>4 DEF GstType, m
<1>2. g \in GstType
  BY NewPipelineType, GstSetStateType DEF GstStates
<1> HIDE DEF g
<1>3. ~Loaded(g) /\ GstOk(g)
  BY <1>1 DEF Loaded, Prerolling, GstOk
<1>4. Len(g.bus) = 1 /\ g.bus[1] = StateChanged("NULL", "READY", "VOID")
  BY <1>1
<1>5. BusOk(g) /\ \A kind : kind # "STATE_CHANGED" => ~OnBus(g, kind)
  BY <1>3, <1>4 DEF BusOk, Late, OnBus, StateChanged
<1>6. QED
  BY <1>1, <1>2, <1>3, <1>5 DEF g

\* What stopping needs to know about the state it begins with.
Stoppable(S) ==
    /\ ItemsPlain(S.item) /\ QueuePlain(S.pl.cur, S.fifo, S.client.owed)
    /\ S.calls = {} /\ ~S.skip /\ S.watcher # "GONE"
    /\ \A n \in 1..Len(S.fifo.queue) : S.item[S.fifo.queue[n]].restart => n = 1
    /\ S.idle > 0 => S.ctl.activated
    /\ LocalFiles => \A i \in Streams : S.item[i].realtime
    /\ NoErrors => S.bug \cap Fatal = {}

LEMMA PlainIsStoppable ==
    ASSUME NEW S, Plain(S)
    PROVE  Stoppable(S)
BY DEF Stoppable, Plain, Core, RestartOk, AskedOk, WatchedOk, BoostOk, CleanOk, Size

\* The streams which are left are those in the queue.
LEMMA StoppedPlain ==
    ASSUME NEW S \in State, Stoppable(S), NEW T \in State,
           T.pl.cur = None, T.pl.buf = NotBuffering, T.ctl = [S.ctl EXCEPT !.status = "STOPPED"],
           T.fifo.queue = S.fifo.queue, T.fifo.removed = <<>>, T.fifo.dropped = {},
           T.client.owed = S.client.owed \ {S.pl.cur}, T.client.told \in {S.client.told, None},
           T.item = S.item, T.calls = S.calls, T.skip = S.skip, T.idle = S.idle,
           T.watcher = S.watcher, T.bug = S.bug,
           ~Loaded(T.gst), GstOk(T.gst), BusOk(T.gst), T.gst.uri = NoUri,
           T.gst.target \in {"NULL", "READY"},
           NoErrors => /\ ~OnBus(T.gst, "ERROR") /\ ~OnBus(T.gst, "VIDEO_DECODER")
                       /\ T.gst.target # "NULL"
    PROVE  Plain(T) /\ Moves(S, T)
<1>1. QueuePlain(None, T.fifo, T.client.owed)
  BY DEF QueuePlain, Stoppable, Size
<1>2. RestartOk(None, T.fifo, T.item, T.gst)
  BY DEF RestartOk, Stoppable, Size
<1>3. AskedOk(T.ctl, T.pl.buf, None, T.idle, T.gst)
  <2>1. T.ctl.status = "STOPPED" /\ T.ctl.activated = S.ctl.activated
    BY DEF State, CtlType
  <2>2. QED
    BY <2>1 DEF AskedOk, Stoppable
<1>4. Resting(None, T.pl.protected, T.fifo, T.item, T.gst, T.client.owed)
  BY NoCurrentRests
<1>5. CleanOk(T.gst, T.bug)
  BY DEF CleanOk, Stoppable
<1>6. ~IsBuffering(T.pl.buf)
  BY DEF NotBuffering, IsBuffering
<1>7. ItemsPlain(T.item) /\ T.calls = {} /\ ~T.skip /\ T.watcher # "GONE"
      /\ (LocalFiles => \A i \in Streams : T.item[i].realtime)
  BY DEF Stoppable
<1>8. Plain(T)
  BY <1>1, <1>2, <1>3, <1>4, <1>5, <1>6, <1>7, RestPlain
<1>9. Waiting(T) = S.fifo.queue
  BY NoneWaits
<1>10. QED
  BY <1>8, <1>9, MovesOn

LEMMA DoErrorRecoveryPlain ==
    ASSUME PlainPlayback, NEW S \in State, Stoppable(S)
    PROVE  LET T == DoErrorRecovery(S)
           IN  T \in State /\ Plain(T) /\ Moves(S, T)
<1> DEFINE T == DoErrorRecovery(S)
           A == [S EXCEPT !.pl.nextReq = "NOT_REQUESTED", !.fail.clearFifo = FALSE]
           th == BT!Throttle(A.threads)
           G == GstSetState(NewPipeline, "READY")
           B == [[A EXCEPT !.threads = th] EXCEPT !.gst = G]
           E == EmitStoppedWithError(B, A.pl.cur)
<1>1. T \in State
  BY DoErrorRecoveryLeads DEF Leads
<1>2. /\ G \in GstType /\ ~Loaded(G) /\ GstOk(G) /\ BusOk(G)
      /\ G.uri = NoUri /\ G.target = "READY"
      /\ \A kind : kind # "STATE_CHANGED" => ~OnBus(G, kind)
  BY RebuiltPipeline
<1>3. /\ A \in State /\ A.pl.cur = S.pl.cur /\ ~A.fail.clearFifo /\ A.ctl = S.ctl
      /\ A.watcher = S.watcher /\ A.fifo = S.fifo /\ A.item = S.item /\ A.calls = S.calls
      /\ A.idle = S.idle /\ A.skip = S.skip /\ A.client = S.client /\ A.bug = S.bug
  BY DEF State, PlType, FailType
<1>4. T = [E EXCEPT !.pl.cur = None, !.pl.justStarted = FALSE,
                    !.pl.nextReq = "NOT_REQUESTED", !.fail = NoFailure]
  <2>1. T = DoStopPipelineAndRecoverFromError(A)
    BY DEF DoErrorRecovery
  <2>2. RebuildPlaybin(A) = B
    BY DEF RebuildPlaybin, Throttle
  <2>3. ~B.fail.clearFifo
    <3> HIDE DEF A, th, G
    <3>1. B.fail = A.fail
      BY <1>3 DEF State
    <3>2. QED
      BY <1>3, <3>1
  <2> HIDE DEF A, B, T
  <2>4. QED
    BY <2>1, <2>2, <2>3 DEF DoStopPipelineAndRecoverFromError
<1>5. th \in ThreadsType
  <2>1. A.threads \in ThreadsType
    BY <1>3 DEF State
  <2>2. QED
    BY <2>1, ThrottleThreads
<1> HIDE DEF A, G, th
<1>6. /\ B \in State /\ B.gst = G /\ B.pl = A.pl /\ B.ctl = A.ctl
      /\ B.watcher = A.watcher /\ B.fifo = A.fifo /\ B.item = A.item /\ B.calls = A.calls
      /\ B.idle = A.idle /\ B.skip = A.skip /\ B.client = A.client /\ B.bug = A.bug
  BY <1>2, <1>3, <1>5 DEF State
<1> HIDE DEF B
<1>7. StoppedAs(B, E, {A.pl.cur})
  <2>1. A.pl.cur # None => ~NoUrls(A.pl.cur)
    BY <1>3, FifoTypes, UrlIsKnown DEF Stoppable
  <2>2. QED
    BY <1>6, <2>1, EmitStoppedWithErrorAs
<1> HIDE DEF E, T
<1>8. /\ T.gst = E.gst /\ T.ctl = E.ctl /\ T.fifo = E.fifo /\ T.client = E.client
      /\ T.item = E.item /\ T.calls = E.calls /\ T.skip = E.skip /\ T.idle = E.idle
      /\ T.watcher = E.watcher /\ T.bug = E.bug
      /\ T.pl.cur = None /\ T.pl.buf = E.pl.buf
  BY <1>4, <1>7 DEF StoppedAs, State, PlType
<1>9. T.gst = G
  <2>1. T.gst = [G EXCEPT !.uri = NoUri]
    BY <1>6, <1>7, <1>8 DEF StoppedAs
  <2>2. QED
    BY <1>2, <2>1 DEF GstType
<1>10. T.pl.buf = NotBuffering
  <2>1. B.pl \in PlType
    BY <1>6 DEF State
  <2>2. QED
    BY <1>7, <1>8, <2>1 DEF StoppedAs, PlType
<1>11. T.client.owed = S.client.owed \ {S.pl.cur}
  <2>1. DroppedIds(B.fifo) = {}
    BY <1>3, <1>6 DEF Stoppable, QueuePlain, DroppedIds, Elems
  <2>2. T.client.owed = S.client.owed \ ({S.pl.cur} \cup {})
    BY <1>3, <1>6, <1>7, <1>8, <2>1 DEF StoppedAs
  <2>3. QED
    BY <2>2
<1>12. /\ T.ctl = [S.ctl EXCEPT !.status = "STOPPED"] /\ T.fifo.queue = S.fifo.queue
       /\ T.fifo.removed = <<>> /\ T.fifo.dropped = {}
       /\ T.client.told \in {S.client.told, None}
       /\ T.item = S.item /\ T.calls = S.calls /\ T.skip = S.skip /\ T.idle = S.idle
       /\ T.watcher = S.watcher /\ T.bug = S.bug
  BY <1>3, <1>6, <1>7, <1>8 DEF StoppedAs
<1>13. /\ ~Loaded(T.gst) /\ GstOk(T.gst) /\ BusOk(T.gst) /\ T.gst.uri = NoUri
       /\ T.gst.target = "READY" /\ ~OnBus(T.gst, "ERROR") /\ ~OnBus(T.gst, "VIDEO_DECODER")
  BY <1>2, <1>9
<1>14. Plain(T) /\ Moves(S, T)
  BY <1>1, <1>8, <1>10, <1>11, <1>12, <1>13, StoppedPlain
<1>15. QED
  BY <1>1, <1>14 DEF T

LEMMA FailCurrentPlain ==
    ASSUME PlainPlayback, NEW S \in State, Plain(S), S.pl.cur # None
    PROVE  LET T == FailCurrent(S)
           IN  T \in State /\ Plain(T) /\ Moves(S, T)
<1> DEFINE c == S.pl.cur
           M == [S EXCEPT !.item[c].failed = TRUE]
           r == [S.item[c] EXCEPT !.failed = TRUE]
<1>1. Stoppable(S) /\ c \in Streams
  BY PlainIsStoppable, FifoTypes
<1>2. CASE S.item[c].failed
  <2>1. FailCurrent(S) = S /\ Moves(S, S)
    BY <1>2, MovesOn DEF FailCurrent
  <2>2. QED
    BY <2>1
<1>3. CASE ~S.item[c].failed
  <2>1. S.item[c] \in ItemType
    BY <1>1 DEF State
  <2>2. /\ r \in ItemType /\ r.state = S.item[c].state /\ r.selected = S.item[c].selected
        /\ r.resolving = S.item[c].resolving /\ r.restart = S.item[c].restart
        /\ r.realtime = S.item[c].realtime
    BY <2>1 DEF ItemType
  <2>3. M = [S EXCEPT !.item[c] = r]
    OBVIOUS
  <2>4. FailCurrent(S) = DoErrorRecovery(M)
    BY <1>3 DEF FailCurrent
  <2> HIDE DEF r, M, c
  <2>5. /\ M \in State
        /\ M.ctl = S.ctl /\ M.pl = S.pl /\ M.watcher = S.watcher /\ M.fifo = S.fifo
        /\ M.gst = S.gst /\ M.calls = S.calls /\ M.idle = S.idle /\ M.skip = S.skip
        /\ M.client = S.client /\ M.bug = S.bug
        /\ \A i \in Streams : /\ M.item[i].state = S.item[i].state
                              /\ M.item[i].selected = S.item[i].selected
                              /\ M.item[i].resolving = S.item[i].resolving
                              /\ M.item[i].restart = S.item[i].restart
                              /\ M.item[i].realtime = S.item[i].realtime
    BY <1>1, <2>2, <2>3, ItemFields
  <2>6. Stoppable(M)
    <3>1. \A n \in 1..Len(S.fifo.queue) : S.fifo.queue[n] \in Streams
      BY FifoTypes
    <3>2. QED
      BY <1>1, <2>5, <3>1 DEF Stoppable, ItemsPlain
  <2>7. LET T == DoErrorRecovery(M) IN T \in State /\ Plain(T) /\ Moves(M, T)
    BY <2>5, <2>6, DoErrorRecoveryPlain
  <2>8. QED
    BY <2>4, <2>5, <2>7, MovesFrom
<1>4. QED
  BY <1>2, <1>3

\* The prefetched stream has failed; all that is left are the streams behind it.
LEMMA FailPrefetchedPlain ==
    ASSUME PlainPlayback, NEW S \in State, Good(S), Plain(S), ~NoErrors, S.pl.cur # None,
           ~IsEmpty(S.fifo)
    PROVE  LET T == FailPrefetched([S EXCEPT !.fifo = Pop(@)], Peek(S.fifo))
           IN  T \in State /\ Plain(T) /\ Moves(S, T)
<1> DEFINE c == S.pl.cur
           head == Peek(S.fifo)
           P == [S EXCEPT !.fifo = Pop(@)]
           D == [P EXCEPT !.fifo = MarkAsDropped(@, c)]
           N == SetStreamState(D, "NULL")
           n0 == SetNull(S.gst)
           E == EmitStoppedWithError(N, head)
           T == FailPrefetched(P, head)
<1>1. /\ Pop(S.fifo) \in FifoType(Streams) /\ Pop(S.fifo).queue = Tail(S.fifo.queue)
      /\ Pop(S.fifo).removed = <<>> /\ Pop(S.fifo).dropped = {}
      /\ head \in Streams /\ head # None
      /\ Elems(S.fifo.queue) = Elems(Pop(S.fifo).queue) \cup {head}
      /\ S.fifo.queue # <<>> /\ Size(Pop(S.fifo)) <= Size(S.fifo)
      /\ \A n \in 1..Len(Pop(S.fifo).queue) : ~S.item[Pop(S.fifo).queue[n]].restart
  BY PopFacts DEF Plain, Core, QueuePlain
<1>2. c \in Streams
  BY FifoTypes
<1>3. /\ P \in State /\ P.fifo = Pop(S.fifo)
      /\ P.ctl = S.ctl /\ P.pl = S.pl /\ P.watcher = S.watcher /\ P.gst = S.gst
      /\ P.item = S.item /\ P.calls = S.calls /\ P.idle = S.idle /\ P.skip = S.skip
      /\ P.threads = S.threads /\ P.client = S.client /\ P.bug = S.bug
  <2>1. QED
    BY <1>1 DEF State
<1>4. T \in State
  BY <1>3, FailPrefetchedLeads DEF Goes
<1>5. T = [E EXCEPT !.fail = NoFailure, !.pl.justStarted = FALSE,
                    !.pl.nextReq = "NOT_REQUESTED", !.pl.cur = None]
  <2> HIDE DEF P, head
  <2>1. QED
    BY <1>3 DEF FailPrefetched
<1> HIDE DEF P, head
<1>6. /\ D \in State /\ D.fifo.queue = Tail(S.fifo.queue) /\ D.fifo.removed = <<>>
      /\ D.fifo.dropped = {c}
      /\ D.ctl = S.ctl /\ D.pl = S.pl /\ D.watcher = S.watcher /\ D.gst = S.gst
      /\ D.item = S.item /\ D.calls = S.calls /\ D.idle = S.idle /\ D.skip = S.skip
      /\ D.threads = S.threads /\ D.client = S.client /\ D.bug = S.bug
  <2>1. MarkAsDropped(P.fifo, c) \in FifoType(Streams)
        /\ MarkAsDropped(P.fifo, c).queue = P.fifo.queue
        /\ MarkAsDropped(P.fifo, c).removed = P.fifo.removed
        /\ MarkAsDropped(P.fifo, c).dropped = P.fifo.dropped \cup {c}
    BY <1>1, <1>2, <1>3 DEF MarkAsDropped, FifoType
  <2>2. D = [P EXCEPT !.fifo = MarkAsDropped(P.fifo, c)]
    OBVIOUS
  <2> HIDE DEF D
  <2>3. QED
    BY <1>1, <1>3, <2>1, <2>2 DEF State
<1> HIDE DEF D
<1>7. /\ n0 \in GstType /\ n0.state = "NULL" /\ n0.pending = "VOID" /\ n0.target = "NULL"
      /\ n0.curUri = NoUri /\ n0.heard = NoUri /\ ~n0.drained /\ n0.bus = <<>>
  <2>1. S.gst \in GstType
    BY DEF State
  <2>2. QED
    BY <2>1, SetNullType DEF SetNull, Unload, GstType
<1>8. /\ N \in State /\ N.gst = n0 /\ N.fifo = D.fifo
      /\ N.ctl = S.ctl /\ N.pl = S.pl /\ N.watcher = S.watcher
      /\ N.item = S.item /\ N.calls = S.calls /\ N.idle = S.idle /\ N.skip = S.skip
      /\ N.client = S.client /\ N.bug = S.bug
  <2>1. N = [D EXCEPT !.gst = n0]
    BY <1>6 DEF SetStreamState, GstSetState
  <2> HIDE DEF N, n0
  <2>2. QED
    BY <1>6, <1>7, <2>1 DEF State
<1> HIDE DEF N, n0
<1>9. StoppedAs(N, E, {head})
  <2>1. ~NoUrls(head)
    BY <1>1, UrlIsKnown DEF Plain, Core
  <2>2. QED
    BY <1>8, <2>1, EmitStoppedWithErrorAs
<1> HIDE DEF E, T
<1>10. /\ T.gst = E.gst /\ T.ctl = E.ctl /\ T.fifo = E.fifo /\ T.client = E.client
       /\ T.item = E.item /\ T.calls = E.calls /\ T.skip = E.skip /\ T.idle = E.idle
       /\ T.watcher = E.watcher /\ T.bug = E.bug
       /\ T.pl.cur = None /\ T.pl.buf = E.pl.buf
  BY <1>5, <1>9 DEF StoppedAs, State, PlType
<1>11. /\ T.gst.state = "NULL" /\ T.gst.pending = "VOID" /\ T.gst.target = "NULL"
       /\ T.gst.uri = NoUri /\ T.gst.curUri = NoUri /\ T.gst.heard = NoUri /\ ~T.gst.drained
       /\ T.gst.bus = <<>>
  <2>1. T.gst = [n0 EXCEPT !.uri = NoUri]
    BY <1>8, <1>9, <1>10 DEF StoppedAs
  <2>2. QED
    BY <1>7, <2>1 DEF GstType
<1>12. ~Loaded(T.gst) /\ GstOk(T.gst) /\ BusOk(T.gst)
  BY <1>11 DEF Loaded, Prerolling, GstOk, BusOk
<1>13. T.pl.buf = NotBuffering
  <2>1. N.pl \in PlType
    BY <1>8 DEF State
  <2>2. QED
    BY <1>9, <1>10, <2>1 DEF StoppedAs, PlType
<1>14. /\ T.ctl = [S.ctl EXCEPT !.status = "STOPPED"] /\ T.fifo.queue = Tail(S.fifo.queue)
       /\ T.fifo.removed = <<>> /\ T.fifo.dropped = {}
       /\ T.client.told \in {S.client.told, None}
       /\ T.item = S.item /\ T.calls = S.calls /\ T.skip = S.skip /\ T.idle = S.idle
       /\ T.watcher = S.watcher /\ T.bug = S.bug
  BY <1>6, <1>8, <1>9, <1>10 DEF StoppedAs
<1>15. T.client.owed = S.client.owed \ {head, c}
  <2>1. DroppedIds(N.fifo) = {c}
    BY <1>6, <1>8 DEF DroppedIds, Elems
  <2>2. T.client.owed = S.client.owed \ ({head} \cup {c})
    BY <1>8, <1>9, <1>10, <2>1 DEF StoppedAs
  <2>3. QED
    BY <2>2
<1>16. Stoppable(S)
  BY PlainIsStoppable
<1>17. QueuePlain(None, T.fifo, T.client.owed)
  <2>1. Size(T.fifo) <= MaxItems
    <3>1. Len(T.fifo.queue) \in Nat /\ Len(S.fifo.queue) \in Nat
      BY <1>4, FifoTypes
    <3>2. QED
      BY <1>1, <1>14, <1>16, <3>1, MaxItemsAssumption DEF Stoppable, QueuePlain, Size
  <2>2. T.client.owed \subseteq Elems(T.fifo.queue)
    BY <1>1, <1>14, <1>15, <1>16 DEF Stoppable, QueuePlain, head
  <2>3. QED
    BY <1>14, <2>1, <2>2 DEF QueuePlain
<1>18. RestartOk(None, T.fifo, T.item, T.gst)
  BY <1>1, <1>14 DEF RestartOk, Size
<1>19. AskedOk(T.ctl, T.pl.buf, None, T.idle, T.gst)
  <2>1. T.ctl.status = "STOPPED" /\ T.ctl.activated = S.ctl.activated
    BY <1>14 DEF State, CtlType
  <2>2. QED
    BY <1>11, <1>14, <1>16, <2>1 DEF AskedOk, Stoppable
<1>20. Resting(None, T.pl.protected, T.fifo, T.item, T.gst, T.client.owed)
  BY <1>11, NoCurrentRests
<1>21. CleanOk(T.gst, T.bug)
  BY DEF CleanOk
<1>22. ~IsBuffering(T.pl.buf)
  BY <1>13 DEF NotBuffering, IsBuffering
<1>23. ItemsPlain(T.item) /\ T.calls = {} /\ ~T.skip /\ T.watcher # "GONE"
       /\ (LocalFiles => \A i \in Streams : T.item[i].realtime)
  BY <1>14, <1>16 DEF Stoppable
<1>24. Plain(T)
  BY <1>4, <1>10, <1>12, <1>17, <1>18, <1>19, <1>20, <1>21, <1>22, <1>23, RestPlain
<1>25. Waiting(T) = Tail(S.fifo.queue)
  BY <1>4, <1>10, <1>14, NoneWaits
<1>26. Moves(S, T)
  BY <1>1, <1>14, <1>25, MovesOn
<1>27. QED
  BY <1>4, <1>24, <1>26 DEF T, P, head

LEMMA HandleErrorMessagePlain ==
    ASSUME PlainPlayback, NEW S \in State, Good(S), Plain(S), ~NoErrors, NEW reason, NEW late
    PROVE  LET T == HandleErrorMessage(S, reason, late)
           IN  T \in State /\ (Died(T) \/ (Plain(T) /\ Moves(S, T)))
<1> DEFINE T == HandleErrorMessage(S, reason, late)
           which == DetermineFailedStream(S)
           gapless == which \in {"GAPLESS_NEXT", "GAPLESS_NEXT_WITH_PREFAIL_REASON"}
           retry == \/ which = "CURRENT_WITH_PREFAIL_REASON"
                    \/ which \in {"CURRENT", "GAPLESS_NEXT"} /\ reason = "RETRY"
           c == S.pl.cur
           crash == \/ S.gst.curUri # NoUri /\ Alive(S) # {} /\ NoUrls(Consulted(S))
                    \/ which = "GAPLESS_NEXT" /\ S.pl.cur = None
                    \/ gapless /\ IsEmpty(S.fifo)
<1>1. T \in State
  BY HandleErrorMessageLeads DEF Leads
<1>2. CASE crash
  <2>1. T = Crash(S)
    BY <1>2 DEF HandleErrorMessage
  <2>2. Died(T)
    BY <2>1, CrashAside
  <2>3. QED
    BY <1>1, <2>2
<1>3. CASE ~crash /\ which = "ALREADY_GONE"
  <2>1. T = S /\ Moves(S, S)
    BY <1>3, MovesOn DEF HandleErrorMessage
  <2>2. QED
    BY <2>1
<1>4. CASE ~crash /\ which = "UNKNOWN"
  <2>1. T = Bug(S, "NO_FAILED_ITEM")
    BY <1>4 DEF HandleErrorMessage
  <2>2. Plain(T) /\ Alike(S, T)
    BY <2>1, BugFields DEF BugNames
  <2>3. QED
    BY <1>1, <2>2, AlikeMoves
<1>5. CASE ~crash /\ gapless
  <2> DEFINE P == [S EXCEPT !.fifo = Pop(@)]
  <2>1. c # None /\ ~IsEmpty(S.fifo)
    BY <1>5 DEF DetermineFailedStream
  <2>2. c \in Streams
    BY <2>1, FifoTypes
  <2>3. P.pl = S.pl /\ P.item = S.item
    BY DEF State
  <2>4. ~HasNextUrl(c, S.item[c], late)
    BY <2>2, UrlIsKnown DEF Plain, Core
  <2>5. ~TryRefreshUri(P, late, gapless).ok /\ TryRefreshUri(P, late, gapless).s = P
    <3> HIDE DEF P, gapless
    <3>1. QED
      BY <2>3, <2>4 DEF TryRefreshUri
  <2>6. T = FailPrefetched(P, Peek(S.fifo))
    <3> DEFINE again == IF retry THEN TryRefreshUri(P, late, gapless) ELSE [s |-> P, ok |-> FALSE]
    <3>1. ~again.ok /\ again.s = P
      BY <2>5
    <3>2. T = IF again.ok THEN again.s ELSE FailPrefetched(again.s, Peek(S.fifo))
      BY <1>5 DEF HandleErrorMessage
    <3> HIDE DEF again
    <3>3. QED
      BY <3>1, <3>2
  <2>7. QED
    BY <1>1, <2>1, <2>6, FailPrefetchedPlain
<1>6. CASE ~crash /\ which \in {"CURRENT", "CURRENT_WITH_PREFAIL_REASON"}
  <2>1. c # None
    BY <1>6 DEF DetermineFailedStream
  <2>2. c \in Streams
    BY <2>1, FifoTypes
  <2>3. ~HasNextUrl(c, S.item[c], late)
    BY <2>2, UrlIsKnown DEF Plain, Core
  <2>4. ~TryRefreshUri(S, late, gapless).ok /\ TryRefreshUri(S, late, gapless).s = S
    <3> HIDE DEF gapless
    <3>1. QED
      BY <2>3 DEF TryRefreshUri
  <2>5. T = FailCurrent(S)
    <3> DEFINE again == IF retry THEN TryRefreshUri(S, late, gapless) ELSE [s |-> S, ok |-> FALSE]
    <3>1. ~again.ok /\ again.s = S
      BY <2>4
    <3>2. T = IF again.ok THEN again.s ELSE FailCurrent(again.s)
      BY <1>6 DEF HandleErrorMessage
    <3> HIDE DEF again
    <3>3. QED
      BY <3>1, <3>2
  <2>6. QED
    BY <1>1, <2>1, <2>5, FailCurrentPlain
<1>7. which \in {"ALREADY_GONE", "UNKNOWN", "GAPLESS_NEXT", "GAPLESS_NEXT_WITH_PREFAIL_REASON",
                 "CURRENT", "CURRENT_WITH_PREFAIL_REASON"}
  BY DEF DetermineFailedStream
<1>8. QED
  BY <1>2, <1>3, <1>4, <1>5, <1>6, <1>7

\* The process dies inside of a handler, which takes an error reported by GStreamer.
Fails(T) == Died(T) /\ ~NoErrors

\* How a step relates to the order of streams.
Proceeds(S, T) == Moves(S, T) \/ Announces(S, T)

LEMMA HandleMessagePlain ==
    ASSUME PlainPlayback, NEW S \in State, Good(S), ~Died(S), Plain(S), S.gst.bus # <<>>,
           NEW T \in HandleMessage(Taken(S), S.gst.bus[1])
    PROVE  T \in State /\ (Fails(T) \/ (Plain(T) /\ Proceeds(S, T)))
<1> DEFINE R == Taken(S)
           g == S.gst
           m == g.bus[1]
<1>1. m \in Messages /\ 1 \in 1..Len(g.bus)
  <2>1. g.bus \in Seq(Messages)
    BY DEF State, GstType
  <2>2. QED
    BY <2>1
<1>2. /\ R \in State /\ R.gst = [g EXCEPT !.bus = Tail(@)]
      /\ R.ctl = S.ctl /\ R.pl = S.pl /\ R.watcher = S.watcher
      /\ R.fifo = S.fifo /\ R.item = S.item /\ R.calls = S.calls /\ R.idle = S.idle
      /\ R.skip = S.skip /\ R.threads = S.threads /\ R.client = S.client /\ R.bug = S.bug
  BY TakenFields
<1>3. Good(R)
  BY <1>2 DEF Good
<1>4. /\ m[1] # "CLOCK_LOST"
      /\ m[1] \in {"BUFFERING", "ASYNC_DONE"} => Loaded(g) /\ ~LocalFiles
      /\ m[1] \in {"ERROR", "VIDEO_DECODER"} => ~NoErrors
  <2>1. OnBus(g, m[1]) /\ m[1] # "CLOCK_LOST" /\ (~Loaded(g) => Late(m))
    BY <1>1 DEF OnBus, Plain, Core, BusOk
  <2>2. m[1] \in {"BUFFERING", "ASYNC_DONE"} => Loaded(g) /\ ~LocalFiles
    BY <2>1 DEF Plain, Core, BoostOk, Late
  <2>3. m[1] \in {"ERROR", "VIDEO_DECODER"} => ~NoErrors
    BY <2>1 DEF Plain, Core, CleanOk
  <2>4. QED
    BY <2>1, <2>2, <2>3
<1>5. /\ m[1] \in {"STATE_CHANGED", "STREAM_START", "EOS", "BUFFERING", "ERROR", "ASYNC_DONE",
                   "VIDEO_DECODER", "CLOCK_LOST"}
      /\ m[1] = "STATE_CHANGED" => m = StateChanged(m[2], m[3], m[4])
  BY <1>1 DEF Messages, StateChanged, StreamStart, ErrorMessage, BufferingMessage, EndOfStream,
     VideoDecoderFound, ClockLost, AsyncDone
<1>6. m[1] \notin {"STATE_CHANGED", "STREAM_START"} => Plain(R)
  BY TakenPlain
<1>7. \A U : Moves(R, U) => Moves(S, U)
  BY <1>2, MovesFrom
<1>8. m[1] \in {"BUFFERING", "ASYNC_DONE"} => Active(R.gst) /\ R.pl.cur # None
  <2>1. m[1] \in {"BUFFERING", "ASYNC_DONE"} => Loaded(R.gst)
    <3>1. g \in GstType
      BY DEF State
    <3>2. Loaded(R.gst) <=> Loaded(g)
      <4> HIDE DEF R
      <4>1. R.gst.state = g.state /\ R.gst.pending = g.pending
        BY <1>2, <3>1 DEF GstType
      <4>2. QED
        BY <4>1 DEF Loaded, Prerolling
    <3>3. QED
      BY <1>4, <3>2
  <2>2. QED
    BY <1>2, <1>6, <2>1, LoadedIsActive, ActiveFacts DEF Plain, Core
<1>9. CASE m[1] = "STATE_CHANGED"
  <2>1. T = HandleStreamStateChange(R, m[2], m[3], m[4])
    BY <1>9 DEF HandleMessage
  <2>2. T \in State /\ Plain(T) /\ Moves(S, T)
    BY <1>5, <1>9, <2>1, HandleStreamStateChangePlain
  <2>3. QED
    BY <2>2 DEF Proceeds
<1>10. CASE m[1] = "STREAM_START"
  <2>1. T = HandleStartOfStream(R)
    BY <1>10 DEF HandleMessage
  <2>2. QED
    BY <1>10, <2>1, HandleStartOfStreamPlain DEF Proceeds
<1>11. CASE m[1] = "EOS"
  <2>1. T = HandleEndOfStream(R)
    BY <1>11 DEF HandleMessage
  <2>2. QED
    BY <1>11, <2>1, HandleEndOfStreamPlain DEF Proceeds
<1>12. CASE m[1] = "BUFFERING"
  <2>1. T = HandleBuffering(R, m[2])
    BY <1>12 DEF HandleMessage
  <2> HIDE DEF R, m
  <2>2. T \in State
    BY <1>2, <2>1, HandleBufferingAside DEF Aside
  <2>3. Steered(R, T)
    BY <1>2, <1>4, <1>6, <1>8, <1>12, <2>1, HandleBufferingPlain
  <2>4. Plain(T) /\ Moves(R, T)
    BY <1>2, <2>3, AlikeMoves DEF Steered
  <2>5. QED
    BY <1>7, <2>2, <2>4 DEF Proceeds
<1>13. CASE m[1] = "ERROR"
  <2>1. PICK late \in BOOLEAN : T = HandleErrorMessage(R, m[2], late)
    BY <1>13 DEF HandleMessage
  <2> HIDE DEF R, m
  <2>2. T \in State /\ (Died(T) \/ (Plain(T) /\ Moves(R, T)))
    BY <1>2, <1>3, <1>4, <1>6, <1>13, <2>1, HandleErrorMessagePlain
  <2>3. QED
    BY <1>4, <1>7, <1>13, <2>2 DEF Fails, Proceeds
<1>14. CASE m[1] = "ASYNC_DONE"
  <2>1. PICK known \in BOOLEAN : T = HandleStreamDurationAsync(R, known)
    BY <1>14 DEF HandleMessage
  <2> HIDE DEF R, m
  <2>2. T \in State /\ Plain(T) /\ Moves(R, T)
    BY <1>2, <1>4, <1>6, <1>8, <1>14, <2>1, HandleStreamDurationAsyncPlain
  <2>3. QED
    BY <1>7, <2>2 DEF Proceeds
<1>15. CASE m[1] = "VIDEO_DECODER"
  <2>1. T = HandleVideoDecoder(R)
    BY <1>15 DEF HandleMessage
  <2> HIDE DEF R, m
  <2>2. T \in State /\ Plain(T) /\ Moves(R, T)
    BY <1>2, <1>4, <1>6, <1>15, <2>1, HandleVideoDecoderPlain
  <2>3. QED
    BY <1>7, <2>2 DEF Proceeds
<1>16. QED
  BY <1>4, <1>5, <1>9, <1>10, <1>11, <1>12, <1>13, <1>14, <1>15

-----------------------------------------------------------------------------
(* Method Start *)

\* The pipeline has been rebuilt, and the current stream is the one to be played next.
Rebuilt(B) ==
    /\ B.gst = GstSetState(NewPipeline, "READY")
    /\ B.pl.cur \in Streams /\ B.pl.cur # None
    /\ B.pl.cur \notin Elems(B.fifo.queue) /\ HeadIs(B.fifo, B.item, "IN_QUEUE")
    /\ ItemsPlain(B.item) /\ QueuePlain(B.pl.cur, B.fifo, B.client.owed)
    /\ B.calls = {} /\ ~B.skip /\ B.watcher # "GONE"
    /\ \A n \in 1..Len(B.fifo.queue) : ~B.item[B.fifo.queue[n]].restart
    /\ B.ctl.activated /\ B.ctl.status = "PLAYING" /\ ~IsBuffering(B.pl.buf)
    /\ LocalFiles => \A i \in Streams : B.item[i].realtime
    /\ NoErrors => B.bug \cap Fatal = {}

\* A stream which has been started before is not started again.
LEMMA StuckPlain ==
    ASSUME NEW B \in State, Rebuilt(B), B.item[B.pl.cur].state \in Awaited
    PROVE  Plain(B)
<1> DEFINE G == B.gst
<1>1. /\ G \in GstType /\ ~Loaded(G) /\ GstOk(G) /\ BusOk(G)
      /\ G.uri = NoUri /\ G.target = "READY" /\ G.bus = <<StateChanged("NULL", "READY", "VOID")>>
      /\ \A kind : kind # "STATE_CHANGED" => ~OnBus(G, kind)
  BY RebuiltPipeline DEF Rebuilt
<1>2. Len(G.bus) = 1 /\ Arrival(G.bus[1])
  BY <1>1 DEF Arrival, StateChanged
<1>3. AskedOk(B.ctl, B.pl.buf, B.pl.cur, B.idle, G)
  BY <1>1, <1>2 DEF AskedOk, Rebuilt
<1>4. Resting(B.pl.cur, B.pl.protected, B.fifo, B.item, G, B.client.owed)
  BY <1>1 DEF Resting, Rebuilt, Awaited
<1>5. RestartOk(B.pl.cur, B.fifo, B.item, G) /\ CleanOk(G, B.bug)
  BY <1>1 DEF RestartOk, CleanOk, Rebuilt, Size
<1>6. QED
  BY <1>1, <1>3, <1>4, <1>5, RestPlain DEF Rebuilt

\* gst_element_set_state(PLAYING) for a rebuilt pipeline with a URI.
LEMMA LaunchFields ==
    ASSUME NEW g \in GstType, NEW u \in Uris, u # NoUri, g.state = "READY", g.pending = "VOID",
           g.uri = u, g.bus = <<StateChanged("NULL", "READY", "VOID")>>
    PROVE  LET h == GstSetState(g, "PLAYING")
           IN  /\ h \in GstType /\ h.state = "READY" /\ h.target = "PLAYING"
               /\ h.uri = u /\ h.curUri = u /\ h.heard = NoUri /\ ~h.drained
               /\ (Loaded(h) <=> u \notin Unopenable) /\ GstOk(h) /\ BusOk(h)
               /\ Len(h.bus) = 1 /\ h.bus[1] = StateChanged("NULL", "READY", "VOID")
               /\ GstRefuses(g, "PLAYING") <=> u \in Unopenable
<1> DEFINE h == GstSetState(g, "PLAYING")
           load == [Unload(g) EXCEPT !.state = "READY", !.target = "PLAYING", !.curUri = g.uri]
<1>1. h = IF u \in Unopenable THEN [load EXCEPT !.pending = "VOID"]
                              ELSE [load EXCEPT !.pending = "PLAYING"]
  BY DEF GstSetState, SetActive, LeaveReady, Prerolling
<1>2. /\ load \in GstType /\ load.state = "READY" /\ load.target = "PLAYING" /\ load.curUri = u
      /\ load.uri = u /\ load.heard = NoUri /\ ~load.drained /\ load.bus = g.bus
  BY NoUriType DEF GstType, GstStates, Unload
<1>3. h \in GstType
  BY GstSetStateType DEF GstStates
<1> HIDE DEF h, load
<1>4. /\ h.state = "READY" /\ h.target = "PLAYING"
      /\ h.pending = IF u \in Unopenable THEN "VOID" ELSE "PLAYING"
      /\ h.uri = u /\ h.curUri = u /\ h.heard = NoUri /\ ~h.drained /\ h.bus = g.bus
  BY <1>1, <1>2 DEF GstType
<1>5. Loaded(h) <=> u \notin Unopenable
  BY <1>4 DEF Loaded, Prerolling
<1>6. GstOk(h)
  BY <1>4, <1>5 DEF GstOk
<1>7. Len(h.bus) = 1 /\ h.bus[1] = StateChanged("NULL", "READY", "VOID")
  BY <1>4
<1>8. BusOk(h)
  BY <1>7 DEF BusOk, Late, StateChanged
<1>9. GstRefuses(g, "PLAYING") <=> u \in Unopenable
  BY DEF GstRefuses, Prerolling
<1>10. QED
  BY <1>3, <1>4, <1>5, <1>6, <1>7, <1>8, <1>9 DEF h

LEMMA LaunchPlain ==
    ASSUME PlainPlayback, NEW B \in State, Rebuilt(B), B.item[B.pl.cur].state = "IN_QUEUE",
           B.pl.cur \in B.client.owed
    PROVE  LET T == PlayNextStream(B, None, B.pl.cur, "PLAYING", FALSE, FALSE).s
           IN  T \in State /\ Plain(T) /\ Alike([B EXCEPT !.item = T.item], T)
<1> DEFINE c == B.pl.cur
           A == SetItemState(B, c, "ABOUT_TO_ACTIVATE")
           C == [A EXCEPT !.gst.uri = UriOf(c), !.pl.nextReq = "NOT_REQUESTED"]
           h == GstSetState(C.gst, "PLAYING")
           M == SetStreamState(C, "PLAYING")
           T == PlayNextStream(B, None, c, "PLAYING", FALSE, FALSE).s
<1>1. c \in Streams /\ c # None
  BY DEF Rebuilt
<1>2. /\ A \in State
      /\ A.ctl = B.ctl /\ A.pl = B.pl /\ A.watcher = B.watcher
      /\ A.fifo = B.fifo /\ A.gst = B.gst /\ A.calls = B.calls /\ A.idle = B.idle
      /\ A.skip = B.skip /\ A.threads = B.threads /\ A.client = B.client
      /\ A.bug = B.bug
      /\ A.item[c].state = "ABOUT_TO_ACTIVATE"
      /\ \A j \in Streams : j # c => A.item[j] = B.item[j]
      /\ \A j \in Streams : /\ A.item[j].selected = B.item[j].selected
                            /\ A.item[j].resolving = B.item[j].resolving
                            /\ A.item[j].restart = B.item[j].restart
                            /\ A.item[j].realtime = B.item[j].realtime
  <2> HIDE DEF c
  <2>1. "ABOUT_TO_ACTIVATE" \in ItemStates
    BY DEF ItemStates
  <2>2. QED
    BY <1>1, <2>1, SetStateFields
<1>3. ItemsPlain(A.item)
  BY <1>2 DEF ItemsPlain, Rebuilt
<1>4. T = IF GstRefuses(C.gst, "PLAYING") THEN M ELSE DoEncourageBuffering(M)
  <2>1. T = ResolveSelectedUrlOrPlayUri(A, c, "PLAYING", FALSE).s
    BY DEF PlayNextStream
  <2> HIDE DEF A, T
  <2>2. UrlState(c, A.item[c]) = "KNOWN_DIRECT_URL" /\ UrlForPlaying(c, A.item[c]) = UriOf(c)
    BY <1>1, <1>2, <1>3, UrlIsKnown
  <2>3. T = OnLinkResolved(A, c, "PLAYING", FALSE).s
    BY <2>1, <2>2 DEF ResolveSelectedUrlOrPlayUri
  <2>4. QED
    BY <2>2, <2>3 DEF OnLinkResolved
<1>5. T \in State
  <2>1. "PLAYING" \in GstStates
    BY DEF GstStates
  <2>2. QED
    BY <1>1, <2>1, PlayNextStreamLeads DEF Leads
<1> HIDE DEF A, T
<1>6. UriOf(c) \in Uris /\ UriOf(c) # NoUri
  BY <1>1 DEF UriOf, Uris, NoUri
<1>7. /\ C \in State /\ C.gst = [B.gst EXCEPT !.uri = UriOf(c)]
      /\ C.pl.cur = c /\ C.pl.buf = B.pl.buf /\ C.pl.protected = B.pl.protected
      /\ C.item = A.item /\ C.fifo = B.fifo /\ C.client = B.client /\ C.ctl = B.ctl
      /\ C.watcher = B.watcher /\ C.idle = B.idle /\ C.calls = B.calls /\ C.skip = B.skip
      /\ C.threads = B.threads /\ C.bug = B.bug
  BY <1>2, <1>6 DEF State, PlType, GstType
<1>8. /\ C.gst \in GstType /\ C.gst.state = "READY" /\ C.gst.pending = "VOID"
      /\ C.gst.uri = UriOf(c) /\ C.gst.bus = <<StateChanged("NULL", "READY", "VOID")>>
  <2>1. /\ B.gst \in GstType /\ B.gst.state = "READY" /\ B.gst.pending = "VOID"
        /\ B.gst.bus = <<StateChanged("NULL", "READY", "VOID")>>
    BY RebuiltPipeline DEF Rebuilt
  <2>2. QED
    BY <1>6, <1>7, <2>1 DEF GstType
<1> HIDE DEF C
<1>9. /\ h \in GstType /\ h.state = "READY" /\ h.target = "PLAYING"
      /\ h.uri = UriOf(c) /\ h.curUri = UriOf(c) /\ h.heard = NoUri /\ ~h.drained
      /\ (Loaded(h) <=> UriOf(c) \notin Unopenable) /\ GstOk(h) /\ BusOk(h)
      /\ Len(h.bus) = 1 /\ h.bus[1] = StateChanged("NULL", "READY", "VOID")
      /\ GstRefuses(C.gst, "PLAYING") <=> UriOf(c) \in Unopenable
  <2> DEFINE p == C.gst
             u == UriOf(c)
  <2>1. p \in GstType /\ p.state = "READY" /\ p.pending = "VOID" /\ p.uri = u /\ u \in Uris
        /\ u # NoUri /\ p.bus = <<StateChanged("NULL", "READY", "VOID")>>
    BY <1>6, <1>8
  <2> HIDE DEF p, u
  <2>2. QED
    BY <2>1, LaunchFields DEF p, u
<1>10. /\ M \in State /\ M.gst = h /\ M.pl = C.pl
       /\ M.item = A.item /\ M.fifo = B.fifo /\ M.client = B.client /\ M.ctl = B.ctl
       /\ M.watcher = B.watcher /\ M.idle = B.idle /\ M.calls = B.calls /\ M.skip = B.skip
       /\ M.threads = B.threads /\ M.bug = B.bug
  <2> HIDE DEF h
  <2>1. M = [C EXCEPT !.gst = h]
    BY DEF SetStreamState, h
  <2> HIDE DEF M
  <2>2. QED
    BY <1>7, <1>9, <2>1 DEF State
<1> HIDE DEF M, h
<1>11. \A kind : kind # "STATE_CHANGED" => ~OnBus(h, kind)
  BY <1>9 DEF OnBus, StateChanged
<1>12. /\ HeadIs(B.fifo, A.item, "IN_QUEUE")
       /\ \A n \in 1..Len(B.fifo.queue) : ~A.item[B.fifo.queue[n]].restart
  <2>1. B.fifo.queue \in Seq(Streams)
    BY FifoTypes
  <2>2. \A n \in 1..Len(B.fifo.queue) : B.fifo.queue[n] \in Streams
    BY <2>1
  <2>3. ~IsEmpty(B.fifo) => Peek(B.fifo) \in Streams /\ Peek(B.fifo) # c
    BY <2>1, HeadOfQueue DEF IsEmpty, Peek, Rebuilt
  <2>4. QED
    BY <1>2, <2>2, <2>3 DEF HeadIs, Rebuilt
<1>13. RestartOk(c, B.fifo, A.item, h)
  BY <1>12 DEF RestartOk, Size
<1>14. PhaseOk(c, C.pl.protected, B.fifo, A.item, h, B.client.owed)
  <2>1. CASE UriOf(c) \in Unopenable
    <3>1. Unopened(c, B.fifo, A.item, h)
      BY <1>1, <1>2, <1>9, <1>12, <2>1 DEF Unopened, Awaited
    <3>2. QED
      BY <1>9, <2>1, <3>1 DEF PhaseOk
  <2>2. CASE UriOf(c) \notin Unopenable
    <3>1. ~OnBus(h, "STREAM_START")
      BY <1>11
    <3>2. First(c, B.fifo, A.item, h, B.client.owed)
      BY <1>2, <1>9, <1>12, <3>1 DEF First, Awaited
    <3>3. QED
      BY <1>1, <1>9, <2>2, <3>2 DEF PhaseOk
  <2>3. QED
    BY <2>1, <2>2
<1>15. BoostOk(c, A.item, B.pl.buf, h, B.threads)
  BY <1>2, <1>11 DEF BoostOk, Rebuilt, Announced
<1>16. CleanOk(h, B.bug)
  BY <1>9, <1>11 DEF CleanOk, Rebuilt
<1>17. AskedOk(B.ctl, B.pl.buf, c, B.idle, h)
  BY <1>9 DEF AskedOk, Rebuilt
<1>18. WatchedOk(B.watcher, h)
  <2>1. \A n \in 1..Len(h.bus) : ~ArrivalInPlaying(h.bus[n])
    BY <1>9 DEF ArrivalInPlaying, StateChanged
  <2>2. QED
    BY <1>9, <2>1 DEF WatchedOk, Rebuilt
<1>19. Plain(M)
  <2>1. Core(M)
    BY <1>3, <1>7, <1>9, <1>10, <1>13, <1>14, <1>15, <1>16 DEF Core, Rebuilt
  <2>2. QED
    BY <1>7, <1>10, <1>17, <1>18, <2>1 DEF Plain
<1>20. Active(M.gst)
  BY <1>9, <1>10 DEF Active
<1>21. T \in State /\ Plain(T) /\ Alike(M, T)
  <2>1. Alike(M, M)
    BY DEF Alike
  <2>2. Steered(M, DoEncourageBuffering(M))
    BY <1>10, <1>19, <1>20, DoEncourageBufferingPlain
  <2>3. QED
    BY <1>4, <1>5, <1>19, <2>1, <2>2 DEF Steered
<1>22. Alike([B EXCEPT !.item = T.item], T)
  BY <1>7, <1>10, <1>21 DEF Alike, State
<1>23. QED
  BY <1>21, <1>22 DEF T
-----------------------------------------------------------------------------
(* Starting playback *)

LEMMA RebuildFields ==
    ASSUME NEW S \in State
    PROVE  LET B == RebuildPlaybinForWorkarounds(S)
           IN  /\ B \in State /\ B.gst = GstSetState(NewPipeline, "READY")
               /\ B.pl.cur = S.pl.cur /\ B.pl.nextReq = "NOT_REQUESTED" /\ ~IsBuffering(B.pl.buf)
               /\ B.ctl = S.ctl /\ B.watcher = S.watcher /\ B.fifo = S.fifo /\ B.item = S.item
               /\ B.calls = S.calls /\ B.idle = S.idle /\ B.skip = S.skip
               /\ B.client = S.client /\ B.bug = S.bug
<1> DEFINE B == RebuildPlaybinForWorkarounds(S)
           G == GstSetState(NewPipeline, "READY")
           th == BT!Throttle(S.threads)
<1>1. B \in State
  BY RebuildPlaybinForWorkaroundsAside DEF Aside
<1>2. B = [[[S EXCEPT !.threads = th] EXCEPT !.gst = G]
             EXCEPT !.pl.protected = TRUE, !.pl.justStarted = FALSE,
                    !.pl.nextReq = "NOT_REQUESTED", !.pl.buf = NotBuffering, !.fail = NoFailure]
  BY DEF RebuildPlaybinForWorkarounds, RebuildPlaybin, Throttle
<1>3. ~IsBuffering(NotBuffering)
  BY DEF IsBuffering, NotBuffering
<1> HIDE DEF B, G, th, NotBuffering
<1>4. /\ B.pl.cur = S.pl.cur /\ B.pl.nextReq = "NOT_REQUESTED" /\ B.pl.buf = NotBuffering
      /\ B.gst = G
      /\ B.ctl = S.ctl /\ B.watcher = S.watcher /\ B.fifo = S.fifo /\ B.item = S.item
      /\ B.calls = S.calls /\ B.idle = S.idle /\ B.skip = S.skip
      /\ B.client = S.client /\ B.bug = S.bug
  BY <1>2 DEF State, PlType
<1>5. QED
  BY <1>1, <1>3, <1>4 DEF B, G

\* What a rebuilt pipeline is started with.
LaunchedFrom(B, T) ==
    /\ T \in State /\ Plain(T)
    /\ T.pl.cur = B.pl.cur /\ T.fifo = B.fifo /\ T.client = B.client

LEMMA LaunchOrStuck ==
    ASSUME PlainPlayback, NEW B \in State, Rebuilt(B), B.pl.nextReq = "NOT_REQUESTED",
           \/ B.item[B.pl.cur].state = "IN_QUEUE" /\ B.pl.cur \in B.client.owed
           \/ B.item[B.pl.cur].state = "ABOUT_TO_ACTIVATE"
    PROVE  LaunchedFrom(B, PlayNextStream(B, None, B.pl.cur, "PLAYING", FALSE, FALSE).s)
<1> DEFINE T == PlayNextStream(B, None, B.pl.cur, "PLAYING", FALSE, FALSE).s
<1>1. CASE B.item[B.pl.cur].state = "IN_QUEUE"
  <2>1. T \in State /\ Plain(T) /\ Alike([B EXCEPT !.item = T.item], T)
    BY <1>1, LaunchPlain
  <2> HIDE DEF T
  <2>2. /\ [B EXCEPT !.item = T.item].pl = B.pl /\ [B EXCEPT !.item = T.item].fifo = B.fifo
        /\ [B EXCEPT !.item = T.item].client = B.client
    BY DEF State
  <2>3. QED
    BY <2>1, <2>2 DEF Alike, LaunchedFrom, T
<1>2. CASE B.item[B.pl.cur].state = "ABOUT_TO_ACTIVATE"
  <2>1. T = B
    BY <1>2 DEF PlayNextStream
  <2>2. Plain(B)
    BY <1>2, StuckPlain DEF Awaited
  <2>3. QED
    BY <2>1, <2>2 DEF LaunchedFrom
<1>3. QED
  BY <1>1, <1>2

LEMMA RestartPlain ==
    ASSUME PlainPlayback, NEW S \in State, Good(S), Plain(S), ~Loaded(S.gst),
           NEW R \in State, R.ctl.activated, R.ctl.status = "PLAYING",
           R.pl.cur = S.pl.cur, R.fifo = S.fifo, R.item = S.item, R.calls = S.calls,
           R.skip = S.skip, R.client = S.client, R.watcher = S.watcher, R.bug = S.bug
    PROVE  LET T == TryPlayNextStream(RebuildPlaybinForWorkarounds(R), "PLAYING")
           IN  T \in State /\ Plain(T) /\ Moves(S, T)
<1> DEFINE B == RebuildPlaybinForWorkarounds(R)
           T == TryPlayNextStream(B, "PLAYING")
           cur == B.pl.cur
<1>1. /\ B \in State /\ B.gst = GstSetState(NewPipeline, "READY")
      /\ B.pl.cur = S.pl.cur /\ B.pl.nextReq = "NOT_REQUESTED" /\ ~IsBuffering(B.pl.buf)
      /\ B.ctl = R.ctl /\ B.watcher = S.watcher /\ B.fifo = S.fifo /\ B.item = S.item
      /\ B.calls = S.calls /\ B.idle = R.idle /\ B.skip = S.skip
      /\ B.client = S.client /\ B.bug = S.bug
  BY RebuildFields
<1> HIDE DEF B
<1>2. /\ ItemsPlain(S.item) /\ QueuePlain(S.pl.cur, S.fifo, S.client.owed)
      /\ S.calls = {} /\ ~S.skip /\ RestartOk(S.pl.cur, S.fifo, S.item, S.gst)
      /\ PhaseOk(S.pl.cur, S.pl.protected, S.fifo, S.item, S.gst, S.client.owed)
      /\ BoostOk(S.pl.cur, S.item, S.pl.buf, S.gst, S.threads)
      /\ CleanOk(S.gst, S.bug) /\ S.watcher # "GONE"
  BY DEF Plain, Core, WatchedOk
<1>3. /\ LocalFiles => \A i \in Streams : S.item[i].realtime
      /\ NoErrors => S.bug \cap Fatal = {}
  BY <1>2 DEF BoostOk, CleanOk
<1>4. S.pl.cur \in Streams \cup {None} /\ S.client.owed \subseteq Streams
  BY FifoTypes DEF State, ClientType
<1>5. CASE cur # None
  <2>1. /\ S.item[cur].state \in Awaited \/ (S.item[cur].state = "IN_QUEUE" /\ cur \in S.client.owed)
        /\ HeadIs(S.fifo, S.item, "IN_QUEUE")
    BY <1>1, <1>2, <1>5 DEF PhaseOk, Unopened, Resting
  <2>2. cur \notin Elems(S.fifo.queue)
    BY <1>1 DEF Good, QueueOk
  <2>3. \A n \in 1..Len(S.fifo.queue) : ~S.item[S.fifo.queue[n]].restart
    BY <1>1, <1>2, <1>5 DEF RestartOk, Size
  <2>4. Rebuilt(B)
    BY <1>1, <1>2, <1>3, <1>4, <1>5, <2>1, <2>2, <2>3 DEF Rebuilt
  <2>5. PickNextItem(B) = [id |-> cur, inFifo |-> FALSE]
    BY <1>1, <1>5, <2>1 DEF PickNextItem, Awaited
  <2>6. ~NoUrls(cur)
    BY <1>1, <1>2, <1>4, <1>5, UrlIsKnown
  <2> DEFINE take == TryTakeNext(B)
             queued == B.item[cur].state = "IN_QUEUE"
  <2>7. /\ take.s = B /\ take.next = cur /\ take.replaced = FALSE
        /\ take.justQueued = queued
    <3>1. take = [s |-> B, next |-> cur, replaced |-> FALSE, justQueued |-> queued]
      BY <1>5, <2>5, <2>6 DEF TryTakeNext
    <3> HIDE DEF take, queued
    <3>2. QED
      BY <3>1
  <2> HIDE DEF take, queued
  <2>8. CASE queued
    <3>1. T = PlayNextStream(B, None, cur, "PLAYING", FALSE, FALSE).s
      BY <1>5, <2>7, <2>8 DEF TryPlayNextStream, take
    <3>2. LaunchedFrom(B, T)
      <4>1. cur \in B.client.owed
        BY <1>1, <2>1, <2>8 DEF Awaited, queued
      <4>2. QED
        BY <1>1, <2>4, <2>8, <3>1, <4>1, LaunchOrStuck DEF queued
    <3> HIDE DEF T
    <3>3. Waiting(T) = Waiting(S) /\ T.client.told = S.client.told
      BY <1>1, <3>2 DEF LaunchedFrom, Waiting
    <3>4. Moves(S, T)
      BY <3>2, <3>3, MovesOn DEF LaunchedFrom
    <3>5. QED
      BY <3>2, <3>4 DEF LaunchedFrom, T, B
  <2>9. CASE ~queued
    <3>1. T = B
      BY <1>5, <2>7, <2>9 DEF TryPlayNextStream, take
    <3>2. Plain(B)
      BY <1>1, <2>1, <2>4, <2>9, StuckPlain DEF queued
    <3>3. Waiting(B) = Waiting(S) /\ B.client.told = S.client.told
      BY <1>1 DEF Waiting
    <3>4. Moves(S, B)
      BY <1>1, <3>3, MovesOn
    <3>5. QED
      BY <1>1, <3>1, <3>2, <3>4 DEF B
  <2>10. QED
    BY <2>8, <2>9
<1>6. CASE cur = None /\ ~IsEmpty(S.fifo)
  <2> DEFINE P == PopToCurrent(B)
             f == Pop(S.fifo)
             head == Peek(S.fifo)
  <2>1. /\ f \in FifoType(Streams)
        /\ f.queue = Tail(S.fifo.queue)
        /\ f.removed = S.fifo.removed /\ f.dropped = S.fifo.dropped
        /\ head \in Streams /\ head # None /\ head \in S.client.owed
        /\ Elems(S.fifo.queue) = Elems(f.queue) \cup {head} /\ head \notin Elems(f.queue)
        /\ <<head>> \o f.queue = S.fifo.queue
        /\ Size(f) <= Size(S.fifo)
        /\ HeadIs(f, S.item, "IN_QUEUE")
        /\ S.item[head].state \in {"IN_QUEUE", "ABOUT_TO_ACTIVATE"}
        /\ \A n \in 1..Len(f.queue) : ~S.item[f.queue[n]].restart
    BY <1>2, <1>6, PopFacts
  <2>2. /\ P \in State /\ P.pl.cur = head /\ P.fifo = f /\ P.gst = B.gst
        /\ P.pl.nextReq = B.pl.nextReq /\ P.pl.buf = B.pl.buf
        /\ P.ctl = B.ctl /\ P.watcher = B.watcher /\ P.item = B.item
        /\ P.calls = B.calls /\ P.idle = B.idle /\ P.skip = B.skip
        /\ P.client = B.client /\ P.bug = B.bug
    <3>1. P = [B EXCEPT !.pl.cur = head, !.fifo = f]
      BY <1>1, <1>6 DEF PopToCurrent
    <3> HIDE DEF P, f, head
    <3>2. QED
      BY <1>1, <2>1, <3>1 DEF State, PlType
  <2> HIDE DEF P, f, head
  <2>3. QueuePlain(head, f, S.client.owed)
    <3>1. Size(f) <= MaxItems
      <4>1. Size(f) \in Nat /\ Size(S.fifo) \in Nat
        BY <2>1, FifoTypes DEF FifoType, Size
      <4>2. QED
        BY <1>2, <2>1, <4>1, MaxItemsAssumption DEF QueuePlain
    <3>2. S.client.owed \subseteq Elems(f.queue) \cup {head}
      BY <1>1, <1>2, <1>4, <1>6, <2>1, StreamsAssumption DEF QueuePlain, None
    <3>3. QED
      BY <1>2, <2>1, <3>1, <3>2 DEF QueuePlain
  <2>4. Rebuilt(P)
    <3>1. /\ P.gst = GstSetState(NewPipeline, "READY") /\ P.pl.cur \in Streams /\ P.pl.cur # None
          /\ P.pl.cur \notin Elems(P.fifo.queue) /\ HeadIs(P.fifo, P.item, "IN_QUEUE")
      BY <1>1, <2>1, <2>2
    <3>2. /\ ItemsPlain(P.item) /\ QueuePlain(P.pl.cur, P.fifo, P.client.owed)
          /\ P.calls = {} /\ ~P.skip /\ P.watcher # "GONE"
      BY <1>1, <1>2, <2>2, <2>3
    <3>3. \A n \in 1..Len(P.fifo.queue) : ~P.item[P.fifo.queue[n]].restart
      BY <1>1, <2>1, <2>2
    <3>4. /\ P.ctl.activated /\ P.ctl.status = "PLAYING" /\ ~IsBuffering(P.pl.buf)
          /\ LocalFiles => \A i \in Streams : P.item[i].realtime
          /\ NoErrors => P.bug \cap Fatal = {}
      BY <1>1, <1>3, <2>2
    <3>5. QED
      BY <3>1, <3>2, <3>3, <3>4 DEF Rebuilt
  <2>5. PickNextItem(B) = [id |-> head, inFifo |-> TRUE]
    BY <1>1, <1>6 DEF PickNextItem, head
  <2>6. ~NoUrls(head)
    BY <1>2, <2>1, UrlIsKnown
  <2>7. TryTakeNext(B) = [s |-> P, next |-> head, replaced |-> TRUE,
                          justQueued |-> P.item[P.pl.cur].state = "IN_QUEUE"]
    BY <2>1, <2>5, <2>6 DEF TryTakeNext, P
  <2>8. T = PlayNextStream(P, None, P.pl.cur, "PLAYING", FALSE, FALSE).s
    BY <2>1, <2>2, <2>7 DEF TryPlayNextStream
  <2>9. LaunchedFrom(P, T)
    <3>1. \/ P.item[P.pl.cur].state = "IN_QUEUE" /\ P.pl.cur \in P.client.owed
          \/ P.item[P.pl.cur].state = "ABOUT_TO_ACTIVATE"
      BY <1>1, <2>1, <2>2
    <3>2. P.pl.nextReq = "NOT_REQUESTED"
      BY <1>1, <2>2
    <3>3. QED
      BY <2>2, <2>4, <2>8, <3>1, <3>2, LaunchOrStuck
  <2> HIDE DEF T
  <2>10. Waiting(T) = S.fifo.queue /\ T.client.told = S.client.told
    BY <1>1, <2>1, <2>2, <2>9, ZenonT(30) DEF LaunchedFrom, Waiting
  <2>11. Moves(S, T)
    BY <2>9, <2>10, MovesOn DEF LaunchedFrom
  <2>12. QED
    BY <2>9, <2>11 DEF LaunchedFrom, T, B
<1>7. CASE cur = None /\ IsEmpty(S.fifo)
  <2>1. PickNextItem(B).id = None
    BY <1>1, <1>7 DEF PickNextItem
  <2>2. TryTakeNextFailed(B) = [s |-> DoErrorRecovery(B), next |-> None, replaced |-> FALSE,
                                justQueued |-> FALSE]
    <3>1. [B EXCEPT !.fifo = PopDrop(@)].pl.cur = None
      BY <1>1, <1>7 DEF State
    <3>2. QED
      BY <1>1, <1>7, <3>1 DEF TryTakeNextFailed
  <2>3. T = DoErrorRecovery(B)
    BY <2>1, <2>2 DEF TryPlayNextStream, TryTakeNext
  <2>4. Stoppable(B)
    <3>1. \A n \in 1..Len(B.fifo.queue) : B.item[B.fifo.queue[n]].restart => n = 1
      BY <1>1, <1>2 DEF RestartOk, Size
    <3>2. QED
      BY <1>1, <1>2, <1>3, <3>1 DEF Stoppable
  <2>5. T \in State /\ Plain(T) /\ Moves(B, T)
    BY <1>1, <2>3, <2>4, DoErrorRecoveryPlain
  <2> HIDE DEF T
  <2>6. Moves(S, T)
    BY <1>1, <2>5, MovesFrom
  <2>7. QED
    BY <2>5, <2>6 DEF T, B
<1>8. QED
  BY <1>5, <1>6, <1>7

-----------------------------------------------------------------------------
(* Commands of the client *)

LEMMA StartFields ==
    ASSUME NEW S \in State, NEW n \in Nat
    PROVE  LET R == [S EXCEPT !.idle = n]
               U == [R EXCEPT !.ctl.status = "PLAYING"]
           IN  /\ R \in State /\ R.ctl = S.ctl /\ R.pl = S.pl /\ R.gst = S.gst /\ R.idle = n
               /\ U \in State /\ U.pl = S.pl /\ U.gst = S.gst /\ U.fifo = S.fifo
               /\ U.item = S.item /\ U.calls = S.calls /\ U.skip = S.skip
               /\ U.client = S.client /\ U.watcher = S.watcher /\ U.bug = S.bug
               /\ U.threads = S.threads /\ U.idle = n
               /\ U.ctl.activated = S.ctl.activated /\ U.ctl.status = "PLAYING"
               /\ Alike(S, U)
<1>1. "PLAYING" \in Statuses
  BY DEF Statuses
<1>2. QED
  BY <1>1 DEF State, CtlType, Alike

\* do_start() and do_restart_playing()
LEMMA DoStartPlain ==
    ASSUME PlainPlayback, NEW S \in State, Good(S), Plain(S), NEW n \in Nat,
           n = S.idle \/ S.idle > 0
    PROVE  LET T == DoStart([S EXCEPT !.idle = n])
           IN  T \in State /\ Plain(T) /\ Moves(S, T)
<1> DEFINE R == [S EXCEPT !.idle = n]
           U == [R EXCEPT !.ctl.status = "PLAYING"]
           T == DoStart(R)
           g == S.gst
           at == IF g.pending = "PAUSED" THEN "PAUSED" ELSE g.state
<1>1. /\ R \in State /\ R.ctl = S.ctl /\ R.pl = S.pl /\ R.gst = S.gst /\ R.idle = n
      /\ U \in State /\ U.pl = S.pl /\ U.gst = S.gst /\ U.fifo = S.fifo
      /\ U.item = S.item /\ U.calls = S.calls /\ U.skip = S.skip
      /\ U.client = S.client /\ U.watcher = S.watcher /\ U.bug = S.bug
      /\ U.threads = S.threads /\ U.idle = n
      /\ U.ctl.activated = S.ctl.activated /\ U.ctl.status = "PLAYING"
      /\ Alike(S, U)
  BY StartFields
<1>2. g \in GstType /\ GstOk(g) /\ AskedOk(S.ctl, S.pl.buf, S.pl.cur, S.idle, g)
  BY DEF Plain, Core, State
<1> DEFINE goes == IsBuffering(S.pl.buf) \/ g.pending = "PLAYING" \/ at = "PLAYING"
<1>3. /\ ~S.ctl.activated => T = Inactive(R)
      /\ S.ctl.activated /\ goes => T = U
      /\ S.ctl.activated /\ ~goes /\ at = "PAUSED" => T = SetStreamState(U, "PLAYING")
      /\ S.ctl.activated /\ ~goes /\ at # "PAUSED" =>
           T = TryPlayNextStream(RebuildPlaybinForWorkarounds(U), "PLAYING")
  <2> HIDE DEF R, U
  <2>1. T = CASE ~R.ctl.activated -> Inactive(R)
              [] R.ctl.activated /\ (IsBuffering(R.pl.buf) \/ R.gst.pending = "PLAYING"
                    \/ (IF R.gst.pending = "PAUSED" THEN "PAUSED" ELSE R.gst.state) = "PLAYING")
                    -> [R EXCEPT !.ctl.status = "PLAYING"]
              [] OTHER -> IF (IF R.gst.pending = "PAUSED" THEN "PAUSED" ELSE R.gst.state) = "PAUSED"
                          THEN SetStreamState([R EXCEPT !.ctl.status = "PLAYING"], "PLAYING")
                          ELSE TryPlayNextStream(RebuildPlaybinForWorkarounds(
                                   [R EXCEPT !.ctl.status = "PLAYING"]), "PLAYING")
    BY Zenon DEF DoStart
  <2>2. [R EXCEPT !.ctl.status = "PLAYING"] = U
    BY DEF U
  <2> HIDE DEF T
  <2>3. QED
    BY <1>1, <2>1, <2>2
<1> HIDE DEF R, U, T
<1>4. CASE ~S.ctl.activated
  <2>1. n = S.idle
    BY <1>2, <1>4 DEF AskedOk
  <2>2. R = S
    BY <2>1 DEF R, State
  <2>3. T = Bug(S, "INACTIVE")
    BY <1>3, <1>4, <2>2 DEF Inactive
  <2>4. "INACTIVE" \in BugNames /\ "INACTIVE" \notin Fatal
    BY DEF BugNames, Fatal
  <2>5. T \in State /\ Plain(T) /\ Alike(S, T)
    BY <2>3, <2>4, BugFields
  <2>6. QED
    BY <2>5, AlikeMoves DEF T, R
<1>5. CASE S.ctl.activated /\ goes
  <2>1. T = U
    BY <1>3, <1>5
  <2>2. IsBuffering(S.pl.buf) \/ g.target = "PLAYING"
    BY <1>2, <1>5 DEF GstOk, Loaded, Prerolling
  <2>3. AskedOk(U.ctl, U.pl.buf, U.pl.cur, U.idle, U.gst)
    BY <1>1, <1>5, <2>2 DEF AskedOk
  <2>4. Plain(U)
    BY <1>1, <2>3 DEF Plain, Core
  <2>5. QED
    BY <1>1, <2>1, <2>4, AlikeMoves DEF T, R
<1>6. CASE S.ctl.activated /\ ~goes /\ at = "PAUSED"
  <2>1. T = SetStreamState(U, "PLAYING")
    BY <1>3, <1>6
  <2>2. T = [U EXCEPT !.gst = GstSetState(@, "PLAYING")]
    BY <2>1 DEF SetStreamState
  <2> DEFINE h == GstSetState(g, "PLAYING")
  <2>3. Loaded(g)
    BY <1>2, <1>6 DEF Loaded, Prerolling, GstOk
  <2>4. h \in GstType /\ h.target = "PLAYING"
    BY <1>2, <2>3, SteerLoaded
  <2> HIDE DEF h
  <2>5. /\ T \in State /\ T.gst = h /\ T.pl = S.pl /\ T.fifo = S.fifo
        /\ T.item = S.item /\ T.calls = S.calls /\ T.skip = S.skip
        /\ T.client = S.client /\ T.watcher = S.watcher /\ T.bug = S.bug
        /\ T.threads = S.threads /\ T.ctl = U.ctl
    BY <1>1, <2>2, <2>4 DEF State, h
  <2>6. Alike(S, T)
    BY <2>5 DEF Alike
  <2>7. Active(g)
    BY <1>2, <2>3, LoadedIsActive
  <2>8. (LocalFiles => ~IsBuffering(S.pl.buf)) /\ (NoErrors => S.bug \cap Fatal = {})
    BY <2>7, ActiveFacts
  <2>9. Plain(T)
    BY <1>1, <1>6, <2>4, <2>5, <2>6, <2>7, <2>8, SteerPlain DEF h
  <2>10. QED
    BY <2>5, <2>6, <2>9, AlikeMoves DEF T, R
<1>7. CASE S.ctl.activated /\ ~goes /\ at # "PAUSED"
  <2>1. ~Loaded(g)
    BY <1>2, <1>7 DEF Loaded, Prerolling, GstOk, GstType
  <2>2. T = TryPlayNextStream(RebuildPlaybinForWorkarounds(U), "PLAYING")
    BY <1>3, <1>7
  <2>3. T \in State /\ Plain(T) /\ Moves(S, T)
    BY <1>1, <1>7, <2>1, <2>2, RestartPlain
  <2>4. QED
    BY <2>3 DEF T, R
<1>8. QED
  BY <1>4, <1>5, <1>6, <1>7

-----------------------------------------------------------------------------
(* The other commands *)

LEMMA NotActivePlain ==
    ASSUME NEW S \in State, Plain(S)
    PROVE  LET T == Inactive(S)
           IN  T \in State /\ Plain(T) /\ Moves(S, T)
<1>1. "INACTIVE" \in BugNames /\ "INACTIVE" \notin Fatal
  BY DEF BugNames, Fatal
<1>2. QED
  BY <1>1, BugFields, AlikeMoves DEF Inactive

\* Whoever has a URI in the pipeline is supposed to use it.
LEMMA UriIsActive ==
    ASSUME NEW S \in State, Plain(S), S.gst.uri # NoUri
    PROVE  Active(S.gst) /\ (Loaded(S.gst) \/ S.gst.state = "READY")
<1>1. GstOk(S.gst) /\ PhaseOk(S.pl.cur, S.pl.protected, S.fifo, S.item, S.gst, S.client.owed)
  BY DEF Plain, Core
<1>2. CASE Loaded(S.gst)
  BY <1>1, <1>2, LoadedIsActive
<1>3. CASE ~Loaded(S.gst)
  BY <1>1, <1>3 DEF PhaseOk, Unopened, Resting, Active
<1>4. QED
  BY <1>2, <1>3

LEMMA DoPausePlain ==
    ASSUME PlainPlayback, NEW S \in State, Plain(S)
    PROVE  LET T == DoPause(S)
           IN  T \in State /\ Plain(T) /\ Moves(S, T)
<1> DEFINE U == [S EXCEPT !.ctl.status = "PAUSED"]
           T == DoPause(S)
           g == S.gst
<1>1. /\ U \in State /\ U.pl = S.pl /\ U.gst = S.gst /\ U.fifo = S.fifo
      /\ U.item = S.item /\ U.calls = S.calls /\ U.skip = S.skip /\ U.idle = S.idle
      /\ U.client = S.client /\ U.watcher = S.watcher /\ U.bug = S.bug
      /\ U.threads = S.threads
      /\ U.ctl.activated = S.ctl.activated /\ U.ctl.status = "PAUSED"
  <2>1. "PAUSED" \in Statuses
    BY DEF Statuses
  <2>2. QED
    BY <2>1 DEF State, CtlType
<1> HIDE DEF U
<1>2. /\ ~S.ctl.activated => T = Inactive(S)
      /\ S.ctl.activated /\ g.uri = NoUri => T = S
      /\ S.ctl.activated /\ g.uri # NoUri =>
           /\ IsBuffering(S.pl.buf) \/ g.state = "PAUSED" => T = U
           /\ ~IsBuffering(S.pl.buf) /\ g.state \notin {"NULL", "PAUSED"} =>
                T = SetStreamState(U, "PAUSED")
  BY DEF DoPause, U
<1> HIDE DEF T
<1>3. CASE ~S.ctl.activated
  BY <1>2, <1>3, NotActivePlain DEF T
<1>4. CASE S.ctl.activated /\ g.uri = NoUri
  <2>1. T = S
    BY <1>2, <1>4
  <2>2. Alike(S, S)
    BY DEF Alike
  <2>3. QED
    BY <2>1, <2>2, AlikeMoves DEF T
<1>5. CASE S.ctl.activated /\ g.uri # NoUri
  <2>1. Active(g) /\ (Loaded(g) \/ g.state = "READY")
    BY <1>5, UriIsActive
  <2>2. (LocalFiles => ~IsBuffering(S.pl.buf)) /\ (NoErrors => S.bug \cap Fatal = {})
    BY <2>1, ActiveFacts
  <2>3. g \in GstType
    BY DEF State
  <2>4. CASE IsBuffering(S.pl.buf) \/ g.state = "PAUSED"
    <3>1. T = U
      BY <1>2, <1>5, <2>4
    <3>2. Alike(S, U)
      BY <1>1 DEF Alike
    <3>3. Plain(U)
      BY <1>1, <1>5, <2>1, <2>2, <3>2, SteerPlain
    <3>4. QED
      BY <1>1, <3>1, <3>2, <3>3, AlikeMoves DEF T
  <2>5. CASE ~(IsBuffering(S.pl.buf) \/ g.state = "PAUSED")
    <3>1. g.state # "NULL"
      BY <2>1 DEF Loaded, Prerolling
    <3>2. T = SetStreamState(U, "PAUSED")
      BY <1>2, <1>5, <2>5, <3>1
    <3>3. T = [U EXCEPT !.gst = GstSetState(@, "PAUSED")]
      BY <3>2 DEF SetStreamState
    <3> DEFINE h == GstSetState(g, "PAUSED")
    <3>4. h \in GstType
      BY <2>3, GstSetStateType DEF GstStates
    <3> HIDE DEF h
    <3>5. /\ T \in State /\ T.gst = h /\ T.pl = S.pl /\ T.fifo = S.fifo
          /\ T.item = S.item /\ T.calls = S.calls /\ T.skip = S.skip
          /\ T.client = S.client /\ T.watcher = S.watcher /\ T.bug = S.bug
          /\ T.threads = S.threads /\ T.ctl = U.ctl
      BY <1>1, <3>3, <3>4 DEF State, h
    <3>6. Alike(S, T)
      BY <3>5 DEF Alike
    <3>7. Plain(T)
      BY <1>1, <1>5, <2>1, <2>2, <3>5, <3>6, SteerPlain DEF h
    <3>8. QED
      BY <3>5, <3>6, <3>7, AlikeMoves DEF T
  <2>6. QED
    BY <2>4, <2>5
<1>6. QED
  BY <1>3, <1>4, <1>5

LEMMA DoSeekPlain ==
    ASSUME PlainPlayback, NEW S \in State, Plain(S)
    PROVE  LET T == DoSeek(S)
           IN  T \in State /\ Plain(T) /\ Moves(S, T)
<1> DEFINE T == DoSeek(S)
<1>1. CASE ~S.ctl.activated
  <2>1. T = Inactive(S)
    BY <1>1 DEF DoSeek
  <2>2. QED
    BY <2>1, NotActivePlain
<1>2. CASE S.ctl.activated /\ S.gst.state \in {"PAUSED", "PLAYING"}
  <2>1. T = DoEncourageBuffering(S)
    BY <1>2 DEF DoSeek
  <2>2. Loaded(S.gst) /\ GstOk(S.gst)
    BY <1>2 DEF Loaded, Plain, Core
  <2>3. Active(S.gst)
    BY <2>2, LoadedIsActive
  <2>4. Steered(S, T) /\ T \in State
    BY <2>1, <2>3, DoEncourageBufferingPlain
  <2> HIDE DEF T
  <2>5. Plain(T) /\ Alike(S, T)
    BY <2>4 DEF Steered
  <2>6. QED
    BY <2>4, <2>5, AlikeMoves DEF T
<1>3. CASE S.ctl.activated /\ S.gst.state \notin {"PAUSED", "PLAYING"}
  <2>1. T = S
    BY <1>3 DEF DoSeek
  <2>2. Alike(S, S)
    BY DEF Alike
  <2>3. QED
    BY <2>1, <2>2, AlikeMoves
<1>4. QED
  BY <1>1, <1>2, <1>3

LEMMA DoActivatePlain ==
    ASSUME NEW S \in State, Plain(S)
    PROVE  LET T == DoActivate(S)
           IN  T \in State /\ Plain(T) /\ Moves(S, T)
<1> DEFINE T == DoActivate(S)
<1>1. CASE S.ctl.activated
  <2>1. T = Bug(S, "ALREADY_ACTIVATED")
    BY <1>1 DEF DoActivate
  <2>2. "ALREADY_ACTIVATED" \in BugNames /\ "ALREADY_ACTIVATED" \notin Fatal
    BY DEF BugNames, Fatal
  <2>3. T \in State /\ Plain(T) /\ Alike(S, T)
    BY <2>1, <2>2, BugFields
  <2>4. QED
    BY <2>3, AlikeMoves
<1>2. CASE ~S.ctl.activated
  <2>1. T = [S EXCEPT !.ctl.activated = TRUE]
    BY <1>2 DEF DoActivate
  <2> HIDE DEF T
  <2>2. /\ T \in State /\ T.gst = S.gst /\ T.pl = S.pl /\ T.fifo = S.fifo
        /\ T.item = S.item /\ T.calls = S.calls /\ T.skip = S.skip
        /\ T.client = S.client /\ T.watcher = S.watcher /\ T.bug = S.bug /\ T.idle = S.idle
        /\ T.threads = S.threads /\ T.ctl.activated /\ T.ctl.status = S.ctl.status
    BY <2>1 DEF State, CtlType
  <2>3. Alike(S, T)
    BY <2>2 DEF Alike
  <2>4. AskedOk(T.ctl, T.pl.buf, T.pl.cur, T.idle, T.gst)
    BY <2>2 DEF Plain, AskedOk
  <2>5. Plain(T)
    BY <2>2, <2>4 DEF Plain, Core
  <2>6. QED
    BY <2>2, <2>3, <2>5, AlikeMoves DEF T
<1>3. QED
  BY <1>1, <1>2

LEMMA ReportProgressPlain ==
    ASSUME NEW S \in State, Plain(S), S.pl.cur = None
    PROVE  LET T == [S EXCEPT !.watcher = "NONE"]
           IN  T \in State /\ Plain(T) /\ Moves(S, T)
<1> DEFINE T == [S EXCEPT !.watcher = "NONE"]
<1>1. /\ T \in State /\ T.watcher = "NONE"
      /\ T.ctl = S.ctl /\ T.pl = S.pl /\ T.fifo = S.fifo /\ T.item = S.item
      /\ T.gst = S.gst /\ T.calls = S.calls /\ T.idle = S.idle /\ T.skip = S.skip
      /\ T.client = S.client
      /\ Core(S) => Core(T)
  BY WatcherFields
<1> HIDE DEF T
<1>2. ~Loaded(S.gst)
  BY DEF Plain, Core, PhaseOk
<1>3. WatchedOk(T.watcher, T.gst)
  BY <1>1, <1>2 DEF WatchedOk, Loaded
<1>4. Plain(T)
  BY <1>1, <1>3 DEF Plain
<1>5. Alike(S, T)
  BY <1>1 DEF Alike
<1>6. QED
  BY <1>1, <1>4, <1>5, AlikeMoves DEF T

-----------------------------------------------------------------------------
(* Method Push *)

\* The client is told about nothing if there is nothing to tell.
LEMMA TellNothing ==
    ASSUME NEW S \in State, S.fifo.removed = <<>>, S.fifo.dropped = {}
    PROVE  Tell(S, {}) = S
<1>1. DroppedIds(S.fifo) = {}
  BY DEF DroppedIds, Elems
<1>2. TakeDropped(S.fifo) = S.fifo
  BY FifoTypes DEF TakeDropped, FifoType
<1>3. S.client.owed \ ({} \cup {}) = S.client.owed
  OBVIOUS
<1>4. QED
  BY <1>1, <1>2, <1>3, ZenonT(30) DEF Tell, State, ClientType

LEMMA AppendToList ==
    ASSUME NEW q \in Seq(Streams), NEW c \in Streams, NEW i \in Streams
    PROVE  /\ <<c>> \o Append(q, i) = Append(<<c>> \o q, i)
           /\ <<>> \o Append(q, i) = Append(<<>> \o q, i)
  OBVIOUS

LEMMA HeadAfterAppend ==
    ASSUME NEW S \in State, NEW i \in Streams, NEW p, p = Append(S.fifo.queue, i),
           NEW f, f.queue = p, S.item[i].state = "IN_QUEUE"
    PROVE  /\ ~IsEmpty(f)
           /\ ~IsEmpty(S.fifo) => Peek(f) = Peek(S.fifo)
           /\ HeadIs(S.fifo, S.item, "IN_QUEUE") => HeadIs(f, S.item, "IN_QUEUE")
<1>1. S.fifo.queue \in Seq(Streams)
  BY FifoTypes
<1>2. S.fifo.queue # <<>> => p[1] = S.fifo.queue[1] /\ p # <<>>
  BY <1>1
<1>3. S.fifo.queue = <<>> => p[1] = i /\ p # <<>>
  BY <1>1
<1>4. QED
  BY <1>2, <1>3 DEF IsEmpty, Peek, HeadIs

Accepts(S, T, i) ==
    /\ T.client.told = S.client.told
    /\ i \in Streams \ S.client.owed
    /\ Waiting(T) = Append(Waiting(S), i)

LEMMA AppendedPlain ==
    ASSUME PlainPlayback, NEW S \in State, Good(S), Plain(S), NEW i \in Streams,
           i \notin Alive(S), i \notin S.client.owed, S.item[i] = NewItem,
           Size(S.fifo) < MaxItems
    PROVE  LET A == Appended(S, i)
           IN  /\ A \in State /\ Good(A) /\ Plain(A) /\ A.pl = S.pl /\ A.gst = S.gst
               /\ A.item = S.item /\ A.fifo.removed = <<>> /\ A.fifo.dropped = {}
               /\ Waiting(A) = Append(Waiting(S), i) /\ A.client.told = S.client.told
<1> DEFINE A == Appended(S, i)
           q == S.fifo.queue
           p == Append(q, i)
           cur == S.pl.cur
<1>1. /\ ItemsPlain(S.item) /\ QueuePlain(cur, S.fifo, S.client.owed)
      /\ S.calls = {} /\ ~S.skip /\ RestartOk(cur, S.fifo, S.item, S.gst)
      /\ PhaseOk(cur, S.pl.protected, S.fifo, S.item, S.gst, S.client.owed)
      /\ BoostOk(cur, S.item, S.pl.buf, S.gst, S.threads)
      /\ CleanOk(S.gst, S.bug)
  BY DEF Plain, Core
<1>2. DroppedIds(S.fifo) = {} /\ S.fifo.removed = <<>> /\ S.fifo.dropped = {}
  BY <1>1 DEF QueuePlain, DroppedIds, Elems
<1>3. A \in State /\ Good(A)
  BY <1>1, <1>2, AppendItem
<1>4. /\ q \in Seq(Streams) /\ S.fifo \in FifoType(Streams) /\ i # cur /\ i \notin Elems(q)
      /\ cur \in Streams \cup {None}
  BY FifoTypes, StreamsAssumption DEF Alive, None
<1>5. /\ p \in Seq(Streams) /\ Len(p) = Len(q) + 1 /\ Len(q) \in Nat /\ p[Len(q) + 1] = i
      /\ \A n \in 1..Len(q) : p[n] = q[n]
  BY <1>4
<1>6. Elems(p) = Elems(q) \cup {i}
  BY <1>4, ElemsAppend
<1>7. /\ A.ctl = S.ctl /\ A.pl = S.pl /\ A.watcher = S.watcher /\ A.item = S.item
      /\ A.gst = S.gst /\ A.calls = S.calls /\ A.idle = S.idle /\ A.skip = S.skip
      /\ A.threads = S.threads /\ A.bug = S.bug
      /\ A.fifo.queue = p /\ A.fifo.removed = <<>> /\ A.fifo.dropped = {}
      /\ A.client.owed = S.client.owed \cup {i} /\ A.client.told = S.client.told
  <2> HIDE DEF p
  <2>1. A = [S EXCEPT !.fifo.queue = p, !.client.owed = @ \cup {i}]
    BY DEF Appended, p
  <2> HIDE DEF A
  <2>2. QED
    BY <1>2, <1>4, <1>5, <2>1 DEF State, FifoType, ClientType
<1> HIDE DEF A, p
<1>8. S.item[i].state = "IN_QUEUE" /\ ~S.item[i].restart
  BY DEF NewItem
<1>9. /\ ~IsEmpty(A.fifo)
      /\ ~IsEmpty(S.fifo) => Peek(A.fifo) = Peek(S.fifo)
      /\ HeadIs(S.fifo, S.item, "IN_QUEUE") => HeadIs(A.fifo, S.item, "IN_QUEUE")
  BY <1>7, <1>8, HeadAfterAppend DEF p
<1>10. QueuePlain(cur, A.fifo, A.client.owed)
  <2>1. Size(A.fifo) <= MaxItems
    BY <1>5, <1>7, MaxItemsAssumption DEF Size, q
  <2>2. A.client.owed \subseteq Elems(p) \cup {cur}
    BY <1>1, <1>6, <1>7 DEF QueuePlain
  <2>3. QED
    BY <1>7, <2>1, <2>2 DEF QueuePlain
<1>11. RestartOk(cur, A.fifo, A.item, A.gst)
  <2>1. SUFFICES ASSUME NEW n \in 1..Len(p), S.item[p[n]].restart
                 PROVE  n = 1 /\ cur = None /\ ~Loaded(S.gst)
    BY <1>7 DEF RestartOk, Size
  <2>2. n \in 1..Len(q) /\ p[n] = q[n]
    BY <1>5, <1>8, <2>1
  <2>3. QED
    BY <1>1, <2>1, <2>2 DEF RestartOk, Size
<1>12. PhaseOk(cur, S.pl.protected, A.fifo, S.item, S.gst, A.client.owed)
  <2>1. CASE Loaded(S.gst)
    <3>1. CASE First(cur, S.fifo, S.item, S.gst, S.client.owed)
      <4>1. First(cur, A.fifo, S.item, S.gst, A.client.owed)
        BY <1>7, <1>9, <3>1 DEF First
      <4>2. QED
        BY <1>1, <2>1, <4>1 DEF PhaseOk
    <3>2. CASE Steady(cur, S.fifo, S.item, S.gst, S.client.owed)
      <4>1. Steady(cur, A.fifo, S.item, S.gst, A.client.owed)
        BY <1>4, <1>7, <1>9, <3>2 DEF Steady, HeadIs
      <4>2. QED
        BY <1>1, <2>1, <4>1 DEF PhaseOk
    <3>3. CASE Ahead(cur, S.fifo, S.item, S.gst, S.client.owed)
      <4>1. Ahead(cur, A.fifo, S.item, S.gst, A.client.owed)
        BY <1>4, <1>7, <1>9, <3>3 DEF Ahead, HeadIs
      <4>2. QED
        BY <1>1, <2>1, <4>1 DEF PhaseOk
    <3>4. QED
      BY <1>1, <2>1, <3>1, <3>2, <3>3 DEF PhaseOk
  <2>2. CASE ~Loaded(S.gst)
    <3>1. CASE Unopened(cur, S.fifo, S.item, S.gst)
      BY <1>9, <2>2, <3>1 DEF PhaseOk, Unopened
    <3>2. CASE Resting(cur, S.pl.protected, S.fifo, S.item, S.gst, S.client.owed)
      BY <1>7, <1>9, <2>2, <3>2 DEF PhaseOk, Resting
    <3>3. QED
      BY <1>1, <2>2, <3>1, <3>2 DEF PhaseOk
  <2>3. QED
    BY <2>1, <2>2
<1>13. Core(A)
  BY <1>1, <1>7, <1>10, <1>11, <1>12 DEF Core, Plain
<1>14. Plain(A)
  BY <1>7, <1>13 DEF Plain
<1>15. Waiting(A) = Append(Waiting(S), i)
  <2>1. CASE cur \in S.client.owed
    <3>1. cur \in A.client.owed /\ cur \in Streams
      BY <1>7, <2>1 DEF State, ClientType
    <3>2. Waiting(A) = <<cur>> \o p /\ Waiting(S) = <<cur>> \o q
      BY <1>7, <2>1, <3>1 DEF Waiting
    <3>3. QED
      BY <1>4, <3>1, <3>2, AppendToList DEF p
  <2>2. CASE cur \notin S.client.owed
    <3>1. cur \notin A.client.owed
      BY <1>4, <1>7, <2>2
    <3>2. Waiting(A) = <<>> \o p /\ Waiting(S) = <<>> \o q
      BY <1>7, <2>2, <3>1 DEF Waiting
    <3>3. QED
      BY <1>4, <3>2, AppendToList DEF p
  <2>3. QED
    BY <2>1, <2>2
<1>16. QED
  BY <1>3, <1>7, <1>14, <1>15 DEF A

LEMMA DoPushPlain ==
    ASSUME PlainPlayback, NEW S \in State, Good(S), Plain(S), NEW i \in Streams,
           i \notin Alive(S), i \notin S.client.owed, S.item[i] = NewItem,
           NEW keep \in KeepArgs
    PROVE  LET T == [DoPush(S, i, keep) EXCEPT !.skip = (keep = -2)]
           IN  T \in State /\ Plain(T) /\ (Moves(S, T) \/ Accepts(S, T, i))
<1> DEFINE D == DoPush(S, i, keep)
           T == [D EXCEPT !.skip = (keep = -2)]
           A == Appended(S, i)
           Q == QueueStreamFromUrlFifo(A)
           wanted == /\ S.pl.nextReq = "REQUESTED"
                     /\ S.pl.cur # None /\ S.item[S.pl.cur].state = "ABOUT_TO_PHASE_OUT"
           full == PushRejected(S.fifo, KeepAll)
<1>1. keep \in Int /\ keep < 0 /\ keep # -2
  BY ArgsAssumption DEF PlainPlayback
<1>2. QueuePlain(S.pl.cur, S.fifo, S.client.owed)
  BY DEF Plain, Core
<1>3. Tell(S, {}) = S
  BY <1>2, TellNothing DEF QueuePlain
<1>4. S.fifo \in FifoType(Streams) /\ S.fifo.queue \in Seq(Streams) /\ Size(S.fifo) \in Nat
  BY FifoTypes DEF Size
<1>5. ClearCount(S.fifo, KeepAll) = 0
  BY <1>2, <1>4, MaxItemsAssumption DEF ClearCount, KeepAll, QueuePlain
<1>6. full <=> ~(Size(S.fifo) < MaxItems)
  BY <1>4, <1>5, MaxItemsAssumption DEF PushRejected, Full
<1>7. ~full => [S EXCEPT !.fifo = Push(@, i, KeepAll), !.client.owed = @ \cup {i}] = A
  <2>1. Clear(S.fifo, KeepAll) = S.fifo
    BY <1>5 DEF Clear
  <2>2. QED
    BY <2>1 DEF Push, Appended, State
<1>8. /\ ~S.ctl.activated => D = Inactive(S)
      /\ S.ctl.activated /\ full => D = S
      /\ S.ctl.activated /\ ~full => D = Tell(IF wanted THEN Q ELSE A, {})
  <2> DEFINE told == Tell(S, {})
             n == CASE keep = -2 -> 0 [] keep < 0 /\ keep # -2 -> KeepAll [] OTHER -> keep
             pushed == [told EXCEPT !.fifo = Push(@, i, n), !.client.owed = @ \cup {i}]
  <2>1. n = KeepAll
    BY <1>1
  <2>2. D = CASE ~S.ctl.activated -> Inactive(S)
              [] S.ctl.activated /\ PushRejected(told.fifo, n) -> told
              [] OTHER -> Tell(IF wanted THEN QueueStreamFromUrlFifo(pushed) ELSE pushed, {})
    BY Zenon DEF DoPush
  <2> HIDE DEF n, wanted
  <2>3. pushed = [S EXCEPT !.fifo = Push(@, i, KeepAll), !.client.owed = @ \cup {i}]
    BY <1>3, <2>1
  <2> HIDE DEF pushed, D, A
  <2>4. QED
    BY <1>3, <1>7, <2>1, <2>2, <2>3
<1> HIDE DEF D, A, Q, wanted, full
<1>9. ASSUME D \in State, Plain(D) PROVE T = D
  BY <1>1, <1>9 DEF Plain, Core, State
<1>10. CASE ~S.ctl.activated
  <2>1. D \in State /\ Plain(D) /\ Moves(S, D)
    BY <1>8, <1>10, NotActivePlain
  <2>2. QED
    BY <1>9, <2>1 DEF D
<1>11. CASE S.ctl.activated /\ full
  <2>1. D = S
    BY <1>8, <1>11
  <2>2. Alike(S, S)
    BY DEF Alike
  <2>3. Moves(S, D)
    BY <2>1, <2>2, AlikeMoves
  <2>4. QED
    BY <1>9, <2>1, <2>3 DEF D
<1>12. CASE S.ctl.activated /\ ~full
  <2>1. /\ A \in State /\ Good(A) /\ Plain(A) /\ A.pl = S.pl /\ A.gst = S.gst
        /\ A.item = S.item /\ A.fifo.removed = <<>> /\ A.fifo.dropped = {}
        /\ Waiting(A) = Append(Waiting(S), i) /\ A.client.told = S.client.told
    BY <1>6, <1>12, AppendedPlain DEF A
  <2>2. CASE ~wanted
    <3>1. D = A
      BY <1>8, <1>12, <2>1, <2>2, TellNothing
    <3>2. Accepts(S, A, i)
      BY <2>1 DEF Accepts
    <3>3. QED
      BY <1>9, <2>1, <3>1, <3>2 DEF D
  <2>3. CASE wanted
    <3>1. Loaded(S.gst)
      BY <2>3 DEF wanted, Plain, Core, PhaseOk, Unopened, Resting, Awaited
    <3>2. ChosenNext(A, Q)
      BY <2>1, <2>3, <3>1, QueueStreamPlain DEF wanted, Good, Q
    <3>3. /\ Q \in State /\ Plain(Q) /\ Q.pl.cur = A.pl.cur /\ Q.fifo = A.fifo
          /\ Q.client = A.client
      BY <3>2 DEF ChosenNext
    <3>4. D = Q
      BY <1>8, <1>12, <2>1, <2>3, <3>3, TellNothing
    <3>5. Waiting(Q) = Waiting(A)
      BY <3>3 DEF Waiting
    <3>6. Accepts(S, Q, i)
      BY <2>1, <3>3, <3>5 DEF Accepts
    <3>7. QED
      BY <1>9, <3>3, <3>4, <3>6 DEF D
  <2>4. QED
    BY <2>2, <2>3
<1>13. QED
  BY <1>10, <1>11, <1>12

-----------------------------------------------------------------------------
(* The pipeline's own steps *)

LEMMA PipelinePlain ==
    ASSUME NEW S \in State, Plain(S), Loaded(S.gst), NEW h \in GstType,
           Loaded(h), GstOk(h), BusOk(h), h.target = S.gst.target,
           PhaseOk(S.pl.cur, S.pl.protected, S.fifo, S.item, h, S.client.owed),
           WatchedOk(S.watcher, h),
           \A kind : kind \notin {"STATE_CHANGED", "STREAM_START", "EOS"} =>
               (OnBus(h, kind) => OnBus(S.gst, kind))
    PROVE  LET T == [S EXCEPT !.gst = h]
           IN  T \in State /\ Plain(T) /\ Moves(S, T) /\ T.gst = h /\ T.item = S.item
<1> DEFINE T == [S EXCEPT !.gst = h]
<1>1. /\ T \in State /\ T.gst = h /\ T.ctl = S.ctl /\ T.pl = S.pl /\ T.fifo = S.fifo
      /\ T.item = S.item /\ T.calls = S.calls /\ T.skip = S.skip /\ T.idle = S.idle
      /\ T.client = S.client /\ T.watcher = S.watcher /\ T.bug = S.bug
      /\ T.threads = S.threads
  BY DEF State
<1> HIDE DEF T
<1>2. Active(S.gst)
  BY LoadedIsActive DEF Plain, Core
<1>3. Alike(S, T)
  BY <1>1 DEF Alike
<1>4. AskedOk(T.ctl, T.pl.buf, T.pl.cur, T.idle, T.gst)
  BY <1>1, <1>2 DEF Plain, AskedOk, Active
<1>5. BoostOk(T.pl.cur, T.item, T.pl.buf, T.gst, T.threads)
  BY <1>1 DEF Plain, Core, BoostOk
<1>6. CleanOk(T.gst, T.bug)
  BY <1>1 DEF Plain, Core, CleanOk
<1>7. RestartOk(S.pl.cur, S.fifo, S.item, T.gst)
  BY <1>1 DEF Plain, Core, RestartOk
<1>8. Plain(T)
  BY <1>1, <1>3, <1>4, <1>5, <1>6, <1>7, AlikePlain
<1>9. QED
  BY <1>1, <1>3, <1>8, AlikeMoves DEF T

LEMMA SamePhase ==
    ASSUME NEW g, NEW h, NEW cur, NEW protected, NEW f, NEW it, NEW o,
           Loaded(g), Loaded(h), PhaseOk(cur, protected, f, it, g, o),
           h.uri = g.uri, h.curUri = g.curUri, h.heard = g.heard,
           OnBus(h, "STREAM_START") <=> OnBus(g, "STREAM_START")
    PROVE  PhaseOk(cur, protected, f, it, h, o)
  BY DEF PhaseOk, First, Steady, Ahead

LEMMA CommitPlain ==
    ASSUME NEW S \in State, Plain(S), CanCommit(S.gst)
    PROVE  LET T == [S EXCEPT !.gst = Commit(@)]
           IN  /\ T \in State /\ Plain(T) /\ Moves(S, T)
               /\ Loaded(T.gst) /\ (Prerolling(S.gst) => ~OnBus(T.gst, "EOS"))
<1> DEFINE g == S.gst
           to == IF g.state = "PAUSED" THEN "PLAYING" ELSE "PAUSED"
           left == IF g.pending = to THEN "VOID" ELSE g.pending
           k == [g EXCEPT !.state = to, !.pending = left]
           m == StateChanged(g.state, to, left)
           h == Post(k, m)
<1>1. Commit(g) = h
  BY DEF Commit
<1>2. g \in GstType /\ GstOk(g) /\ BusOk(g) /\ WatchedOk(S.watcher, g)
  BY DEF Plain, Core, State
<1>3. /\ to \in {"PAUSED", "PLAYING"} /\ left \in GstStates /\ g.state \in GstStates
      /\ to = "PAUSED" => g.state \in {"READY", "PLAYING"}
      /\ to = "PLAYING" => g.state = "PAUSED"
  BY <1>2 DEF CanCommit, Prerolling, GstType, GstStates
<1>4. Loaded(g) /\ g.pending \in {"PAUSED", "PLAYING"} /\ g.target = g.pending
  BY <1>2 DEF CanCommit, Loaded, Prerolling, GstOk
<1>5. left = (IF g.pending = to THEN "VOID" ELSE g.pending)
  OBVIOUS
<1>6. m \in Messages /\ m[1] = "STATE_CHANGED" /\ m[2] = g.state /\ m[3] = to /\ m[4] = left
  <2>1. to \in GstStates
    BY <1>3 DEF GstStates
  <2> HIDE DEF to, left
  <2>2. m \in Messages
    BY <1>3, <2>1 DEF Messages
  <2>3. QED
    BY <2>2 DEF StateChanged
<1> HIDE DEF to, left, m
<1>7. /\ k \in GstType /\ k.state = to /\ k.pending = left /\ k.target = g.target
      /\ k.uri = g.uri /\ k.curUri = g.curUri /\ k.heard = g.heard /\ k.asked = g.asked
      /\ k.taken = g.taken /\ k.drained = g.drained /\ k.bus = g.bus
  BY <1>2, <1>3 DEF GstType, GstStates
<1> HIDE DEF k
<1>8. Loaded(k)
  BY <1>3, <1>7 DEF Loaded
<1>9. /\ h \in GstType /\ Loaded(h)
      /\ h.state = to /\ h.pending = left /\ h.target = g.target
      /\ h.uri = g.uri /\ h.curUri = g.curUri /\ h.heard = g.heard
      /\ h.asked = g.asked /\ h.taken = g.taken /\ h.drained = g.drained
      /\ Len(g.bus) \in Nat /\ Len(h.bus) = Len(g.bus) + 1
      /\ h.bus[Len(g.bus) + 1] = m
      /\ \A n \in 1..Len(g.bus) : h.bus[n] = g.bus[n]
      /\ \A kind : OnBus(h, kind) <=> OnBus(k, kind) \/ m[1] = kind
  BY <1>6, <1>7, <1>8, PostFields, SMTT(30)
<1>10. \A kind : OnBus(k, kind) <=> OnBus(g, kind)
  BY <1>7 DEF OnBus
<1>11. GstOk(h)
  BY <1>2, <1>3, <1>4, <1>5, <1>9 DEF GstOk
<1>12. BusOk(h)
  <2>1. BusOk(k)
    BY <1>2, <1>4, <1>7, <1>8, SameBus
  <2>2. OnBus(k, "EOS") => g.drained
    BY <1>2, <1>10 DEF BusOk, OnBus
  <2>3. OnBus(k, "EOS") => g.state \notin {"READY", "NULL"}
    BY <1>2, <1>3, <1>4, <2>2 DEF GstOk
  <2>4. OnBus(k, "EOS") => Late(m)
    BY <1>6, <2>3 DEF Late
  <2>5. QED
    BY <1>6, <1>7, <1>8, <2>1, <2>4, PostBus
<1> HIDE DEF h
<1>13. PhaseOk(S.pl.cur, S.pl.protected, S.fifo, S.item, h, S.client.owed)
  <2>1. OnBus(h, "STREAM_START") <=> OnBus(g, "STREAM_START")
    BY <1>6, <1>9, <1>10
  <2>2. PhaseOk(S.pl.cur, S.pl.protected, S.fifo, S.item, g, S.client.owed)
    BY DEF Plain, Core
  <2>3. QED
    BY <1>4, <1>9, <2>1, <2>2, SamePhase
<1>14. WatchedOk(S.watcher, h)
  <2>1. ~Downward(m)
    BY <1>3, <1>6 DEF Downward
  <2>2. \A n \in 1..Len(h.bus) : n \in 1..Len(g.bus) \/ n = Len(g.bus) + 1
    BY <1>9
  <2>3. \A i, n \in 1..Len(h.bus) : Downward(h.bus[i]) /\ ArrivalInPlaying(h.bus[n]) => i < n
    <3>1. SUFFICES ASSUME NEW i \in 1..Len(h.bus), NEW n \in 1..Len(h.bus),
                          Downward(h.bus[i]), ArrivalInPlaying(h.bus[n])
                   PROVE  i < n
      OBVIOUS
    <3>2. i \in 1..Len(g.bus) /\ h.bus[i] = g.bus[i]
      BY <1>9, <2>1, <2>2, <3>1
    <3>3. CASE n \in 1..Len(g.bus)
      <4>1. h.bus[n] = g.bus[n]
        BY <1>9, <3>3
      <4>2. QED
        BY <1>2, <1>4, <3>1, <3>2, <3>3, <4>1 DEF WatchedOk
    <3>4. CASE n = Len(g.bus) + 1
      BY <1>9, <3>2, <3>4
    <3>5. QED
      BY <2>2, <3>3, <3>4
  <2>4. h.state = "PLAYING" /\ h.pending = "VOID" =>
          \E n \in 1..Len(h.bus) : ArrivalInPlaying(h.bus[n])
    <3>1. SUFFICES ASSUME to = "PLAYING", left = "VOID"
                   PROVE  \E n \in 1..Len(h.bus) : ArrivalInPlaying(h.bus[n])
      BY <1>9
    <3>2. ArrivalInPlaying(m) /\ Len(g.bus) + 1 \in 1..Len(h.bus)
      BY <1>6, <1>9, <3>1 DEF ArrivalInPlaying
    <3>3. QED
      BY <1>9, <3>2
  <2>5. QED
    BY <1>2, <2>3, <2>4 DEF WatchedOk
<1>15. \A kind : kind \notin {"STATE_CHANGED", "STREAM_START", "EOS"} =>
           (OnBus(h, kind) => OnBus(g, kind))
  BY <1>6, <1>9, <1>10
<1> DEFINE T == [S EXCEPT !.gst = h]
<1>16. T \in State /\ Plain(T) /\ Moves(S, T) /\ T.gst = h
  BY <1>4, <1>9, <1>11, <1>12, <1>13, <1>14, <1>15, PipelinePlain
<1>17. Prerolling(g) => ~OnBus(h, "EOS")
  <2>1. OnBus(g, "EOS") => g.drained
    BY <1>2 DEF BusOk, OnBus
  <2>2. Prerolling(g) => ~g.drained
    BY <1>2, <1>4 DEF GstOk, Prerolling
  <2>3. QED
    BY <1>6, <1>9, <1>10, <2>1, <2>2
<1>18. QED
  BY <1>1, <1>9, <1>16, <1>17

LEMMA PrefetchPlain ==
    ASSUME NEW S \in State, Plain(S), CanPrefetch(S.gst)
    PROVE  LET T == [S EXCEPT !.gst = Prefetch(@)]
           IN  T \in State /\ Plain(T) /\ Moves(S, T)
<1> DEFINE g == S.gst
           h == Prefetch(g)
           cur == S.pl.cur
<1>1. /\ g \in GstType /\ GstOk(g) /\ BusOk(g) /\ WatchedOk(S.watcher, g)
      /\ PhaseOk(cur, S.pl.protected, S.fifo, S.item, g, S.client.owed)
  BY DEF Plain, Core, State
<1>2. /\ h \in GstType /\ h.state = g.state /\ h.pending = g.pending /\ h.target = g.target
      /\ h.uri = g.uri /\ h.curUri = g.uri /\ h.heard = g.heard
      /\ h.drained = g.drained /\ h.bus = g.bus
  BY <1>1 DEF Prefetch, GstType
<1> HIDE DEF h
<1>3. Loaded(g) /\ Loaded(h)
  BY <1>2 DEF CanPrefetch, Loaded, Prerolling
<1>4. Steady(cur, S.fifo, S.item, g, S.client.owed) /\ cur # None
  BY <1>1, <1>3 DEF CanPrefetch, PhaseOk, First, Ahead
<1>5. \A kind : OnBus(h, kind) <=> OnBus(g, kind)
  BY <1>2 DEF OnBus
<1>6. ~OnBus(g, "STREAM_START") /\ ~OnBus(g, "EOS")
  BY <1>1, <1>4 DEF Steady, BusOk, OnBus, CanPrefetch
<1>7. GstOk(h)
  BY <1>1, <1>2, <1>3 DEF GstOk, CanPrefetch
<1>8. BusOk(h)
  BY <1>1, <1>2, <1>3, <1>6 DEF BusOk, OnBus
<1>9. PhaseOk(cur, S.pl.protected, S.fifo, S.item, h, S.client.owed)
  <2>1. ~IsEmpty(S.fifo) /\ g.uri = UriOf(Peek(S.fifo)) /\ HeadIs(S.fifo, S.item, "ABOUT_TO_ACTIVATE")
    BY <1>4 DEF Steady, CanPrefetch
  <2>2. Ahead(cur, S.fifo, S.item, h, S.client.owed)
    BY <1>2, <1>4, <1>5, <1>6, <2>1 DEF Ahead, Steady
  <2>3. QED
    BY <1>3, <1>4, <2>2 DEF PhaseOk
<1>10. WatchedOk(S.watcher, h)
  BY <1>1, <1>2, <1>3 DEF WatchedOk
<1>11. QED
  BY <1>1, <1>2, <1>3, <1>5, <1>7, <1>8, <1>9, <1>10, PipelinePlain DEF h

\* A message which is no state change does not keep the timer from being started.
LEMMA PostWatched ==
    ASSUME NEW g \in GstType, NEW m \in Messages, NEW w, WatchedOk(w, g), m[1] # "STATE_CHANGED"
    PROVE  WatchedOk(w, Post(g, m))
<1> DEFINE h == Post(g, m)
<1>1. /\ (Loaded(h) <=> Loaded(g)) /\ h.state = g.state /\ h.pending = g.pending
      /\ Len(g.bus) \in Nat /\ Len(h.bus) = Len(g.bus) + 1
      /\ h.bus[Len(g.bus) + 1] = m
      /\ \A n \in 1..Len(g.bus) : h.bus[n] = g.bus[n]
  BY PostFields
<1> HIDE DEF h
<1>2. ~Downward(m) /\ ~ArrivalInPlaying(m)
  BY DEF Downward, ArrivalInPlaying
<1>3. /\ \A n \in 1..Len(h.bus) : n \in 1..Len(g.bus) \/ n = Len(g.bus) + 1
      /\ \A n \in 1..Len(g.bus) : n \in 1..Len(h.bus)
  BY <1>1
<1>4. /\ \A n \in 1..Len(h.bus) : Downward(h.bus[n]) => n \in 1..Len(g.bus) /\ Downward(g.bus[n])
      /\ \A n \in 1..Len(h.bus) : ArrivalInPlaying(h.bus[n]) =>
             n \in 1..Len(g.bus) /\ ArrivalInPlaying(g.bus[n])
      /\ \A n \in 1..Len(g.bus) : n \in 1..Len(h.bus) /\ h.bus[n] = g.bus[n]
  BY <1>1, <1>2, <1>3
<1>5. Loaded(h) => \A i, n \in 1..Len(h.bus) :
                       Downward(h.bus[i]) /\ ArrivalInPlaying(h.bus[n]) => i < n
  BY <1>1, <1>4 DEF WatchedOk
<1>6. h.state = "PLAYING" /\ h.pending = "VOID" =>
         \/ w = "RUNNING" /\ \A n \in 1..Len(h.bus) : ~Downward(h.bus[n])
         \/ \E n \in 1..Len(h.bus) : ArrivalInPlaying(h.bus[n])
  BY <1>1, <1>4 DEF WatchedOk
<1>7. WatchedOk(w, h)
  BY <1>5, <1>6 DEF WatchedOk
<1>8. QED
  BY <1>7 DEF h

LEMMA StartStreamPlain ==
    ASSUME NEW S \in State, Plain(S), CanStartStream(S.gst)
    PROVE  LET T == [S EXCEPT !.gst = StartStream(@)]
           IN  T \in State /\ Plain(T) /\ Moves(S, T)
<1> DEFINE g == S.gst
           k == [g EXCEPT !.heard = g.curUri]
           m == StreamStart(g.curUri)
           h == Post(k, m)
           cur == S.pl.cur
<1>1. /\ g \in GstType /\ GstOk(g) /\ BusOk(g) /\ WatchedOk(S.watcher, g)
      /\ PhaseOk(cur, S.pl.protected, S.fifo, S.item, g, S.client.owed)
  BY DEF Plain, Core, State
<1>2. StartStream(g) = h
  BY DEF StartStream
<1>3. m \in Messages /\ m[1] = "STREAM_START" /\ m[2] = g.curUri
  <2>1. g.curUri \in Uris
    BY <1>1 DEF GstType
  <2>2. QED
    BY <2>1, MessageTypes DEF StreamStart
<1>4. /\ k \in GstType /\ k.state = g.state /\ k.pending = g.pending /\ k.target = g.target
      /\ k.uri = g.uri /\ k.curUri = g.curUri /\ k.heard = g.curUri /\ k.asked = g.asked
      /\ k.drained = g.drained /\ k.bus = g.bus
  BY <1>1 DEF GstType
<1> HIDE DEF k, m
<1>5. Loaded(g) /\ Loaded(k) /\ g.heard # g.curUri
  BY <1>4 DEF CanStartStream, Loaded, Prerolling
<1>6. \A kind : OnBus(k, kind) <=> OnBus(g, kind)
  BY <1>4 DEF OnBus
<1>7. ~g.drained
  BY <1>1, <1>5 DEF GstOk
<1>8. ~OnBus(g, "STREAM_START") /\ ~OnBus(g, "EOS")
  BY <1>1, <1>5, <1>7 DEF BusOk, OnBus
<1>9. BusOk(k)
  BY <1>1, <1>4, <1>5, <1>8 DEF BusOk, OnBus
<1>10. /\ h \in GstType /\ Loaded(h)
       /\ h.state = g.state /\ h.pending = g.pending /\ h.target = g.target
       /\ h.uri = g.uri /\ h.curUri = g.curUri /\ h.heard = g.curUri
       /\ h.asked = g.asked /\ h.drained = g.drained
       /\ \A kind : OnBus(h, kind) <=> OnBus(k, kind) \/ m[1] = kind
  BY <1>3, <1>4, <1>5, PostFields
<1>11. BusOk(h)
  BY <1>3, <1>4, <1>5, <1>6, <1>8, <1>9, PostBus
<1>12. GstOk(h)
  BY <1>1, <1>5, <1>7, <1>10 DEF GstOk
<1>13. WatchedOk(S.watcher, k)
  BY <1>1, <1>4, <1>5 DEF WatchedOk
<1>14. WatchedOk(S.watcher, h)
  BY <1>3, <1>4, <1>13, PostWatched
<1> HIDE DEF h
<1>15. PhaseOk(cur, S.pl.protected, S.fifo, S.item, h, S.client.owed)
  <2>1. OnBus(h, "STREAM_START")
    BY <1>3, <1>10
  <2>2. cur # None /\ ~Steady(cur, S.fifo, S.item, g, S.client.owed)
    BY <1>1, <1>5 DEF PhaseOk, Steady
  <2>3. CASE First(cur, S.fifo, S.item, g, S.client.owed)
    <3>1. First(cur, S.fifo, S.item, h, S.client.owed)
      BY <1>10, <2>1, <2>3 DEF First
    <3>2. QED
      BY <1>10, <2>2, <3>1 DEF PhaseOk
  <2>4. CASE Ahead(cur, S.fifo, S.item, g, S.client.owed)
    <3>1. Ahead(cur, S.fifo, S.item, h, S.client.owed)
      BY <1>10, <2>1, <2>4 DEF Ahead
    <3>2. QED
      BY <1>10, <2>2, <3>1 DEF PhaseOk
  <2>5. QED
    BY <1>1, <1>5, <2>2, <2>3, <2>4 DEF PhaseOk
<1>16. \A kind : kind \notin {"STATE_CHANGED", "STREAM_START", "EOS"} =>
           (OnBus(h, kind) => OnBus(g, kind))
  BY <1>3, <1>6, <1>10
<1>17. QED
  BY <1>2, <1>5, <1>10, <1>11, <1>12, <1>14, <1>15, <1>16, PipelinePlain

LEMMA DrainPlain ==
    ASSUME NEW S \in State, Plain(S), CanDrain(S.gst)
    PROVE  LET T == [S EXCEPT !.gst = Drain(@)]
           IN  T \in State /\ Plain(T) /\ Moves(S, T)
<1> DEFINE g == S.gst
           k == [g EXCEPT !.drained = TRUE]
           m == EndOfStream
           h == Post(k, m)
<1>1. /\ g \in GstType /\ GstOk(g) /\ BusOk(g) /\ WatchedOk(S.watcher, g)
      /\ PhaseOk(S.pl.cur, S.pl.protected, S.fifo, S.item, g, S.client.owed)
  BY DEF Plain, Core, State
<1>2. Drain(g) = h
  BY DEF Drain
<1>3. m \in Messages /\ m[1] = "EOS"
  BY MessageTypes DEF EndOfStream
<1>4. /\ k \in GstType /\ k.state = g.state /\ k.pending = g.pending /\ k.target = g.target
      /\ k.uri = g.uri /\ k.curUri = g.curUri /\ k.heard = g.heard /\ k.asked = g.asked
      /\ k.drained /\ k.bus = g.bus
  BY <1>1 DEF GstType
<1> HIDE DEF k, m
<1>5. Loaded(g) /\ Loaded(k) /\ g.state = "PLAYING" /\ ~g.drained /\ g.asked /\ g.heard = g.curUri
  BY <1>4 DEF CanDrain, Loaded, Prerolling
<1>6. \A kind : OnBus(k, kind) <=> OnBus(g, kind)
  BY <1>4 DEF OnBus
<1>7. ~OnBus(g, "EOS")
  BY <1>1, <1>5 DEF BusOk, OnBus
<1>8. BusOk(k)
  BY <1>1, <1>4, <1>5, <1>7 DEF BusOk, OnBus
<1>9. /\ h \in GstType /\ Loaded(h)
      /\ h.state = g.state /\ h.pending = g.pending /\ h.target = g.target
      /\ h.uri = g.uri /\ h.curUri = g.curUri /\ h.heard = g.heard
      /\ h.asked = g.asked /\ h.drained
      /\ \A kind : OnBus(h, kind) <=> OnBus(k, kind) \/ m[1] = kind
  BY <1>3, <1>4, <1>5, PostFields, ZenonT(30)
<1>10. BusOk(h)
  BY <1>3, <1>4, <1>5, <1>6, <1>7, <1>8, PostBus
<1>11. GstOk(h)
  BY <1>1, <1>5, <1>9 DEF GstOk
<1>12. WatchedOk(S.watcher, k)
  BY <1>1, <1>4, <1>5 DEF WatchedOk
<1>13. WatchedOk(S.watcher, h)
  BY <1>3, <1>4, <1>12, PostWatched
<1> HIDE DEF h
<1>14. PhaseOk(S.pl.cur, S.pl.protected, S.fifo, S.item, h, S.client.owed)
  <2>1. OnBus(h, "STREAM_START") <=> OnBus(g, "STREAM_START")
    BY <1>3, <1>6, <1>9
  <2>2. QED
    BY <1>1, <1>5, <1>9, <2>1, SamePhase
<1>15. \A kind : kind \notin {"STATE_CHANGED", "STREAM_START", "EOS"} =>
           (OnBus(h, kind) => OnBus(g, kind))
  BY <1>3, <1>6, <1>9
<1>16. QED
  BY <1>2, <1>5, <1>9, <1>10, <1>11, <1>13, <1>14, <1>15, PipelinePlain

\* about-to-finish is asked once for each stream.
LEMMA AskedPlain ==
    ASSUME NEW S \in State, Plain(S), Loaded(S.gst), NEW h \in GstType,
           h.state = S.gst.state, h.pending = S.gst.pending, h.target = S.gst.target,
           h.uri = S.gst.uri, h.curUri = S.gst.curUri, h.heard = S.gst.heard,
           h.drained = S.gst.drained, h.bus = S.gst.bus, S.gst.asked => h.asked
    PROVE  LET T == [S EXCEPT !.gst = h]
           IN  T \in State /\ Plain(T) /\ Moves(S, T) /\ T.gst = h
<1> DEFINE g == S.gst
<1>1. /\ g \in GstType /\ GstOk(g) /\ BusOk(g) /\ WatchedOk(S.watcher, g)
      /\ PhaseOk(S.pl.cur, S.pl.protected, S.fifo, S.item, g, S.client.owed)
  BY DEF Plain, Core, State
<1>2. Loaded(h)
  BY DEF Loaded, Prerolling
<1>3. GstOk(h) /\ BusOk(h)
  BY <1>1, <1>2, SameBus DEF GstOk
<1>4. WatchedOk(S.watcher, h)
  BY <1>1, <1>2 DEF WatchedOk
<1>5. \A kind : OnBus(h, kind) <=> OnBus(g, kind)
  BY DEF OnBus
<1>6. PhaseOk(S.pl.cur, S.pl.protected, S.fifo, S.item, h, S.client.owed)
  BY <1>1, <1>2, <1>5, SamePhase
<1>7. QED
  BY <1>2, <1>3, <1>4, <1>5, <1>6, PipelinePlain

LEMMA AboutToFinishPlain ==
    ASSUME PlainPlayback, NEW S \in State, Good(S), Plain(S), CanFinish(S.gst)
    PROVE  LET R == [S EXCEPT !.gst = Finish(@), !.pl.nextReq = "REQUESTED"]
               T == [QueueStreamFromUrlFifo(R) EXCEPT !.gst = Finished(@)]
           IN  T \in State /\ Plain(T) /\ Moves(S, T)
<1> DEFINE g == S.gst
           h == Finish(g)
           A == [S EXCEPT !.gst = h]
           R == [S EXCEPT !.gst = Finish(@), !.pl.nextReq = "REQUESTED"]
           Q == QueueStreamFromUrlFifo(R)
           T == [Q EXCEPT !.gst = Finished(@)]
<1>1. g \in GstType /\ Loaded(g)
  BY DEF State, CanFinish
<1>2. /\ h \in GstType /\ h.state = g.state /\ h.pending = g.pending /\ h.target = g.target
      /\ h.uri = g.uri /\ h.curUri = g.curUri /\ h.heard = g.heard
      /\ h.drained = g.drained /\ h.bus = g.bus /\ h.asked
  BY <1>1 DEF Finish, GstType
<1> HIDE DEF h
<1>3. A \in State /\ Plain(A) /\ A.gst = h
  BY <1>1, <1>2, AskedPlain
<1>4. A.pl = S.pl /\ A.fifo = S.fifo /\ A.client = S.client
  BY <1>2 DEF State
<1>5. R = [A EXCEPT !.pl.nextReq = "REQUESTED"]
  BY <1>2 DEF State, h
<1> HIDE DEF A, R
<1>6. /\ R \in State /\ R.pl.cur = S.pl.cur /\ R.pl.nextReq = "REQUESTED" /\ R.fifo = S.fifo
      /\ R.gst = h /\ R.client = S.client /\ Plain(R)
  <2>1. "REQUESTED" \in {"NOT_REQUESTED", "REQUESTED", "REQUEST_DEFERRED"}
    OBVIOUS
  <2>2. /\ R \in State /\ R.pl.cur = A.pl.cur /\ R.pl.nextReq = "REQUESTED" /\ R.fifo = A.fifo
        /\ R.gst = A.gst /\ R.client = A.client /\ (Plain(A) => Plain(R))
    BY <1>3, <1>5, <2>1, NextReqFields
  <2>3. QED
    BY <1>3, <1>4, <2>2
<1>7. Loaded(h)
  BY <1>1, <1>2 DEF Loaded, Prerolling
<1>8. ChosenNext(R, Q)
  BY <1>6, <1>7, QueueStreamPlain DEF Good
<1> HIDE DEF Q
<1>9. /\ Q \in State /\ Plain(Q) /\ SamePipeline(h, Q.gst) /\ Q.pl.cur = S.pl.cur
      /\ Q.fifo = S.fifo /\ Q.client = S.client
  BY <1>6, <1>8 DEF ChosenNext
<1> DEFINE k == Finished(Q.gst)
<1>10. Q.gst \in GstType
  BY <1>9 DEF State
<1>11. /\ k \in GstType /\ k.state = Q.gst.state /\ k.pending = Q.gst.pending
       /\ k.target = Q.gst.target /\ k.uri = Q.gst.uri /\ k.curUri = Q.gst.curUri
       /\ k.heard = Q.gst.heard /\ k.drained = Q.gst.drained /\ k.bus = Q.gst.bus
       /\ k.asked = Q.gst.asked
  BY <1>10 DEF Finished, GstType
<1>12. Loaded(Q.gst)
  BY <1>7, <1>9 DEF SamePipeline, Loaded, Prerolling
<1>13. T \in State /\ Plain(T) /\ Moves(Q, T)
  <2> HIDE DEF k
  <2>1. /\ [Q EXCEPT !.gst = k] \in State /\ Plain([Q EXCEPT !.gst = k])
        /\ Moves(Q, [Q EXCEPT !.gst = k])
    BY <1>9, <1>11, <1>12, AskedPlain
  <2>2. QED
    BY <2>1 DEF k
<1> HIDE DEF T
<1>14. Moves(S, T)
  BY <1>9, <1>13, MovesFrom
<1>15. QED
  BY <1>13, <1>14 DEF T, Q, R

-----------------------------------------------------------------------------
(* The steps *)

\* Nothing depends on items which do not exist any more.
LEMMA ForgottenPlain ==
    ASSUME NEW T \in State, Plain(T), NEW H \in State,
           H.ctl = T.ctl, H.pl = T.pl, H.watcher = T.watcher, H.fifo = T.fifo, H.gst = T.gst,
           H.calls = T.calls, H.idle = T.idle, H.skip = T.skip, H.threads = T.threads,
           H.client = T.client, H.bug = {},
           \A i \in Streams : H.item[i] = IF i \in Alive(T) THEN T.item[i] ELSE NewItem
    PROVE  Plain(H)
<1> DEFINE cur == T.pl.cur
           f == T.fifo
           g == T.gst
           it == H.item
<1>1. /\ ItemsPlain(T.item) /\ RestartOk(cur, f, T.item, g)
      /\ PhaseOk(cur, T.pl.protected, f, T.item, g, T.client.owed)
      /\ BoostOk(cur, T.item, T.pl.buf, g, T.threads) /\ CleanOk(g, T.bug)
  BY DEF Plain, Core
<1>2. /\ f.queue \in Seq(Streams) /\ \A n \in 1..Len(f.queue) : f.queue[n] \in Streams \cap Alive(T)
      /\ cur # None => cur \in Streams \cap Alive(T)
  BY FifoTypes DEF Alive, Elems
<1>3. ~IsEmpty(f) => Peek(f) \in Streams \cap Alive(T)
  BY <1>2 DEF IsEmpty, Peek
<1>4. /\ \A n \in 1..Len(f.queue) : it[f.queue[n]] = T.item[f.queue[n]]
      /\ cur # None => it[cur] = T.item[cur]
      /\ ~IsEmpty(f) => it[Peek(f)] = T.item[Peek(f)]
  BY <1>2, <1>3
<1>5. ItemsPlain(it)
  BY <1>1 DEF ItemsPlain, NewItem
<1>6. RestartOk(cur, f, it, g)
  BY <1>1, <1>4 DEF RestartOk, Size
<1>7. \A st : HeadIs(f, T.item, st) => HeadIs(f, it, st)
  BY <1>4 DEF HeadIs
<1>8. PhaseOk(cur, T.pl.protected, f, it, g, T.client.owed)
  <2>1. CASE Loaded(g)
    <3>1. cur # None
      BY <1>1, <2>1 DEF PhaseOk
    <3>2. /\ First(cur, f, T.item, g, T.client.owed) => First(cur, f, it, g, T.client.owed)
          /\ Ahead(cur, f, T.item, g, T.client.owed) => Ahead(cur, f, it, g, T.client.owed)
      BY <1>4, <1>7, <3>1 DEF First, Ahead
    <3>3. Steady(cur, f, T.item, g, T.client.owed) => Steady(cur, f, it, g, T.client.owed)
      BY <1>4, <1>7, <3>1 DEF Steady
    <3>4. QED
      BY <1>1, <2>1, <3>1, <3>2, <3>3 DEF PhaseOk
  <2>2. CASE ~Loaded(g)
    <3>1. Unopened(cur, f, T.item, g) => Unopened(cur, f, it, g)
      BY <1>4, <1>7 DEF Unopened
    <3>2. Resting(cur, T.pl.protected, f, T.item, g, T.client.owed) =>
            Resting(cur, T.pl.protected, f, it, g, T.client.owed)
      BY <1>4, <1>7 DEF Resting
    <3>3. QED
      BY <1>1, <2>2, <3>1, <3>2 DEF PhaseOk
  <2>3. QED
    BY <2>1, <2>2
<1>9. BoostOk(cur, it, T.pl.buf, g, T.threads)
  <2>1. Loaded(g) => cur # None
    BY <1>1 DEF PhaseOk
  <2>2. QED
    BY <1>1, <1>4, <2>1 DEF BoostOk, NewItem
<1>10. CleanOk(g, {})
  BY <1>1 DEF CleanOk
<1>11. Core(H)
  BY <1>5, <1>6, <1>8, <1>9, <1>10 DEF Core, Plain
<1>12. QED
  BY <1>11 DEF Plain

Steps(S, T) == Proceeds(S, T) \/ \E i \in Streams : Accepts(S, T, i)

LEMMA SameSteps ==
    ASSUME NEW S, NEW T, NEW H, Steps(S, T), H.pl = T.pl, H.fifo = T.fifo, H.client = T.client
    PROVE  Steps(S, H)
<1>1. Waiting(H) = Waiting(T)
  BY DEF Waiting
<1>2. QED
  BY <1>1 DEF Steps, Proceeds, Moves, Announces, Accepts

\* What a step does to the invariant, and what the client sees of it.
PlainStep ==
    /\ Plain(Here)' /\ (NoErrors => bug' \cap Fatal = {})
    /\ Steps(Here, Here')

LEMMA BecomePlain ==
    ASSUME Inv, Plain(Here), NEW S \in State, Fails(S) \/ (Plain(S) /\ Steps(Here, S)), Become(S)
    PROVE  PlainStep
<1> DEFINE T == IF Died(S) THEN [Here EXCEPT !.bug = S.bug] ELSE S
           it == [i \in Streams |-> IF i \in Alive(T) THEN T.item[i] ELSE NewItem]
           H == [ctl |-> T.ctl, pl |-> T.pl, watcher |-> T.watcher, fail |-> T.fail,
                 fifo |-> T.fifo, item |-> it, gst |-> T.gst, calls |-> T.calls, idle |-> T.idle,
                 skip |-> T.skip, threads |-> T.threads, client |-> T.client, bug |-> {}]
<1>1. /\ ctl' = T.ctl /\ pl' = T.pl /\ watcher' = T.watcher /\ fail' = T.fail /\ fifo' = T.fifo
      /\ item' = it
      /\ gst' = T.gst /\ calls' = T.calls /\ idle' = T.idle /\ skip' = T.skip
      /\ threads' = T.threads /\ client' = T.client /\ bug' = T.bug
  BY DEF Become
<1>2. Here \in State
  BY DEF Inv
<1>3. NoErrors => S.bug \cap Fatal = {}
  BY DEF Fails, Plain, Core, CleanOk
<1>4. T.bug = S.bug
  BY <1>2 DEF State
<1>5. NoErrors => bug' \cap Fatal = {}
  BY <1>1, <1>3, <1>4
<1>6. CASE Died(S)
  <2>1. T = [Here EXCEPT !.bug = S.bug]
    BY <1>6
  <2> HIDE DEF T
  <2>2. /\ T.ctl = ctl /\ T.pl = pl /\ T.watcher = watcher /\ T.fail = fail /\ T.fifo = fifo
        /\ T.item = item /\ T.gst = gst /\ T.calls = calls /\ T.idle = idle /\ T.skip = skip
        /\ T.threads = threads /\ T.client = client
    BY <2>1 DEF Here
  <2>3. Alive(T) = Alive(Here)
    BY <2>2 DEF Alive, Here
  <2>4. it = item
    <3>1. item \in [Streams -> ItemType]
      BY <1>2 DEF Here, State
    <3>2. \A i \in Streams : (IF i \in Alive(T) THEN T.item[i] ELSE NewItem) = item[i]
      BY <2>2, <2>3 DEF Inv, DeadOk
    <3>3. QED
      BY <3>1, <3>2
  <2>5. Here' = Here
    <3> HIDE DEF it
    <3>1. QED
      BY <1>1, <2>2, <2>4 DEF Here
  <2>6. Alike(Here, Here')
    BY <2>5 DEF Alike
  <2>7. Steps(Here, Here')
    BY <1>2, <2>6, AlikeMoves DEF Steps, Proceeds
  <2>8. Plain(Here)'
    <3>1. Plain(Here') <=> Plain(Here)
      BY <2>5
    <3>2. QED
      BY <3>1
  <2>9. QED
    BY <1>5, <2>7, <2>8 DEF PlainStep
<1>7. CASE ~Died(S)
  <2>1. T = S /\ Plain(S) /\ Steps(Here, S)
    BY <1>7 DEF Fails
  <2> HIDE DEF T
  <2>2. it \in [Streams -> ItemType]
    BY <2>1, NewItemType DEF State
  <2>3. \A i \in Streams : it[i] = IF i \in Alive(T) THEN T.item[i] ELSE NewItem
    OBVIOUS
  <2> HIDE DEF it
  <2>4. Here' = H
    BY <1>1 DEF Here
  <2>5. /\ H \in State /\ H.ctl = T.ctl /\ H.pl = T.pl /\ H.watcher = T.watcher
        /\ H.fifo = T.fifo /\ H.item = it /\ H.gst = T.gst /\ H.calls = T.calls
        /\ H.idle = T.idle /\ H.skip = T.skip /\ H.threads = T.threads
        /\ H.client = T.client /\ H.bug = {}
    BY <2>1, <2>2 DEF State
  <2> HIDE DEF H
  <2>6. Plain(H)
    BY <2>1, <2>3, <2>5, ForgottenPlain
  <2>7. Steps(Here, H)
    BY <2>1, <2>5, SameSteps
  <2>8. Plain(Here)'
    BY <2>4, <2>6
  <2>9. QED
    BY <1>5, <2>4, <2>7, <2>8 DEF PlainStep
<1>8. QED
  BY <1>6, <1>7

LEMMA MovesStep ==
    ASSUME Inv, Plain(Here), NEW S, S \in State /\ Plain(S) /\ Moves(Here, S), Become(S)
    PROVE  PlainStep
  BY BecomePlain DEF Steps, Proceeds

LEMMA PushStreamPlain ==
    ASSUME PlainPlayback, Inv, Plain(Here), NEW i \in Streams, NEW keep \in KeepArgs,
           PushStream(i, keep)
    PROVE  PlainStep
<1> DEFINE S == [DoPush(Here, i, keep) EXCEPT !.skip = (keep = -2)]
<1>1. Become(S)
  BY DEF PushStream
<1>2. i \notin Alive(Here) /\ i \notin Here.client.owed
  BY DEF PushStream, Fresh, Here
<1>3. Here.item[i] = NewItem
  BY <1>2 DEF Inv, DeadOk, Here
<1>4. S \in State /\ Plain(S) /\ (Moves(Here, S) \/ Accepts(Here, S, i))
  BY <1>2, <1>3, DoPushPlain DEF Inv
<1> HIDE DEF S
<1>5. Steps(Here, S)
  BY <1>4 DEF Steps, Proceeds
<1>6. QED
  BY <1>1, <1>4, <1>5, BecomePlain

LEMMA ClientPlain ==
    ASSUME PlainPlayback, Inv, Plain(Here), Client
    PROVE  PlainStep
<1>1. Here \in State /\ Good(Here)
  BY DEF Inv
<1>2. CASE Activate
  BY <1>1, <1>2, DoActivatePlain, MovesStep DEF Activate
<1>3. CASE Start
  <2>1. Here.idle \in Nat /\ [Here EXCEPT !.idle = Here.idle] = Here
    BY <1>1 DEF State, Here
  <2> DEFINE S == DoStart(Here)
  <2>2. S \in State /\ Plain(S) /\ Moves(Here, S)
    BY <1>1, <2>1, DoStartPlain
  <2>3. Become(S)
    BY <1>3 DEF Start
  <2> HIDE DEF S
  <2>4. QED
    BY <2>2, <2>3, MovesStep
<1>4. CASE Pause
  BY <1>1, <1>4, DoPausePlain, MovesStep DEF Pause
<1>5. CASE Seek
  BY <1>1, <1>5, DoSeekPlain, MovesStep DEF Seek
<1>6. ASSUME NEW i \in Streams, NEW keep \in KeepArgs, PushStream(i, keep) PROVE PlainStep
  BY <1>6, PushStreamPlain
<1>7. ~(Deactivate \/ Stop \/ DeviceRemoved \/ SkipToNext)
  BY DEF PlainPlayback, Deactivate, Stop, DeviceRemoved, SkipToNext, ClientMay
<1>8. \A keep \in ClearArgs : ~ClearQueue(keep)
  BY DEF PlainPlayback, ClearQueue, ClientMay
<1>9. QED
  BY <1>2, <1>3, <1>4, <1>5, <1>6, <1>7, <1>8 DEF Client

LEMMA MainLoopPlain ==
    ASSUME PlainPlayback, Inv, Plain(Here), RestartPlaying \/ ReportProgress \/ HandleBus
    PROVE  PlainStep
<1>1. Here \in State /\ Good(Here) /\ ~Died(Here)
  BY DEF Inv, Here, Died
<1>2. CASE RestartPlaying
  <2> DEFINE S == DoStart([Here EXCEPT !.idle = @ - 1])
  <2>1. Become(S)
    BY <1>2 DEF RestartPlaying
  <2>2. Here.idle = idle /\ idle \in Nat /\ idle - 1 \in Nat /\ idle > 0
    BY <1>2, HereTypes DEF RestartPlaying
  <2>3. [Here EXCEPT !.idle = @ - 1] = [Here EXCEPT !.idle = idle - 1]
    BY <2>2
  <2>4. S \in State /\ Plain(S) /\ Moves(Here, S)
    BY <1>1, <2>2, <2>3, DoStartPlain
  <2> HIDE DEF S
  <2>5. QED
    BY <2>1, <2>4, MovesStep
<1>3. CASE ReportProgress
  <2> DEFINE S == [Here EXCEPT !.watcher = "NONE"]
  <2>1. Become(S) /\ Here.pl.cur = None
    BY <1>3 DEF ReportProgress, Here
  <2>2. S \in State /\ Plain(S) /\ Moves(Here, S)
    BY <1>1, <2>1, ReportProgressPlain
  <2> HIDE DEF S
  <2>3. QED
    BY <2>1, <2>2, MovesStep
<1>4. CASE HandleBus
  <2>1. PICK S \in HandleMessage(Taken(Here), Head(gst.bus)) : Become(S)
    BY <1>4 DEF HandleBus, Taken
  <2>2. gst.bus \in Seq(Messages) /\ gst.bus # <<>> /\ Here.gst.bus = gst.bus
    BY <1>4, HereTypes DEF HandleBus, GstType
  <2>3. Head(gst.bus) = Here.gst.bus[1]
    BY <2>2
  <2>4. S \in HandleMessage(Taken(Here), Here.gst.bus[1])
    BY <2>1, <2>3
  <2>5. S \in State /\ (Fails(S) \/ (Plain(S) /\ Proceeds(Here, S)))
    BY <1>1, <2>2, <2>4, HandleMessagePlain
  <2>6. QED
    BY <2>1, <2>5, BecomePlain DEF Steps
<1>5. QED
  BY <1>2, <1>3, <1>4

LEMMA ThreadsPlain ==
    ASSUME NEW S \in State, Plain(S), NEW th \in ThreadsType, th.boosted = S.threads.boosted
    PROVE  LET T == [S EXCEPT !.threads = th]
           IN  T \in State /\ Plain(T) /\ Moves(S, T)
<1> DEFINE T == [S EXCEPT !.threads = th]
<1>1. /\ T \in State /\ T.gst = S.gst /\ T.ctl = S.ctl /\ T.pl = S.pl /\ T.fifo = S.fifo
      /\ T.item = S.item /\ T.calls = S.calls /\ T.skip = S.skip /\ T.idle = S.idle
      /\ T.client = S.client /\ T.watcher = S.watcher /\ T.bug = S.bug /\ T.threads = th
  BY DEF State
<1> HIDE DEF T
<1>2. Alike(S, T)
  BY <1>1 DEF Alike
<1>3. BoostOk(T.pl.cur, T.item, T.pl.buf, T.gst, T.threads)
  BY <1>1 DEF Plain, Core, BoostOk
<1>4. Plain(T)
  BY <1>1, <1>3 DEF Plain, Core
<1>5. QED
  BY <1>1, <1>2, <1>4, AlikeMoves DEF T

\* GStreamer posts a message which is no state change.
LEMMA GstPosts ==
    ASSUME Inv, Plain(Here), NEW m \in Messages,
           m[1] \in {"ERROR", "VIDEO_DECODER", "BUFFERING", "ASYNC_DONE"},
           ~Loaded(gst) \/ OnBus(gst, "EOS") => Late(m),
           LocalFiles => m[1] \notin {"BUFFERING", "ASYNC_DONE"},
           NoErrors => m[1] \notin {"ERROR", "VIDEO_DECODER"},
           GstStep(Post(gst, m))
    PROVE  PlainStep
<1> DEFINE T == [Here EXCEPT !.gst = Post(@, m)]
<1>1. Here \in State /\ Here.gst = gst /\ gst \in GstType /\ Post(gst, m) \in GstType
  BY HereTypes, PostType
<1>2. T \in State
  BY <1>1 DEF State
<1>3. Plain(T) /\ Moves(Here, T)
  BY <1>1, <1>2, PostPlain
<1>4. Become(T)
  BY <1>1 DEF GstStep
<1> HIDE DEF T
<1>5. QED
  BY <1>2, <1>3, <1>4, MovesStep

LEMMA PipelineStepPlain ==
    ASSUME PlainPlayback, Inv, Plain(Here), Gst
    PROVE  PlainStep
<1>1. /\ Here \in State /\ Good(Here) /\ Here.gst = gst /\ gst \in GstType
      /\ Here.threads = threads
  BY HereTypes
<1>2. GstOk(gst) /\ BusOk(gst)
  BY <1>1 DEF Plain, Core
<1>3. OnBus(gst, "EOS") => gst.drained
  BY <1>2 DEF BusOk, OnBus
<1>4. CASE GstCommit
  <2> DEFINE A == [Here EXCEPT !.gst = Commit(@)]
  <2>1. /\ A \in State /\ Plain(A) /\ Moves(Here, A)
        /\ Loaded(A.gst) /\ (Prerolling(gst) => ~OnBus(A.gst, "EOS"))
    BY <1>1, <1>4, CommitPlain DEF GstCommit
  <2>2. CASE ~(Prerolling(gst) /\ AsyncDone \in GstEvents)
    <3>1. Become(A)
      BY <1>1, <1>4, <2>2 DEF GstCommit, GstStep
    <3> HIDE DEF A
    <3>2. QED
      BY <2>1, <3>1, MovesStep
  <2>3. CASE Prerolling(gst) /\ AsyncDone \in GstEvents
    <3> DEFINE T == [A EXCEPT !.gst = Post(@, AsyncDone)]
    <3>1. A.gst = Commit(gst) /\ A.pl = Here.pl /\ A.fifo = Here.fifo /\ A.client = Here.client
      BY <1>1 DEF State
    <3>2. [Here EXCEPT !.gst = Post(Commit(gst), AsyncDone)] = T
      BY <1>1 DEF State
    <3>3. Become(T)
      BY <1>4, <2>3, <3>2 DEF GstCommit, GstStep
    <3> HIDE DEF A
    <3>4. AsyncDone \in Messages /\ AsyncDone[1] = "ASYNC_DONE"
      BY MessageTypes DEF AsyncDone
    <3>5. A.gst \in GstType
      BY <2>1 DEF State
    <3>6. Post(A.gst, AsyncDone) \in GstType
      BY <3>4, <3>5, PostType
    <3>7. T \in State
      BY <2>1, <3>6 DEF State
    <3>8. ~LocalFiles
      BY <2>3 DEF LocalFiles
    <3> HIDE DEF AsyncDone
    <3>9. Plain(T) /\ Moves(A, T)
      BY <2>1, <2>3, <3>4, <3>7, <3>8, PostPlain
    <3> HIDE DEF T
    <3>10. Moves(Here, T)
      BY <3>1, <3>9, MovesFrom
    <3>11. QED
      BY <3>3, <3>7, <3>9, <3>10, MovesStep
  <2>4. QED
    BY <2>2, <2>3
<1>5. CASE GstPrefetch
  <2> DEFINE T == [Here EXCEPT !.gst = Prefetch(@)]
  <2>1. Become(T) /\ CanPrefetch(Here.gst)
    BY <1>1, <1>5 DEF GstPrefetch, GstStep
  <2>2. T \in State /\ Plain(T) /\ Moves(Here, T)
    BY <1>1, <2>1, PrefetchPlain
  <2> HIDE DEF T
  <2>3. QED
    BY <2>1, <2>2, MovesStep
<1>6. CASE GstStartStream
  <2> DEFINE T == [Here EXCEPT !.gst = StartStream(@)]
  <2>1. Become(T) /\ CanStartStream(Here.gst)
    BY <1>1, <1>6 DEF GstStartStream, GstStep
  <2>2. T \in State /\ Plain(T) /\ Moves(Here, T)
    BY <1>1, <2>1, StartStreamPlain
  <2> HIDE DEF T
  <2>3. QED
    BY <2>1, <2>2, MovesStep
<1>7. CASE GstDrain
  <2> DEFINE T == [Here EXCEPT !.gst = Drain(@)]
  <2>1. Become(T) /\ CanDrain(Here.gst)
    BY <1>1, <1>7 DEF GstDrain, GstStep
  <2>2. T \in State /\ Plain(T) /\ Moves(Here, T)
    BY <1>1, <2>1, DrainPlain
  <2> HIDE DEF T
  <2>3. QED
    BY <2>1, <2>2, MovesStep
<1>8. ASSUME NEW percent \in Percents, GstBuffering(percent) PROVE PlainStep
  <2> DEFINE m == BufferingMessage(percent)
  <2>1. m \in Messages /\ m[1] = "BUFFERING"
    BY MessageTypes DEF BufferingMessage
  <2>2. Loaded(gst) /\ ~OnBus(gst, "EOS") /\ ~LocalFiles
    BY <1>3, <1>8 DEF GstBuffering, CanReportLevel, LocalFiles
  <2>3. GstStep(Post(gst, m))
    BY <1>8 DEF GstBuffering
  <2> HIDE DEF m
  <2>4. QED
    BY <2>1, <2>2, <2>3, GstPosts
<1>9. ASSUME NEW reason \in Reasons, GstError(reason) PROVE PlainStep
  <2> DEFINE m == ErrorMessage(reason)
  <2>1. m \in Messages /\ m[1] = "ERROR"
    BY MessageTypes DEF ErrorMessage
  <2>2. Late(m) /\ ~NoErrors
    BY <2>1 DEF Late, NoErrors
  <2>3. GstStep(Post(gst, m))
    BY <1>9 DEF GstError
  <2> HIDE DEF m
  <2>4. QED
    BY <2>1, <2>2, <2>3, GstPosts
<1>10. ASSUME NEW event \in GstEvents, GstEvent(event) PROVE PlainStep
  <2>1. event = VideoDecoderFound
    BY <1>10 DEF GstEvent, PlainPlayback
  <2>2. event \in Messages /\ event[1] = "VIDEO_DECODER"
    BY <2>1, MessageTypes DEF VideoDecoderFound
  <2>3. Late(event) /\ ~NoErrors
    BY <1>10, <2>1, <2>2 DEF Late, NoErrors
  <2>4. GstStep(Post(gst, event))
    BY <1>10 DEF GstEvent
  <2>5. QED
    BY <2>2, <2>3, <2>4, GstPosts
<1>11. ASSUME NEW th \in ThreadsType, th.boosted = threads.boosted,
              Become([Here EXCEPT !.threads = th])
       PROVE  PlainStep
  BY <1>1, <1>11, ThreadsPlain, MovesStep
<1>12. threads \in ThreadsType /\ ThreadsOk(threads)
  BY <1>1 DEF State, Good, CalmOk
<1>13. ASSUME NEW t \in Pool, ThreadLeaves(t) PROVE PlainStep
  <2>1. BT!Leave(threads, t) \in ThreadsType /\ BT!Leave(threads, t).boosted = threads.boosted
    BY <1>12, LeaveThreads
  <2>2. Become([Here EXCEPT !.threads = BT!Leave(threads, t)])
    BY <1>1, <1>13 DEF ThreadLeaves
  <2>3. QED
    BY <1>11, <2>1, <2>2
<1>14. ASSUME NEW t \in Pool, NEW name \in Tasks, ThreadEnters(t, name) PROVE PlainStep
  <2>1. /\ BT!Enter(threads, t, name) \in ThreadsType
        /\ BT!Enter(threads, t, name).boosted = threads.boosted
    BY <1>12, <1>14, EnterThreads DEF ThreadEnters
  <2>2. Become([Here EXCEPT !.threads = BT!Enter(threads, t, name)])
    BY <1>1, <1>14 DEF ThreadEnters
  <2>3. QED
    BY <1>11, <2>1, <2>2
<1>15. QED
  BY <1>4, <1>5, <1>6, <1>7, <1>8, <1>9, <1>10, <1>13, <1>14 DEF Gst

LEMMA NextPlain ==
    ASSUME PlainPlayback, Inv, Plain(Here), Next
    PROVE  PlainStep
<1>1. Here \in State /\ Good(Here)
  BY DEF Inv
<1>2. ~PushThenSkip /\ ~Resolver
  BY DEF Plain, Core, Here, PushThenSkip, Resolver
<1>3. CASE AboutToFinish
  <2> DEFINE T == [QueueStreamFromUrlFifo([Here EXCEPT !.gst = Finish(@), !.pl.nextReq = "REQUESTED"])
                     EXCEPT !.gst = Finished(@)]
  <2>1. Become(T) /\ CanFinish(Here.gst)
    BY <1>3 DEF AboutToFinish, Here
  <2>2. T \in State /\ Plain(T) /\ Moves(Here, T)
    BY <1>1, <2>1, AboutToFinishPlain
  <2> HIDE DEF T
  <2>3. QED
    BY <2>1, <2>2, MovesStep
<1>4. QED
  BY <1>2, <1>3, ClientPlain, MainLoopPlain, PipelineStepPlain DEF Next

LEMMA InitPlain == Init => Plain(Here) /\ bug = {}
<1>1. SUFFICES ASSUME Init PROVE Plain(Here) /\ bug = {}
  OBVIOUS
<1>2. /\ ctl = [activated |-> FALSE, status |-> "STOPPED"]
      /\ pl.cur = None /\ pl.protected = FALSE /\ pl.buf = NotBuffering
      /\ watcher = "NONE" /\ fifo = EmptyFifo /\ item = [i \in Streams |-> NewItem]
      /\ gst = GstSetState(NewPipeline, "READY") /\ calls = {} /\ idle = 0 /\ skip = FALSE
      /\ client.owed = {} /\ bug = {}
  BY <1>1 DEF Init, InitialGst
<1>3. /\ Here \in State /\ Here.ctl = ctl /\ Here.pl = pl /\ Here.watcher = watcher
      /\ Here.fifo = fifo /\ Here.item = item /\ Here.gst = gst /\ Here.calls = calls
      /\ Here.idle = idle /\ Here.skip = skip /\ Here.client = client /\ Here.bug = {}
  BY <1>1, InitInv DEF Inv, Here
<1>4. /\ ~Loaded(gst) /\ GstOk(gst) /\ BusOk(gst)
      /\ gst.uri = NoUri /\ gst.target = "READY"
      /\ \A kind : kind # "STATE_CHANGED" => ~OnBus(gst, kind)
  BY <1>2, RebuiltPipeline
<1>5. ItemsPlain(item) /\ \A i \in Streams : item[i].realtime
  BY <1>2 DEF ItemsPlain, NewItem
<1>6. fifo.queue = <<>> /\ fifo.removed = <<>> /\ fifo.dropped = {} /\ Size(fifo) = 0
  BY <1>2 DEF EmptyFifo, Size
<1>7. QueuePlain(None, fifo, {})
  BY <1>6, MaxItemsAssumption DEF QueuePlain
<1>8. RestartOk(None, fifo, item, gst)
  BY <1>6 DEF RestartOk
<1>9. Resting(None, pl.protected, fifo, item, gst, {})
  BY <1>4, NoCurrentRests
<1>10. AskedOk(ctl, pl.buf, None, idle, gst)
  BY <1>2, <1>4 DEF AskedOk
<1>11. CleanOk(gst, {})
  BY <1>4 DEF CleanOk
<1>12. ~IsBuffering(pl.buf)
  BY <1>2 DEF IsBuffering, NotBuffering
<1>13. Plain(Here)
  BY <1>2, <1>3, <1>4, <1>5, <1>7, <1>8, <1>9, <1>10, <1>11, <1>12, RestPlain
<1>14. QED
  BY <1>2, <1>13

-----------------------------------------------------------------------------
(* The theorems *)

PlainInduction == Inv /\ Plain(Here) /\ (NoErrors => bug \cap Fatal = {})

LEMMA SpecPlain ==
    ASSUME PlainPlayback
    PROVE  Spec => []PlainInduction
<1>1. Init => PlainInduction
  BY InitInv, InitPlain DEF PlainInduction
<1>2. PlainInduction /\ [Next]_vars => PlainInduction'
  <2>1. SUFFICES ASSUME PlainInduction, [Next]_vars PROVE PlainInduction'
    OBVIOUS
  <2>2. Inv'
    BY <2>1, NextInv DEF PlainInduction
  <2>3. CASE Next
    BY <2>1, <2>2, <2>3, NextPlain DEF PlainInduction, PlainStep
  <2>4. CASE UNCHANGED vars
    <3>1. Here' = Here /\ bug' = bug
      BY <2>4 DEF vars, Here
    <3>2. Plain(Here)'
      BY <2>1, <3>1 DEF PlainInduction
    <3>3. QED
      BY <2>1, <2>2, <3>1, <3>2 DEF PlainInduction
  <2>5. QED
    BY <2>1, <2>3, <2>4
<1>3. QED
  BY <1>1, <1>2, PTL DEF Spec

(***************************************************************************)
(* The invariant of plain playback holds for all streams, however far      *)
(* GStreamer is ahead of the handlers of its messages, and whatever fails. *)
(***************************************************************************)
THEOREM PlaybackIsPlain == Spec => []PlainInv
<1>1. CASE PlainPlayback
  <2>1. PlainInduction => PlainInv
    BY DEF PlainInduction, PlainInv
  <2>2. QED
    BY <1>1, <2>1, SpecPlain, PTL
<1>2. CASE ~PlainPlayback
  <2>1. PlainInv
    BY <1>2 DEF PlainInv
  <2>2. QED
    BY <2>1, PTL
<1>3. QED
  BY <1>1, <1>2

\* The variables in place of the fields of the record.
LEMMA PlainHere ==
    ASSUME PlainInduction
    PROVE  /\ QueuePlain(pl.cur, fifo, client.owed) /\ RestartOk(pl.cur, fifo, item, gst)
           /\ GstOk(gst) /\ BusOk(gst)
           /\ PhaseOk(pl.cur, pl.protected, fifo, item, gst, client.owed)
           /\ BoostOk(pl.cur, item, pl.buf, gst, threads)
           /\ AskedOk(ctl, pl.buf, pl.cur, idle, gst) /\ WatchedOk(watcher, gst)
           /\ fifo.queue \in Seq(Streams) /\ pl.cur \in Streams \cup {None}
           /\ client.owed \subseteq Streams /\ Alive(Here) = Elems(fifo.queue) \cup ({pl.cur} \ {None})
           /\ Elems(fifo.queue) \subseteq client.owed
           /\ ~IsEmpty(fifo) => Peek(fifo) \in Elems(fifo.queue)
<1>1. Here \in State /\ Good(Here) /\ Plain(Here)
  BY DEF PlainInduction, Inv
<1>2. /\ Here.ctl = ctl /\ Here.pl = pl /\ Here.watcher = watcher
      /\ Here.fifo = fifo /\ Here.item = item /\ Here.gst = gst /\ Here.threads = threads
      /\ Here.idle = idle /\ Here.client = client
  BY DEF Here
<1>3. /\ fifo.queue \in Seq(Streams) /\ pl.cur \in Streams \cup {None}
      /\ client.owed \subseteq Streams
  BY <1>1, <1>2, FifoTypes DEF State, ClientType
<1>4. ~IsEmpty(fifo) => Peek(fifo) \in Elems(fifo.queue)
  BY <1>3 DEF IsEmpty, Peek, Elems
<1>5. Elems(fifo.queue) \subseteq client.owed
  BY <1>1, <1>2 DEF Good, QueueOk
<1>6. QED
  BY <1>1, <1>2, <1>3, <1>4, <1>5 DEF Plain, Core, Alive

(***************************************************************************)
(* No stream is forgotten: an accepted stream is announced, reported as    *)
(* stopped or failed, or it is still queued or the current stream          *)
(* (emit_now_playing(), emit_stopped(), handle_end_of_stream(),            *)
(* handle_error_message()).                                                *)
(***************************************************************************)
THEOREM NoStreamIsForgotten ==
    ASSUME PlainPlayback
    PROVE  Spec => []NothingForgotten
<1>1. ASSUME PlainInduction PROVE NothingForgotten
  BY <1>1, PlainHere, StreamsAssumption DEF NothingForgotten, QueuePlain, None
<1>2. QED
  BY <1>1, SpecPlain, PTL

(***************************************************************************)
(* The URI in the pipeline is one of the current stream or of the head of  *)
(* the queue (on_link_resolved(), wipe_out_uri()).                         *)
(***************************************************************************)
THEOREM UriIsOfNextStream ==
    ASSUME PlainPlayback
    PROVE  Spec => []PrefetchedIsNext
<1>1. ASSUME PlainInduction PROVE PrefetchedIsNext
  <2>1. SUFFICES ASSUME gst.uri # NoUri
                 PROVE  gst.uri[1] = pl.cur \/ (~IsEmpty(fifo) /\ gst.uri[1] = Peek(fifo))
    BY DEF PrefetchedIsNext
  <2>2. gst.uri = UriOf(pl.cur) \/ (~IsEmpty(fifo) /\ gst.uri = UriOf(Peek(fifo)))
    BY <1>1, <2>1, PlainHere DEF PhaseOk, First, Steady, Ahead, Unopened, Resting
  <2>3. QED
    BY <2>2 DEF UriOf
<1>2. QED
  BY <1>1, SpecPlain, PTL

(***************************************************************************)
(* What is heard is the current stream or the head of the queue, however   *)
(* far the player is behind with the messages of the pipeline.             *)
(***************************************************************************)
THEOREM HeardStreamIsKnown ==
    ASSUME PlainPlayback
    PROVE  Spec => []HeardIsKnown
<1>1. ASSUME PlainInduction PROVE HeardIsKnown
  <2>1. SUFFICES ASSUME gst.heard # NoUri PROVE gst.heard[1] \in Alive(Here)
    BY DEF HeardIsKnown
  <2>2. Loaded(gst) /\ pl.cur # None
    BY <1>1, <2>1, PlainHere DEF GstOk, PhaseOk
  <2>3. gst.heard = UriOf(pl.cur) \/ (~IsEmpty(fifo) /\ gst.heard = UriOf(Peek(fifo)))
    BY <1>1, <2>1, <2>2, PlainHere DEF PhaseOk, First, Steady, Ahead
  <2>4. gst.heard[1] = pl.cur \/ (~IsEmpty(fifo) /\ gst.heard[1] = Peek(fifo))
    BY <2>3 DEF UriOf
  <2>5. QED
    BY <1>1, <2>2, <2>4, PlainHere
<1>2. QED
  BY <1>1, SpecPlain, PTL

(***************************************************************************)
(* about-to-finish never finds an item which is marked for a restart of    *)
(* the pipeline (handle_end_of_stream(), queue_stream_from_url_fifo()).    *)
(***************************************************************************)
THEOREM StreamingThreadNeverRestarts ==
    ASSUME PlainPlayback
    PROVE  Spec => []NoRestartInStreamingThread
<1>1. ASSUME PlainInduction PROVE NoRestartInStreamingThread
  <2>1. SUFFICES ASSUME CanFinish(gst), NEW i \in Alive(Here)
                 PROVE  ~(item[i].restart /\ item[i].state = "IN_QUEUE")
    BY DEF NoRestartInStreamingThread
  <2>2. Loaded(gst)
    BY <2>1 DEF CanFinish
  <2>3. CASE i \in Elems(fifo.queue)
    BY <1>1, <2>2, <2>3, PlainHere DEF RestartOk, Size, Elems
  <2>4. CASE i = pl.cur
    BY <1>1, <2>2, <2>4, PlainHere DEF PhaseOk, First, Steady, Ahead, Awaited, Announced
  <2>5. QED
    BY <1>1, <2>1, <2>3, <2>4, PlainHere
<1>2. QED
  BY <1>1, SpecPlain, PTL

(***************************************************************************)
(* When all messages have been handled, a player which is supposed to play *)
(* has its pipeline set to PLAYING, or waits for its buffer to be filled   *)
(* (do_start(), handle_end_of_stream(), handle_stream_state_change()).     *)
(***************************************************************************)
THEOREM PlaysWhenAsked ==
    ASSUME PlainPlayback
    PROVE  Spec => []PlayingWhenAsked
<1>1. ASSUME PlainInduction PROVE PlayingWhenAsked
  <2>1. SUFFICES ASSUME gst.bus = <<>>, idle = 0, ctl.status = "PLAYING"
                 PROVE  IsBuffering(pl.buf) \/ gst.target = "PLAYING"
    BY DEF PlayingWhenAsked, Quiet
  <2>2. ~\E k \in 1..Len(gst.bus) : Arrival(gst.bus[k])
    BY <2>1
  <2>3. QED
    BY <1>1, <2>1, <2>2, PlainHere DEF AskedOk
<1>2. QED
  BY <1>1, SpecPlain, PTL

(***************************************************************************)
(* A player which is supposed to be stopped, because there is nothing left *)
(* to be played or because of an error, does not play.                     *)
(***************************************************************************)
THEOREM StoppedIsSilent ==
    ASSUME PlainPlayback
    PROVE  Spec => []SilentWhenStopped
<1>1. ASSUME PlainInduction PROVE SilentWhenStopped
  <2>1. SUFFICES ASSUME ctl.status = "STOPPED", gst.state = "PLAYING" PROVE FALSE
    BY DEF SilentWhenStopped
  <2>2. Loaded(gst)
    BY <2>1 DEF Loaded
  <2>3. gst.target \in {"PAUSED", "PLAYING"}
    BY <1>1, <2>2, PlainHere, LoadedIsActive DEF Active
  <2>4. QED
    BY <1>1, <2>1, <2>3, PlainHere DEF AskedOk
<1>2. QED
  BY <1>1, SpecPlain, PTL

(***************************************************************************)
(* The timer which reports the position runs whenever a stream is played   *)
(* and all messages have been handled (handle_stream_state_change(),       *)
(* report_progress()).                                                     *)
(***************************************************************************)
THEOREM PlayingIsWatched ==
    ASSUME PlainPlayback
    PROVE  Spec => []ProgressIsWatched
<1>1. ASSUME PlainInduction PROVE ProgressIsWatched
  <2>1. SUFFICES ASSUME gst.bus = <<>>, gst.state = "PLAYING", gst.pending = "VOID"
                 PROVE  watcher = "RUNNING"
    BY DEF ProgressIsWatched, Quiet
  <2>2. ~\E n \in 1..Len(gst.bus) : ArrivalInPlaying(gst.bus[n])
    BY <2>1
  <2>3. QED
    BY <1>1, <2>1, <2>2, PlainHere DEF WatchedOk
<1>2. QED
  BY <1>1, SpecPlain, PTL

(***************************************************************************)
(* Without errors and video streams, none of the assertions fires and no   *)
(* nullptr is dereferenced: the player's view of the pipeline and the      *)
(* messages on their way do not get out of step.                           *)
(***************************************************************************)
THEOREM NoAssertionFails ==
    ASSUME PlainPlayback, NoErrors
    PROVE  Spec => []AssertionsHold
<1>1. ASSUME PlainInduction PROVE AssertionsHold
  BY <1>1 DEF PlainInduction, AssertionsHold, Fatal
<1>2. QED
  BY <1>1, SpecPlain, PTL

(***************************************************************************)
(* Announced local streams are played with realtime priorities whenever    *)
(* everything is settled (handle_start_of_stream(), emit_stopped(),        *)
(* rebuild_playbin()).                                                     *)
(***************************************************************************)
THEOREM LocalFilesAreBoosted ==
    ASSUME PlainPlayback, LocalFiles
    PROVE  Spec => []RealtimeWhilePlaying
<1>1. ASSUME PlainInduction PROVE RealtimeWhilePlaying
  <2>1. SUFFICES ASSUME gst.bus = <<>>, gst.state = "PLAYING", gst.heard = gst.curUri
                 PROVE  threads.boosted
    BY DEF RealtimeWhilePlaying, Quiet
  <2>2. Loaded(gst) /\ ~OnBus(gst, "STREAM_START")
    BY <2>1 DEF Loaded, OnBus
  <2>3. pl.cur # None
    BY <1>1, <2>2, PlainHere DEF PhaseOk
  <2>4. UriOf(pl.cur) # NoUri
    BY <2>3 DEF UriOf, NoUri, None
  <2>5. item[pl.cur].state \in Announced
    BY <1>1, <2>1, <2>2, <2>4, PlainHere DEF PhaseOk, First, Steady, Ahead
  <2>6. QED
    BY <1>1, <2>2, <2>5, PlainHere DEF BoostOk
<1>2. QED
  BY <1>1, SpecPlain, PTL

(***************************************************************************)
(* A NowPlaying signal for another stream is sent only upon                *)
(* GST_MESSAGE_STREAM_START of that very stream (handle_start_of_stream(), *)
(* which has to find out by the states of its items).                      *)
(***************************************************************************)
THEOREM AnnouncementsAreHonest ==
    ASSUME PlainPlayback
    PROVE  Spec => HonestNowPlaying
<1>1. ASSUME PlainInduction, [Next]_vars
      PROVE  [(client'.told # client.told /\ client'.told # None) =>
                /\ gst.bus # <<>>
                /\ Head(gst.bus)[1] = "STREAM_START"
                /\ Head(gst.bus)[2][1] = client'.told]_vars
  <2>1. SUFFICES ASSUME Next, client'.told # client.told, client'.told # None
                 PROVE  /\ gst.bus # <<>>
                        /\ Head(gst.bus)[1] = "STREAM_START"
                        /\ Head(gst.bus)[2][1] = client'.told
    BY <1>1
  <2>2. Steps(Here, Here')
    BY <1>1, <2>1, NextPlain DEF PlainInduction, PlainStep
  <2>3. Here.client = client /\ Here.gst = gst /\ (Here').client = client'
    BY DEF Here
  <2>4. Announces(Here, Here')
    BY <2>1, <2>2, <2>3 DEF Steps, Proceeds, Moves, Accepts
  <2>5. gst.bus # <<>> /\ gst.bus[1] = StreamStart(UriOf(client'.told))
    BY <2>3, <2>4 DEF Announces
  <2>6. gst.bus \in Seq(Messages)
    BY <1>1, HereTypes DEF PlainInduction, GstType
  <2>7. Head(gst.bus) = gst.bus[1]
    BY <2>5, <2>6
  <2>8. QED
    BY <2>5, <2>7 DEF StreamStart, UriOf
<1>2. QED
  BY <1>1, SpecPlain, PTL DEF Spec, HonestNowPlaying

-----------------------------------------------------------------------------
(* The order of playback *)

\* What the client waits for is what the player is going to play.
OrderOk ==
    /\ WaitingStreams = Waiting(Here) /\ Waiting(Here) \in Seq(Streams)
    /\ client.owed \cap DroppedIds(fifo) = {}
    /\ client.owed = Order!InSeq(Waiting(Here))

LEMMA OrderHere ==
    ASSUME PlainInduction
    PROVE  OrderOk
<1> DEFINE q == fifo.queue
           w == Waiting(Here)
<1>1. /\ fifo.removed = <<>> /\ fifo.dropped = {} /\ q \in Seq(Streams)
      /\ client.owed \subseteq Elems(q) \cup {pl.cur} /\ Elems(q) \subseteq client.owed
      /\ pl.cur \in Streams \cup {None} /\ client.owed \subseteq Streams /\ None \notin Streams
  BY PlainHere, StreamsAssumption DEF QueuePlain, None
<1>2. w = (IF pl.cur \in client.owed THEN <<pl.cur>> ELSE <<>>) \o q
  BY DEF Waiting, Here
<1>3. WaitingStreams = w
  BY <1>1, <1>2 DEF WaitingStreams
<1>4. client.owed \cap DroppedIds(fifo) = {}
  BY <1>1 DEF DroppedIds, Elems
<1>5. w \in Seq(Streams)
  BY <1>1, <1>2, Suffixes
<1>6. Order!InSeq(w) = client.owed
  <2>1. CASE pl.cur \in client.owed
    <3>1. w = <<pl.cur>> \o q /\ pl.cur \in Streams
      BY <1>1, <1>2, <2>1
    <3>2. Len(w) = Len(q) + 1 /\ w[1] = pl.cur /\ \A n \in 1..Len(q) : w[n + 1] = q[n]
      BY <1>1, <3>1
    <3>3. {w[n] : n \in 1..Len(w)} = Elems(q) \cup {pl.cur}
      <4>1. ASSUME NEW n \in 1..Len(w) PROVE w[n] \in Elems(q) \cup {pl.cur}
        <5>1. CASE n = 1
          BY <3>2, <5>1
        <5>2. CASE n # 1
          <6>1. n - 1 \in 1..Len(q) /\ w[(n - 1) + 1] = q[n - 1] /\ (n - 1) + 1 = n
            BY <1>1, <3>2, <5>2
          <6>2. QED
            BY <6>1 DEF Elems
        <5>3. QED
          BY <5>1, <5>2
      <4>2. ASSUME NEW n \in 1..Len(q) PROVE \E k \in 1..Len(w) : q[n] = w[k]
        <5>1. n + 1 \in 1..Len(w) /\ w[n + 1] = q[n]
          BY <1>1, <3>2
        <5>2. QED
          BY <5>1
      <4>3. 1 \in 1..Len(w)
        BY <1>1, <3>2
      <4>4. Elems(q) \subseteq {w[n] : n \in 1..Len(w)}
        BY <4>2 DEF Elems
      <4>5. QED
        BY <3>2, <4>1, <4>3, <4>4
    <3>4. QED
      BY <1>1, <2>1, <3>3 DEF Order!InSeq
  <2>2. CASE pl.cur \notin client.owed
    <3>1. w = q
      BY <1>1, <1>2, <2>2
    <3>2. QED
      BY <1>1, <2>2, <3>1 DEF Order!InSeq, Elems
  <2>3. QED
    BY <2>1, <2>2
<1>7. QED
  BY <1>3, <1>4, <1>5, <1>6 DEF OrderOk

\* Each step of the player is one of StreamOrder.
LEMMA OrderStep ==
    ASSUME PlainPlayback, PlainInduction, OrderOk, OrderOk', [Next]_vars
    PROVE  [Order!Next]_(Order!vars)
<1> DEFINE w == Waiting(Here)
           v == Waiting(Here')
           len == Len(w)
<1>1. CASE UNCHANGED vars
  BY <1>1 DEF vars, Order!vars, WaitingStreams, DroppedIds
<1>2. CASE Next
  <2>1. Steps(Here, Here')
    BY <1>2, NextPlain DEF PlainInduction, PlainStep
  <2>2. WaitingStreams = w /\ w \in Seq(Streams) /\ len \in Nat
    BY DEF OrderOk
  <2>3. /\ WaitingStreams' = v /\ v \in Seq(Streams)
        /\ (client.owed \cap DroppedIds(fifo))' = {} /\ client'.owed = Order!InSeq(v)
    BY DEF OrderOk, Waiting, Here, Order!InSeq
  <2>4. Here.client = client /\ (Here').client = client'
    BY DEF Here
  <2> HIDE DEF w, v
  <2>5. CASE Moves(Here, Here')
    <3>1. PICK k \in 0..len : v = SubSeq(w, k + 1, len)
      BY <2>5 DEF Moves, w, v
    <3>2. client'.told \in {client.told, 0}
      BY <2>4, <2>5 DEF Moves, None
    <3>3. Order!Report(k + 1, len)
      BY <2>2, <2>3, <3>1, <3>2 DEF Order!Report, Order!InSeq
    <3>4. k + 1 \in 1..(len + 1) /\ len \in 0..len
      BY <2>2
    <3>5. QED
      BY <2>2, <3>3, <3>4 DEF Order!Next
  <2>6. CASE Announces(Here, Here')
    <3>1. w = <<client'.told>> \o v /\ client'.told \in Streams
      BY <2>4, <2>6 DEF Announces, w, v
    <3>2. w[1] = client'.told /\ len = Len(v) + 1 /\ v = SubSeq(w, 2, len)
      BY <2>3, <3>1, Suffixes
    <3>3. Order!Announce(1) /\ 1 \in 1..len
      BY <2>2, <2>3, <3>2 DEF Order!Announce, Order!InSeq
    <3>4. QED
      BY <2>2, <3>3 DEF Order!Next
  <2>7. CASE \E i \in Streams : Accepts(Here, Here', i)
    <3>1. PICK i \in Streams : Accepts(Here, Here', i)
      BY <2>7
    <3>2. client'.told = client.told /\ i \notin client.owed /\ v = Append(w, i)
      BY <2>4, <3>1 DEF Accepts, w, v
    <3>3. SubSeq(w, 1, len) = w
      BY <2>2, <3>1, Suffixes
    <3>4. Order!Accept(i, len)
      BY <2>2, <2>3, <3>2, <3>3 DEF Order!Accept, Order!InSeq
    <3>5. len \in 0..len
      BY <2>2
    <3>6. QED
      BY <2>2, <3>1, <3>4, <3>5 DEF Order!Next
  <2>8. QED
    BY <2>1, <2>5, <2>6, <2>7 DEF Steps, Proceeds
<1>3. QED
  BY <1>1, <1>2

(***************************************************************************)
(* The player implements StreamOrder in plain playback: through all its    *)
(* handlers, callbacks, failing URLs and errors, streams are announced in  *)
(* the order in which the client has pushed them, those which fail are     *)
(* reported as dropped, and no signal speaks about any other stream.       *)
(***************************************************************************)
THEOREM StreamsArePlayedInOrder ==
    ASSUME PlainPlayback
    PROVE  Spec => PlayedInOrder
<1>1. Init /\ OrderOk => Order!Init
  <2>1. SUFFICES ASSUME Init, OrderOk PROVE Order!Init
    OBVIOUS
  <2>2. client.owed = {} /\ client.told = 0 /\ fifo.queue = <<>> /\ fifo.removed = <<>>
    BY <2>1 DEF Init, EmptyFifo, None
  <2>3. WaitingStreams = <<>>
    BY <2>2 DEF WaitingStreams
  <2>4. QED
    BY <2>2, <2>3 DEF Order!Init
<1>2. PlainInduction => OrderOk
  BY OrderHere
<1>3. PlainInduction /\ OrderOk /\ OrderOk' /\ [Next]_vars => [Order!Next]_(Order!vars)
  BY OrderStep
<1>4. QED
  BY <1>1, <1>2, <1>3, SpecPlain, PTL DEF Spec, PlayedInOrder, Order!Spec
=============================================================================
