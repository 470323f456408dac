--------------------------- MODULE StreamerProofs ---------------------------
(***************************************************************************)
(* What the functions streamer.cc is composed of, and the handlers of      *)
(* streamer.cc and dbus.cc, do to the invariant of the player, for any     *)
(* number of streams and threads, any lists of URLs, any capacity of the   *)
(* URL FIFO, and whatever GStreamer and the list broker come up with; and  *)
(* what follows from it for the client, for the pipeline and for the list  *)
(* broker.                                                                 *)
(***************************************************************************)
EXTENDS Streamer, UrlFifoOpsProofs

-----------------------------------------------------------------------------
(* The types of the record of all variables *)

Uris == (Streams \cup {0}) \X Nat

Messages ==
    {StateChanged(old, new, pending) : old \in GstStates, new \in GstStates, pending \in GstStates}
        \cup {StreamStart(uri) : uri \in Uris}
        \cup {ErrorMessage(reason) : reason \in Reasons \cup {"RETRY"}}
        \cup {BufferingMessage(percent) : percent \in Percents}
        \cup {EndOfStream, VideoDecoderFound, ClockLost, AsyncDone}

GstType ==
    [state : GstStates, pending : GstStates, target : GstStates,
     uri : Uris, curUri : Uris, heard : Uris,
     asked : BOOLEAN, taken : BOOLEAN, drained : BOOLEAN, bus : Seq(Messages)]

BufType == [state : BufferingStates, level : Levels]

PlType ==
    [cur : Streams \cup {None}, protected : BOOLEAN,
     nextReq : {"NOT_REQUESTED", "REQUESTED", "REQUEST_DEFERRED"},
     justStarted : BOOLEAN, buf : BufType]

ThreadsType ==
    [boosted : BOOLEAN, known : [Pool -> BT!Priorities], sched : [Pool -> BT!Priorities],
     task : [Pool -> Tasks \cup {BT!NoTask}]]

\* There is a cookie for each call.
CallType ==
    [id : {i \in Streams : Broker[i] = "COOKIE"}, nextState : GstStates, prefetching : BOOLEAN]

CtlType == [activated : BOOLEAN, status : Statuses]

FailType == [onStop : BOOLEAN, clearFifo : BOOLEAN]

ClientType == [told : Streams \cup {None}, owed : SUBSET Streams]

BugNames ==
    {"ALREADY_ACTIVATED", "ALREADY_DEACTIVATED", "BOGUS_TARGET", "CURRENT_ITEM_INVALID",
     "INACTIVE", "NOTHING_TO_PLAY", "NOT_IMPLEMENTED", "NOT_REQUESTED_YET", "NO_FAILED_ITEM",
     "NULL_POINTER", "PICKED_QUEUED_STREAM", "STOPPING", "SUPPOSED_STATUS",
     "UNEXPECTED_NEXT_STREAM", "UNEXPECTED_STATE", "UNEXPECTED_STREAM_STATE", "UNREACHABLE",
     "WRONG_STATE_OF_CURRENT"}

State ==
    [ctl : CtlType, pl : PlType, watcher : {"NONE", "RUNNING", "GONE"}, fail : FailType,
     fifo : FifoType(Streams), item : [Streams -> ItemType], gst : GstType,
     calls : SUBSET CallType, idle : Nat, skip : BOOLEAN, threads : ThreadsType,
     client : ClientType, bug : SUBSET BugNames]

-----------------------------------------------------------------------------
(* The invariant *)

Distinct(q) == \A m, n \in 1..Len(q) : q[m] = q[n] => m = n

\* The queue holds streams which are nowhere else, and which the client is waiting for.
QueueOk(cur, f, owed) ==
    /\ Distinct(f.queue)
    /\ cur \notin Elems(f.queue)
    /\ Elems(f.queue) \cap DroppedIds(f) = {}
    /\ Elems(f.queue) \subseteq owed

\* Nothing has happened to a queued item, except to the first one which may be prefetched.
ItemsOk(q, it) ==
    \A n \in 1..Len(q) :
        /\ it[q[n]].realtime
        /\ \/ it[q[n]].state = "IN_QUEUE" /\ ~it[q[n]].resolving
           \/ n = 1 /\ it[q[n]].state = "ABOUT_TO_ACTIVATE"

\* There is one call for an item which has a resolver, and none otherwise.
ResolverOk(i, resolving, cs) ==
    Broker[i] # "REFUSES" =>
        /\ resolving <=> \E c \in cs : c.id = i
        /\ \A c, d \in cs : c.id = i /\ d.id = i => c = d

CallsOk(cur, q, it, cs) ==
    \A i \in Elems(q) \cup ({cur} \ {None}) : ResolverOk(i, it[i].resolving, cs)

\* Registered threads are those in tasks of interest, and have their priorities.
ThreadsOk(th) ==
    \A t \in Pool :
        /\ th.known[t] = BT!TaskNameToPriority(th.task[t])
        /\ th.sched[t] = IF th.boosted THEN th.known[t] ELSE "NONE"

\* The player does not wait for what has happened already, and does not boost while waiting.
CalmOk(cur, it, buf, th) ==
    /\ ~BufferFilled(buf)
    /\ ThreadsOk(th)
    /\ th.boosted => ~IsBuffering(buf) /\ (cur # None => it[cur].realtime)

Good(S) ==
    /\ QueueOk(S.pl.cur, S.fifo, S.client.owed)
    /\ ItemsOk(S.fifo.queue, S.item)
    /\ CallsOk(S.pl.cur, S.fifo.queue, S.item, S.calls)
    /\ CalmOk(S.pl.cur, S.item, S.pl.buf, S.threads)

\* An item which does not exist any more.
DeadOk == \A i \in Streams \ Alive(Here) : item[i] = NewItem

Inv == Here \in State /\ Good(Here) /\ DeadOk

-----------------------------------------------------------------------------
(* How a function leads from one record to another *)

\* The process may die on the way; then the record does not matter.
Leads(S, T) ==
    /\ T \in State
    /\ S.bug \subseteq T.bug
    /\ Good(S) => Died(T) \/ Good(T)
    /\ Elems(T.fifo.queue) \subseteq Elems(S.fifo.queue)

\* The part of it which holds from any record.
Goes(S, T) ==
    /\ T \in State
    /\ S.bug \subseteq T.bug
    /\ Elems(T.fifo.queue) \subseteq Elems(S.fifo.queue)

\* What is not about streams, only about buffering and threads at most.
Aside(S, T) ==
    /\ T \in State
    /\ S.bug \subseteq T.bug
    /\ T.pl.cur = S.pl.cur /\ T.fifo = S.fifo /\ T.item = S.item /\ T.calls = S.calls
    /\ T.client = S.client
    /\ CalmOk(S.pl.cur, S.item, S.pl.buf, S.threads) =>
         Died(T) \/ CalmOk(T.pl.cur, T.item, T.pl.buf, T.threads)

\* Functions may be called one after the other.
LEMMA LeadsTrans ==
    ASSUME NEW S, NEW T, NEW U, Leads(S, T), Leads(T, U)
    PROVE  Leads(S, U)
  BY DEF Leads, Died

LEMMA GoesTrans ==
    ASSUME NEW S, NEW T, NEW U, Goes(S, T), Goes(T, U)
    PROVE  Goes(S, U)
  BY DEF Goes

LEMMA LeadsGoes ==
    ASSUME NEW S, NEW T
    PROVE  /\ Leads(S, T) => Goes(S, T)
           /\ Goes(S, T) /\ ~Good(S) => Leads(S, T)
  BY DEF Leads, Goes

LEMMA AsideTrans ==
    ASSUME NEW S, NEW T, NEW U, Aside(S, T), Aside(T, U)
    PROVE  Aside(S, U)
  BY DEF Aside, Died

LEMMA LeadsSelf ==
    ASSUME NEW S \in State
    PROVE  Leads(S, S) /\ Aside(S, S)
  BY DEF Leads, Aside

LEMMA AsideLeads ==
    ASSUME NEW S, NEW T, Aside(S, T)
    PROVE  Leads(S, T)
  BY DEF Leads, Aside, Good

-----------------------------------------------------------------------------
(* GStreamer *)

\* Some of the messages on the bus.
LEMMA MessageTypes ==
    /\ \A o, n, p \in GstStates : StateChanged(o, n, p) \in Messages
    /\ \A uri \in Uris : StreamStart(uri) \in Messages
    /\ \A reason \in Reasons \cup {"RETRY"} : ErrorMessage(reason) \in Messages
    /\ \A percent \in Percents : BufferingMessage(percent) \in Messages
    /\ {EndOfStream, VideoDecoderFound, ClockLost, AsyncDone} \subseteq Messages
  BY DEF Messages

LEMMA NoUriType == NoUri \in Uris
  BY DEF NoUri, Uris

LEMMA PostType ==
    ASSUME NEW g \in GstType, NEW m \in Messages
    PROVE  /\ Post(g, m) \in GstType
           /\ Post(g, m) = [g EXCEPT !.bus = Append(g.bus, m)]
  BY DEF Post, GstType

LEMMA UnloadType ==
    ASSUME NEW g \in GstType
    PROVE  Unload(g) \in GstType
  BY NoUriType DEF Unload, GstType

LEMMA SetNullType ==
    ASSUME NEW g \in GstType
    PROVE  SetNull(g) \in GstType
<1>1. Unload(g) \in GstType
  BY UnloadType
<1>2. {"NULL", "VOID"} \subseteq GstStates /\ <<>> \in Seq(Messages)
  BY DEF GstStates
<1>3. QED
  BY <1>1, <1>2 DEF SetNull, GstType

LEMMA SetReadyType ==
    ASSUME NEW g \in GstType
    PROVE  SetReady(g) \in GstType
<1> DEFINE down == [Unload(g) EXCEPT !.state = "READY", !.pending = "VOID", !.target = "READY"]
<1>1. down \in GstType
  BY UnloadType DEF GstType, GstStates
<1>2. g.state \in GstStates /\ {"PLAYING", "PAUSED", "READY", "VOID", "NULL"} \subseteq GstStates
  BY DEF GstType, GstStates
<1>3. [g EXCEPT !.target = "READY"] \in GstType
  BY <1>2 DEF GstType
<1> HIDE DEF down
<1>4. \A o, n, p \in GstStates : Post(down, StateChanged(o, n, p)) \in GstType
  BY <1>1, PostType, MessageTypes
<1>5. \A o, n, p, q, r, s \in GstStates :
        Post(Post(down, StateChanged(o, n, p)), StateChanged(q, r, s)) \in GstType
  BY <1>4, PostType, MessageTypes
<1>6. SetReady(g) \in
        {Post(Post(down, StateChanged("PLAYING", "PAUSED", "READY")),
              StateChanged("PAUSED", "READY", "VOID")),
         Post(down, StateChanged(g.state, "READY", "VOID")),
         Post(down, StateChanged("READY", "READY", "VOID")),
         [g EXCEPT !.target = "READY"]}
  BY DEF SetReady, down
<1>7. QED
  BY <1>2, <1>3, <1>4, <1>5, <1>6

LEMMA SetActiveType ==
    ASSUME NEW g \in GstType, NEW t \in GstStates
    PROVE  SetActive(g, t) \in GstType
<1> DEFINE ready == IF g.state = "NULL" THEN Post(g, StateChanged("NULL", "READY", t)) ELSE g
           load == [Unload(ready) EXCEPT !.state = "READY", !.target = t, !.curUri = g.uri]
           redirected == [g EXCEPT !.target = t, !.pending = t]
<1>1. {"PLAYING", "PAUSED", "READY", "VOID", "NULL"} \subseteq GstStates /\ g.uri \in Uris
  BY DEF GstType, GstStates
<1>2. ready \in GstType
  BY <1>1, PostType, MessageTypes
<1> HIDE DEF ready
<1>3. load \in GstType
  BY <1>1, <1>2, UnloadType DEF GstType
<1>4. redirected \in GstType /\ [g EXCEPT !.target = t] \in GstType
  BY DEF GstType
<1> HIDE DEF load, redirected
<1>5. [load EXCEPT !.pending = "VOID"] \in GstType /\ [load EXCEPT !.pending = t] \in GstType
  BY <1>1, <1>3 DEF GstType
<1>6. LeaveReady(g, t) \in GstType
  BY <1>5 DEF LeaveReady, load, ready
<1>7. [redirected EXCEPT !.pending = "VOID"] \in GstType
  BY <1>1, <1>4 DEF GstType
<1>8. Post([redirected EXCEPT !.pending = "VOID"], StateChanged("PAUSED", "PAUSED", "VOID"))
        \in GstType
  BY <1>1, <1>7, PostType, MessageTypes
<1>9. SetActive(g, t) \in
        {LeaveReady(g, t), [g EXCEPT !.target = t], redirected,
         Post([redirected EXCEPT !.pending = "VOID"], StateChanged("PAUSED", "PAUSED", "VOID"))}
  BY DEF SetActive, redirected
<1>10. QED
  BY <1>4, <1>6, <1>8, <1>9

\* gst_element_set_state()
LEMMA GstSetStateType ==
    ASSUME NEW g \in GstType, NEW t \in GstStates
    PROVE  GstSetState(g, t) \in GstType
  BY SetNullType, SetReadyType, SetActiveType DEF GstSetState

LEMMA NewPipelineType == NewPipeline \in GstType
  BY NoUriType DEF NewPipeline, GstType, GstStates

\* Another state of the pipeline.
LEMMA GstAside ==
    ASSUME NEW S \in State, NEW g \in GstType
    PROVE  Aside(S, [S EXCEPT !.gst = g])
  BY DEF Aside, State

LEMMA SetStreamStateAside ==
    ASSUME NEW S \in State, NEW t \in GstStates
    PROVE  Aside(S, SetStreamState(S, t))
<1>1. S.gst \in GstType
  BY DEF State
<1>2. QED
  BY <1>1, GstSetStateType, GstAside DEF SetStreamState

-----------------------------------------------------------------------------
(* Threads *)

\* boosted_threads.cc: the table yields priorities, and none for a thread in the pool.
LEMMA PriorityOfTask ==
    /\ \A name : BT!TaskNameToPriority(name) \in BT!Priorities
    /\ BT!TaskNameToPriority(BT!NoTask) = "NONE"
    /\ "NONE" \in BT!Priorities
  BY DEF BT!TaskNameToPriority, BT!Priorities, BT!NoTask

\* boost()
LEMMA BoostThreads ==
    ASSUME NEW th \in ThreadsType
    PROVE  /\ BT!Boost(th) \in ThreadsType
           /\ ThreadsOk(th) => ThreadsOk(BT!Boost(th))
<1>1. CASE th.boosted
  BY <1>1 DEF BT!Boost
<1>2. CASE ~th.boosted
  <2> DEFINE sched == [t \in Pool |-> IF th.known[t] = "NONE" THEN th.sched[t] ELSE th.known[t]]
             new == [boosted |-> TRUE, known |-> th.known, sched |-> sched, task |-> th.task]
  <2>1. BT!Boost(th) = new
    BY <1>2 DEF BT!Boost, BT!ConfigureAll, ThreadsType
  <2>2. new \in ThreadsType
    BY DEF ThreadsType
  <2>3. ThreadsOk(th) => ThreadsOk(new)
    BY <1>2 DEF ThreadsOk, ThreadsType
  <2>4. QED
    BY <2>1, <2>2, <2>3
<1>3. QED
  BY <1>1, <1>2

\* throttle()
LEMMA ThrottleThreads ==
    ASSUME NEW th \in ThreadsType
    PROVE  /\ BT!Throttle(th) \in ThreadsType /\ ~BT!Throttle(th).boosted
           /\ ThreadsOk(th) => ThreadsOk(BT!Throttle(th))
<1>1. CASE ~th.boosted
  BY <1>1 DEF BT!Throttle
<1>2. CASE th.boosted
  <2> DEFINE sched == [t \in Pool |-> IF th.known[t] = "NONE" THEN th.sched[t] ELSE "NONE"]
             new == [boosted |-> FALSE, known |-> th.known, sched |-> sched, task |-> th.task]
  <2>1. BT!Throttle(th) = new
    BY <1>2 DEF BT!Throttle, BT!ConfigureAll, ThreadsType
  <2>2. new \in ThreadsType
    BY PriorityOfTask DEF ThreadsType
  <2>3. ThreadsOk(th) => ThreadsOk(new)
    BY <1>2 DEF ThreadsOk, ThreadsType
  <2>4. QED
    BY <2>1, <2>2, <2>3
<1>3. QED
  BY <1>1, <1>2

\* add_self()
LEMMA EnterThreads ==
    ASSUME NEW th \in ThreadsType, NEW t \in Pool, NEW name \in Tasks,
           th.task[t] = BT!NoTask, ThreadsOk(th)
    PROVE  /\ BT!Enter(th, t, name) \in ThreadsType
           /\ ThreadsOk(BT!Enter(th, t, name))
           /\ BT!Enter(th, t, name).boosted = th.boosted
<1> DEFINE prio == BT!TaskNameToPriority(name)
           new == [boosted |-> th.boosted,
                   known |-> [th.known EXCEPT ![t] = prio],
                   sched |-> [th.sched EXCEPT ![t] = IF th.boosted THEN prio ELSE "NONE"],
                   task |-> [th.task EXCEPT ![t] = name]]
<1>1. prio \in BT!Priorities /\ "NONE" \in BT!Priorities
  BY PriorityOfTask
<1>2. th.known[t] = "NONE" /\ th.sched[t] = "NONE"
  BY PriorityOfTask DEF ThreadsOk
<1>3. BT!Enter(th, t, name) = new
  <2>1. CASE prio = "NONE"
    <3>1. /\ th.known = [th.known EXCEPT ![t] = prio]
          /\ th.sched = [th.sched EXCEPT ![t] = IF th.boosted THEN prio ELSE "NONE"]
      BY <1>2, <2>1 DEF ThreadsType
    <3>2. BT!Enter(th, t, name) = [th EXCEPT !.task[t] = name]
      BY <2>1 DEF BT!Enter
    <3>3. QED
      BY <3>1, <3>2 DEF ThreadsType
  <2>2. CASE prio # "NONE"
    BY <2>2 DEF BT!Enter, BT!AddSelf, ThreadsType
  <2>3. QED
    BY <2>1, <2>2
<1>4. new \in ThreadsType
  BY <1>1 DEF ThreadsType
<1>5. ThreadsOk(new)
  BY DEF ThreadsOk, ThreadsType
<1>6. QED
  BY <1>3, <1>4, <1>5

\* remove_self()
LEMMA LeaveThreads ==
    ASSUME NEW th \in ThreadsType, NEW t \in Pool, ThreadsOk(th)
    PROVE  /\ BT!Leave(th, t) \in ThreadsType
           /\ ThreadsOk(BT!Leave(th, t))
           /\ BT!Leave(th, t).boosted = th.boosted
<1> DEFINE new == [boosted |-> th.boosted,
                   known |-> [th.known EXCEPT ![t] = "NONE"],
                   sched |-> [th.sched EXCEPT ![t] = "NONE"],
                   task |-> [th.task EXCEPT ![t] = BT!NoTask]]
<1>1. BT!Leave(th, t) = new
  <2>1. CASE BT!TaskNameToPriority(th.task[t]) = "NONE"
    <3>1. th.known[t] = "NONE" /\ th.sched[t] = "NONE"
      BY <2>1 DEF ThreadsOk
    <3>2. th.known = [th.known EXCEPT ![t] = "NONE"] /\ th.sched = [th.sched EXCEPT ![t] = "NONE"]
      BY <3>1 DEF ThreadsType
    <3>3. BT!Leave(th, t) = [th EXCEPT !.task[t] = BT!NoTask]
      BY <2>1 DEF BT!Leave
    <3>4. QED
      BY <3>2, <3>3 DEF ThreadsType
  <2>2. CASE BT!TaskNameToPriority(th.task[t]) # "NONE"
    BY <2>2 DEF BT!Leave, BT!RemoveSelf, ThreadsType
  <2>3. QED
    BY <2>1, <2>2
<1>2. new \in ThreadsType
  BY PriorityOfTask DEF ThreadsType
<1>3. ThreadsOk(new)
  BY PriorityOfTask DEF ThreadsOk, ThreadsType
<1>4. QED
  BY <1>1, <1>2, <1>3

-----------------------------------------------------------------------------
(* Functions which do not touch streams *)

LEMMA BugAside ==
    ASSUME NEW S \in State, NEW what \in BugNames
    PROVE  Aside(S, Bug(S, what))
  BY DEF Bug, Aside, State

LEMMA CrashAside ==
    ASSUME NEW S \in State
    PROVE  Aside(S, Crash(S)) /\ Died(Crash(S))
<1>1. Aside(S, Crash(S))
  BY BugAside DEF Crash, BugNames
<1>2. QED
  BY <1>1 DEF Crash, Bug, Died, State

LEMMA CtlAside ==
    ASSUME NEW S \in State, NEW c \in CtlType
    PROVE  Aside(S, [S EXCEPT !.ctl = c])
  BY DEF Aside, State

LEMMA WatcherAside ==
    ASSUME NEW S \in State, NEW w \in {"NONE", "RUNNING", "GONE"}
    PROVE  Aside(S, [S EXCEPT !.watcher = w])
  BY DEF Aside, State

LEMMA FailAside ==
    ASSUME NEW S \in State, NEW f \in FailType
    PROVE  Aside(S, [S EXCEPT !.fail = f])
  BY DEF Aside, State

LEMMA IdleAside ==
    ASSUME NEW S \in State, NEW n \in Nat
    PROVE  Aside(S, [S EXCEPT !.idle = n])
  BY DEF Aside, State

LEMMA SkipAside ==
    ASSUME NEW S \in State, NEW b \in BOOLEAN
    PROVE  Aside(S, [S EXCEPT !.skip = b])
  BY DEF Aside, State

LEMMA PlAside ==
    ASSUME NEW S \in State, NEW p \in PlType, p.cur = S.pl.cur, p.buf = S.pl.buf
    PROVE  Aside(S, [S EXCEPT !.pl = p])
  BY DEF Aside, State

LEMMA StatusAside ==
    ASSUME NEW S \in State, NEW st \in Statuses
    PROVE  Aside(S, [S EXCEPT !.ctl.status = st])
  BY DEF Aside, State, CtlType

LEMMA NextReqAside ==
    ASSUME NEW S \in State, NEW r \in {"NOT_REQUESTED", "REQUESTED", "REQUEST_DEFERRED"}
    PROVE  Aside(S, [S EXCEPT !.pl.nextReq = r])
  BY DEF Aside, State, PlType

LEMMA JustStartedAside ==
    ASSUME NEW S \in State, NEW b \in BOOLEAN
    PROVE  Aside(S, [S EXCEPT !.pl.justStarted = b])
  BY DEF Aside, State, PlType

LEMMA WipeOutUriAside ==
    ASSUME NEW S \in State
    PROVE  Aside(S, WipeOutUri(S))
  BY NoUriType DEF Aside, WipeOutUri, State, GstType

LEMMA UriAside ==
    ASSUME NEW S \in State, NEW uri \in Uris
    PROVE  Aside(S, [S EXCEPT !.gst.uri = uri])
  BY DEF Aside, State, GstType

LEMMA ThrottleAside ==
    ASSUME NEW S \in State
    PROVE  Aside(S, Throttle(S)) /\ ~Throttle(S).threads.boosted
<1>1. S.threads \in ThreadsType
  BY DEF State
<1>2. Throttle(S) = [S EXCEPT !.threads = BT!Throttle(S.threads)]
  BY DEF Throttle
<1>3. QED
  BY <1>1, <1>2, ThrottleThreads DEF Aside, State, CalmOk

\* boost() is called in the absence of buffering, and not for Internet radio.
LEMMA BoostAside ==
    ASSUME NEW S \in State, NEW allowed,
           allowed => ~IsBuffering(S.pl.buf) /\ (S.pl.cur # None => S.item[S.pl.cur].realtime)
    PROVE  Aside(S, Boost(S, allowed))
<1>1. S.threads \in ThreadsType
  BY DEF State
<1>2. CASE ~allowed
  BY <1>2, LeadsSelf DEF Boost
<1>3. CASE allowed
  <2>1. Boost(S, allowed) = [S EXCEPT !.threads = BT!Boost(S.threads)]
    BY <1>3 DEF Boost
  <2>2. QED
    BY <1>1, <1>3, <2>1, BoostThreads DEF Aside, State, CalmOk
<1>4. QED
  BY <1>2, <1>3

LEMMA RebuildPlaybinAside ==
    ASSUME NEW S \in State
    PROVE  Aside(S, RebuildPlaybin(S)) /\ ~RebuildPlaybin(S).threads.boosted
<1> DEFINE T == Throttle(S)
<1>1. Aside(S, T) /\ ~T.threads.boosted
  BY ThrottleAside
<1>2. T \in State
  BY <1>1 DEF Aside
<1>3. GstSetState(NewPipeline, "READY") \in GstType
  BY NewPipelineType, GstSetStateType DEF GstStates
<1> HIDE DEF T
<1>4. Aside(T, [T EXCEPT !.gst = GstSetState(NewPipeline, "READY")])
  BY <1>2, <1>3, GstAside
<1>5. RebuildPlaybin(S) = [T EXCEPT !.gst = GstSetState(NewPipeline, "READY")]
  BY DEF RebuildPlaybin, T
<1>6. RebuildPlaybin(S).threads = T.threads
  BY <1>2, <1>5 DEF State
<1>7. QED
  BY <1>1, <1>4, <1>5, <1>6, AsideTrans

-----------------------------------------------------------------------------
(* Buffering *)

LEMMA BufAside ==
    ASSUME NEW S \in State, NEW b \in BufType,
           CalmOk(S.pl.cur, S.item, S.pl.buf, S.threads) =>
               ~BufferFilled(b) /\ (S.threads.boosted => ~IsBuffering(b))
    PROVE  Aside(S, [S EXCEPT !.pl.buf = b])
  BY DEF Aside, State, PlType, CalmOk

LEMMA NotBufferingAside ==
    ASSUME NEW S \in State
    PROVE  Aside(S, [S EXCEPT !.pl.buf = NotBuffering])
<1>1. NotBuffering \in BufType /\ ~BufferFilled(NotBuffering) /\ ~IsBuffering(NotBuffering)
  BY DEF NotBuffering, BufType, BufferingStates, Levels, BufferFilled, IsBuffering
<1>2. QED
  BY <1>1, BufAside

\* emit_stopped(), emit_stopped_with_error()
LEMMA StoppingAside ==
    ASSUME NEW S \in State
    PROVE  Aside(S, Stopping(S)) /\ ~Stopping(S).threads.boosted
<1> DEFINE T == [S EXCEPT !.ctl.status = "STOPPED"]
           U == [T EXCEPT !.pl.buf = NotBuffering]
           V == Throttle(U)
<1>1. Aside(S, T)
  BY StatusAside DEF Statuses
<1>2. T \in State
  BY <1>1 DEF Aside
<1> HIDE DEF T
<1>3. Aside(T, U)
  BY <1>2, NotBufferingAside
<1>4. U \in State
  BY <1>3 DEF Aside
<1> HIDE DEF U
<1>5. Aside(U, V) /\ ~V.threads.boosted
  BY <1>4, ThrottleAside
<1>6. V \in State
  BY <1>5 DEF Aside
<1> HIDE DEF V
<1>7. Aside(V, WipeOutUri(V)) /\ WipeOutUri(V).threads = V.threads
  BY <1>6, WipeOutUriAside DEF WipeOutUri, State
<1>8. Stopping(S) = WipeOutUri(V)
  BY DEF Stopping, T, U, V
<1>9. QED
  BY <1>1, <1>3, <1>5, <1>7, <1>8, AsideTrans

\* start_buffering() comes with throttle().
LEMMA BeginBuffering ==
    ASSUME NEW S \in State, NEW st \in BufferingStates, S.pl.buf.level = "UNDERRUN"
    PROVE  Aside(S, [Throttle(S) EXCEPT !.pl.buf = StartBuffering(@, st)])
<1> DEFINE T == Throttle(S)
<1>1. Aside(S, T) /\ ~T.threads.boosted
  BY ThrottleAside
<1>2. T \in State /\ T.pl = S.pl
  BY <1>1 DEF Aside, Throttle, State
<1>3. T.pl.buf \in BufType
  BY <1>2 DEF State, PlType
<1>4. StartBuffering(T.pl.buf, st) \in BufType /\ StartBuffering(T.pl.buf, st).level = "UNDERRUN"
  BY <1>2, <1>3 DEF StartBuffering, BufType
<1> HIDE DEF T
<1>5. Aside(T, [T EXCEPT !.pl.buf = StartBuffering(T.pl.buf, st)])
  BY <1>1, <1>2, <1>4, BufAside DEF BufferFilled
<1>6. QED
  BY <1>1, <1>5, AsideTrans DEF T

LEMMA HandleBufferUnderrunAside ==
    ASSUME NEW S \in State, S.pl.buf.level = "UNDERRUN"
    PROVE  Aside(S, HandleBufferUnderrun(S))
<1> DEFINE blame == IF S.ctl.status = S.gst.target THEN S ELSE Bug(S, "SUPPOSED_STATUS")
           begin(T, st) == [Throttle(T) EXCEPT !.pl.buf = StartBuffering(@, st)]
           paused == SetStreamState(blame, "PAUSED")
<1>1. {"PAUSED_FOR_BUFFERING", "PAUSED_PENDING", "PAUSED_PIGGYBACK"} \subseteq BufferingStates
  BY DEF BufferingStates
<1>2. Aside(S, blame) /\ blame.pl = S.pl
  BY BugAside, LeadsSelf DEF BugNames, Bug, State
<1>3. blame \in State
  BY <1>2 DEF Aside
<1> HIDE DEF blame
<1>4. Aside(blame, paused) /\ paused.pl = blame.pl
  BY <1>3, SetStreamStateAside DEF GstStates, SetStreamState, State
<1>5. paused \in State
  BY <1>4 DEF Aside
<1> HIDE DEF paused
<1>6. \A st \in BufferingStates : Aside(S, begin(blame, st))
  BY <1>2, <1>3, BeginBuffering, AsideTrans
<1>7. \A st \in BufferingStates : Aside(S, begin(paused, st))
  BY <1>2, <1>4, <1>5, BeginBuffering, AsideTrans
<1>8. Aside(S, Bug(S, "UNREACHABLE"))
  BY BugAside DEF BugNames
<1>9. HandleBufferUnderrun(S) \in
        {S, begin(blame, "PAUSED_FOR_BUFFERING"), begin(paused, "PAUSED_PENDING"),
         begin(blame, "PAUSED_PIGGYBACK"), begin(blame, "PAUSED_PENDING"),
         Bug(S, "UNREACHABLE")}
  BY DEF HandleBufferUnderrun, blame, paused
<1> HIDE DEF begin
<1>10. QED
  BY <1>1, <1>6, <1>7, <1>8, <1>9, LeadsSelf

\* A new level; the caller has to look if it is full.
LEMMA LevelType ==
    ASSUME NEW b \in BufType, NEW percent
    PROVE  /\ SetBufferLevel(b, percent) \in BufType
           /\ SetBufferLevel(b, percent).level = LevelOf(b, percent)
           /\ IsBuffering(SetBufferLevel(b, percent)) <=> IsBuffering(b)
           /\ LevelOf(b, "0") = "UNDERRUN"
  BY DEF SetBufferLevel, LevelOf, BufType, Levels, IsBuffering

LEMMA DoEncourageBufferingAside ==
    ASSUME NEW S \in State
    PROVE  Aside(S, DoEncourageBuffering(S))
<1> DEFINE b == SetBufferLevel(S.pl.buf, "0")
           T == [S EXCEPT !.pl.buf = b]
<1>1. S.pl.buf \in BufType
  BY DEF State, PlType
<1>2. b \in BufType /\ b.level = "UNDERRUN" /\ (IsBuffering(b) <=> IsBuffering(S.pl.buf))
  BY <1>1, LevelType
<1>3. ~BufferFilled(b)
  BY <1>2 DEF BufferFilled
<1> HIDE DEF b
<1>4. Aside(S, T)
  BY <1>2, <1>3, BufAside DEF CalmOk
<1>5. T \in State /\ T.pl.buf = b
  BY <1>4 DEF Aside, State, PlType
<1> HIDE DEF T
<1>6. Aside(S, HandleBufferUnderrun(T))
  BY <1>2, <1>4, <1>5, HandleBufferUnderrunAside, AsideTrans
<1>7. DoEncourageBuffering(S) \in {Crash(S), HandleBufferUnderrun(T), S}
  BY DEF DoEncourageBuffering, T, b
<1>8. QED
  BY <1>6, <1>7, CrashAside, LeadsSelf

\* Whenever level or state have changed such that the buffer may be full.
LEMMA LeaveAside ==
    ASSUME NEW S \in State, NEW b \in BufType, IsBuffering(b) <=> IsBuffering(S.pl.buf)
    PROVE  Aside(S, TryLeaveBufferingState([S EXCEPT !.pl.buf = b]))
<1> DEFINE U == [S EXCEPT !.pl.buf = b]
<1>1. U.pl.buf = b /\ U.pl.cur = S.pl.cur /\ U.item = S.item /\ U.ctl = S.ctl /\ U.threads = S.threads
  BY DEF State, PlType
<1>2. U \in State
  BY DEF State, PlType
<1>3. CASE ~BufferFilled(b)
  <2>1. TryLeaveBufferingState(U) = U
    BY <1>1, <1>3 DEF TryLeaveBufferingState
  <2>2. QED
    BY <1>3, <2>1, BufAside DEF CalmOk
<1>4. CASE BufferFilled(b) /\ S.pl.cur = None
  <2>1. TryLeaveBufferingState(U) = Crash(U)
    BY <1>1, <1>4 DEF TryLeaveBufferingState
  <2>2. QED
    BY <1>2, <2>1, CrashAside DEF Aside, State, PlType
<1>5. CASE BufferFilled(b) /\ S.pl.cur # None
  <2> DEFINE c == LeaveBuffering(b)
             V == [S EXCEPT !.pl.buf = c]
             W == Boost(V, S.item[S.pl.cur].realtime)
  <2>1. c \in BufType /\ ~BufferFilled(c) /\ ~IsBuffering(c)
    BY <1>5 DEF LeaveBuffering, BufType, BufferFilled, IsBuffering, BufferingStates
  <2> HIDE DEF c
  <2>2. Aside(S, V)
    BY <2>1, BufAside
  <2>3. V \in State /\ V.pl.buf = c /\ V.pl.cur = S.pl.cur /\ V.item = S.item /\ V.ctl = S.ctl
    BY <2>2 DEF Aside, State, PlType
  <2> HIDE DEF V
  <2>4. Aside(V, W)
    BY <2>1, <2>3, BoostAside
  <2>5. W \in State
    BY <2>4 DEF Aside
  <2>6. Aside(W, SetStreamState(W, "PLAYING"))
    BY <2>5, SetStreamStateAside DEF GstStates
  <2>7. V = [U EXCEPT !.pl.buf = LeaveBuffering(@)]
    BY DEF U, V, c, State, PlType
  <2>8. TryLeaveBufferingState(U) \in {SetStreamState(W, "PLAYING"), W}
    BY <1>1, <1>5, <2>7 DEF TryLeaveBufferingState
  <2> HIDE DEF W
  <2>9. QED
    BY <2>2, <2>4, <2>6, <2>8, AsideTrans
<1>6. QED
  BY <1>3, <1>4, <1>5

LEMMA EnterPauseAside ==
    ASSUME NEW S \in State
    PROVE  Aside(S, EnterPause(S))
<1> DEFINE b == EnteredPause(S.pl.buf)
<1>1. S.pl.buf \in BufType
  BY DEF State, PlType
<1>2. b \in BufType /\ (IsBuffering(b) <=> IsBuffering(S.pl.buf))
  BY <1>1 DEF EnteredPause, BufType, BufferingStates, IsBuffering
<1> HIDE DEF b
<1>3. Aside(S, TryLeaveBufferingState([S EXCEPT !.pl.buf = b]))
  BY <1>2, LeaveAside
<1>4. QED
  BY <1>3, LeadsSelf DEF EnterPause, b

LEMMA HandleBufferingAside ==
    ASSUME NEW S \in State, NEW percent
    PROVE  Aside(S, HandleBuffering(S, percent))
<1> DEFINE b == SetBufferLevel(S.pl.buf, percent)
           T == [S EXCEPT !.pl.buf = b]
           change == LevelChange(S.pl.buf, percent)
<1>1. S.pl.buf \in BufType
  BY DEF State, PlType
<1>2. b \in BufType /\ (IsBuffering(b) <=> IsBuffering(S.pl.buf)) /\ b.level = LevelOf(S.pl.buf, percent)
  BY <1>1, LevelType
<1>3. change = "UNDERRUN_DETECTED" => b.level = "UNDERRUN"
  BY <1>2 DEF LevelChange
<1>4. change # "FULL_DETECTED" /\ BufferFilled(b) => BufferFilled(S.pl.buf)
  BY <1>1 DEF LevelChange, SetBufferLevel, BufferFilled, BufType
<1> HIDE DEF b, change
<1>5. T \in State /\ T.pl.buf = b
  BY <1>2 DEF State, PlType
<1>6. change # "FULL_DETECTED" => Aside(S, T)
  BY <1>2, <1>4, BufAside DEF CalmOk
<1>7. Aside(S, TryLeaveBufferingState(T))
  BY <1>2, LeaveAside
<1> HIDE DEF T
<1>8. change = "UNDERRUN_DETECTED" => Aside(S, HandleBufferUnderrun(T))
  BY <1>3, <1>5, <1>6, HandleBufferUnderrunAside, AsideTrans
<1>9. CASE S.ctl.status = "STOPPED"
  BY <1>9, LeadsSelf DEF HandleBuffering
<1>10. CASE S.ctl.status # "STOPPED"
  BY <1>6, <1>7, <1>8, <1>10 DEF HandleBuffering, T, b, change
<1>11. QED
  BY <1>9, <1>10

-----------------------------------------------------------------------------
(* The URL FIFO *)

\* A part of the queue is as good as the queue.
LEMMA PartOfQueue ==
    ASSUME NEW q \in Seq(Streams), NEW r \in Seq(Streams), NEW k \in Nat, Len(r) + k <= Len(q),
           \A n \in 1..Len(r) : r[n] = q[k + n]
    PROVE  /\ Elems(r) \subseteq Elems(q)
           /\ Distinct(q) => Distinct(r)
           /\ \A it : ItemsOk(q, it) => ItemsOk(r, it)
<1>1. Len(q) \in Nat /\ Len(r) \in Nat
  OBVIOUS
<1>2. \A n \in 1..Len(r) : k + n \in 1..Len(q) /\ (k + n = 1 => n = 1)
  BY <1>1
<1>3. Elems(r) \subseteq Elems(q)
  BY <1>2 DEF Elems
<1>4. Distinct(q) => Distinct(r)
  <2>1. \A m, n \in 1..Len(r) : k + m = k + n => m = n
    BY <1>1
  <2>2. QED
    BY <1>2, <2>1 DEF Distinct
<1>5. \A it : ItemsOk(q, it) => ItemsOk(r, it)
  BY <1>2 DEF ItemsOk
<1>6. QED
  BY <1>3, <1>4, <1>5

\* Cutting the queue into two.
LEMMA CutQueue ==
    ASSUME NEW q \in Seq(Streams), NEW n \in 0..Len(q)
    PROVE  /\ SubSeq(q, 1, n) \in Seq(Streams)
           /\ SubSeq(q, n + 1, Len(q)) \in Seq(Streams)
           /\ Elems(q) = Elems(SubSeq(q, 1, n)) \cup Elems(SubSeq(q, n + 1, Len(q)))
           /\ Distinct(q) => /\ Distinct(SubSeq(q, 1, n))
                             /\ Distinct(SubSeq(q, n + 1, Len(q)))
                             /\ Elems(SubSeq(q, 1, n)) \cap Elems(SubSeq(q, n + 1, Len(q))) = {}
           /\ \A it : ItemsOk(q, it) => /\ ItemsOk(SubSeq(q, 1, n), it)
                                        /\ ItemsOk(SubSeq(q, n + 1, Len(q)), it)
<1> DEFINE a == SubSeq(q, 1, n)
           b == SubSeq(q, n + 1, Len(q))
<1>1. /\ a \in Seq(Streams) /\ Len(a) = n /\ \A i \in 1..n : a[i] = q[i]
      /\ b \in Seq(Streams) /\ Len(b) = Len(q) - n
      /\ \A i \in 1..(Len(q) - n) : b[i] = q[n + i]
      /\ Elems(q) = Elems(a) \cup Elems(b)
  BY ElemsCut
<1>2. Len(q) \in Nat /\ n \in Nat /\ n <= Len(q)
  OBVIOUS
<1> HIDE DEF a, b
<1>3. /\ Distinct(q) => Distinct(a)
      /\ \A it : ItemsOk(q, it) => ItemsOk(a, it)
  <2>1. \A i \in 1..Len(a) : a[i] = q[0 + i]
    BY <1>1, <1>2
  <2>2. Len(a) + 0 <= Len(q) /\ 0 \in Nat
    BY <1>1, <1>2
  <2>3. QED
    BY <1>1, <2>1, <2>2, PartOfQueue
<1>4. /\ Distinct(q) => Distinct(b)
      /\ \A it : ItemsOk(q, it) => ItemsOk(b, it)
  <2>1. Len(b) + n <= Len(q)
    BY <1>1, <1>2
  <2>2. QED
    BY <1>1, <1>2, <2>1, PartOfQueue
<1>5. ASSUME Distinct(q) PROVE Elems(a) \cap Elems(b) = {}
  <2>1. SUFFICES ASSUME NEW i \in 1..Len(a), NEW j \in 1..Len(b), a[i] = b[j]
                 PROVE  FALSE
    BY DEF Elems
  <2>2. i \in 1..Len(q) /\ n + j \in 1..Len(q) /\ i # n + j
    BY <1>1, <1>2
  <2>3. q[i] = q[n + j]
    BY <1>1, <1>2, <2>1
  <2>4. QED
    BY <1>5, <2>2, <2>3 DEF Distinct
<1>6. QED
  BY <1>1, <1>3, <1>4, <1>5 DEF a, b

\* The first stream of the queue, and the others.
LEMMA HeadOfQueue ==
    ASSUME NEW q \in Seq(Streams), q # <<>>
    PROVE  /\ q[1] \in Streams /\ q[1] # None /\ 1 \in 1..Len(q)
           /\ Tail(q) \in Seq(Streams)
           /\ Elems(q) = Elems(Tail(q)) \cup {q[1]}
           /\ Distinct(q) => Distinct(Tail(q)) /\ q[1] \notin Elems(Tail(q))
           /\ \A it : ItemsOk(q, it) => ItemsOk(Tail(q), it) /\ it[q[1]].realtime
<1>1. /\ 1 \in 0..Len(q) /\ Tail(q) = SubSeq(q, 1 + 1, Len(q))
      /\ Elems(SubSeq(q, 1, 1)) = {q[1]} /\ q[1] \in Streams
  BY HeadCut
<1>2. 1 \in 1..Len(q) /\ q[1] # None
  BY <1>1, StreamsAssumption DEF None
<1>3. \A it : ItemsOk(q, it) => it[q[1]].realtime
  BY <1>2 DEF ItemsOk
<1>4. /\ SubSeq(q, 1 + 1, Len(q)) \in Seq(Streams)
      /\ Elems(q) = Elems(SubSeq(q, 1, 1)) \cup Elems(SubSeq(q, 1 + 1, Len(q)))
      /\ Distinct(q) => /\ Distinct(SubSeq(q, 1 + 1, Len(q)))
                        /\ Elems(SubSeq(q, 1, 1)) \cap Elems(SubSeq(q, 1 + 1, Len(q))) = {}
      /\ \A it : ItemsOk(q, it) => ItemsOk(SubSeq(q, 1 + 1, Len(q)), it)
  BY <1>1, CutQueue, Zenon
<1> DEFINE t == SubSeq(q, 1 + 1, Len(q))
           h == SubSeq(q, 1, 1)
<1>5. Tail(q) = t /\ Elems(h) = {q[1]} /\ q[1] \in Streams
  BY <1>1
<1> HIDE DEF t, h
<1>6. QED
  BY <1>2, <1>3, <1>4, <1>5 DEF t, h

\* The elements of the containers of a FIFO.
LEMMA FifoTypes ==
    ASSUME NEW S \in State
    PROVE  /\ S.fifo \in FifoType(Streams)
           /\ S.fifo.queue \in Seq(Streams) /\ S.fifo.removed \in Seq(Streams)
           /\ S.fifo.dropped \subseteq Streams
           /\ S.pl.cur \in Streams \cup {None}
           /\ Elems(S.fifo.queue) \subseteq Streams /\ None \notin Elems(S.fifo.queue)
<1>1. /\ S.fifo \in FifoType(Streams)
      /\ S.fifo.queue \in Seq(Streams) /\ S.fifo.removed \in Seq(Streams)
      /\ S.fifo.dropped \subseteq Streams
      /\ S.pl.cur \in Streams \cup {None}
  BY DEF State, FifoType, PlType
<1>2. Elems(S.fifo.queue) \subseteq Streams
  BY <1>1 DEF Elems
<1>3. QED
  BY <1>1, <1>2, StreamsAssumption DEF None

\* Fewer streams in the queue, none of them among those to be reported.
LEMMA FewerLeads ==
    ASSUME NEW S \in State, NEW f \in FifoType(Streams),
           Elems(f.queue) \subseteq Elems(S.fifo.queue),
           QueueOk(S.pl.cur, S.fifo, S.client.owed) =>
               Distinct(f.queue) /\ Elems(f.queue) \cap DroppedIds(f) = {},
           ItemsOk(S.fifo.queue, S.item) => ItemsOk(f.queue, S.item)
    PROVE  Leads(S, [S EXCEPT !.fifo = f])
<1> DEFINE T == [S EXCEPT !.fifo = f]
<1>1. T \in State
  BY DEF State
<1>2. /\ T.pl = S.pl /\ T.fifo = f /\ T.client = S.client /\ T.item = S.item
      /\ T.calls = S.calls /\ T.threads = S.threads /\ T.bug = S.bug
  BY DEF State
<1> HIDE DEF T
<1>3. ASSUME Good(S) PROVE Good(T)
  <2>1. QueueOk(T.pl.cur, T.fifo, T.client.owed)
    BY <1>2, <1>3 DEF Good, QueueOk
  <2>2. CallsOk(T.pl.cur, T.fifo.queue, T.item, T.calls)
    BY <1>2, <1>3 DEF Good, CallsOk
  <2>3. QED
    BY <1>2, <1>3, <2>1, <2>2 DEF Good
<1>4. QED
  BY <1>1, <1>2, <1>3 DEF Leads, T

\* Queue::clear()
LEMMA ClearLeads ==
    ASSUME NEW S \in State, NEW keep \in Nat
    PROVE  Leads(S, [S EXCEPT !.fifo = Clear(@, keep)])
<1> DEFINE f == S.fifo
           g == Clear(f, keep)
<1>1. f \in FifoType(Streams) /\ f.queue \in Seq(Streams) /\ f.removed \in Seq(Streams)
  BY FifoTypes
<1>2. g \in FifoType(Streams)
  BY <1>1, ClearCuts
<1>3. PICK n \in 0..Len(f.queue) : CutBehind(f, g, n)
  BY <1>1, ClearCuts
<1> DEFINE a == SubSeq(f.queue, 1, n)
           b == SubSeq(f.queue, n + 1, Len(f.queue))
<1>4. /\ a \in Seq(Streams) /\ b \in Seq(Streams) /\ Elems(f.queue) = Elems(a) \cup Elems(b)
      /\ Distinct(f.queue) => Distinct(a) /\ Elems(a) \cap Elems(b) = {}
      /\ \A it : ItemsOk(f.queue, it) => ItemsOk(a, it)
  BY <1>1, CutQueue
<1>5. g.queue = a /\ g.removed = f.removed \o b /\ g.dropped = f.dropped
  BY <1>3 DEF CutBehind
<1> HIDE DEF a, b, f, g
<1>6. DroppedIds(g) = DroppedIds(f) \cup Elems(b)
  BY <1>1, <1>4, <1>5, ElemsConcat DEF DroppedIds
<1>7. QueueOk(S.pl.cur, f, S.client.owed) => Distinct(g.queue) /\ Elems(g.queue) \cap DroppedIds(g) = {}
  BY <1>4, <1>5, <1>6 DEF QueueOk
<1>8. QED
  BY <1>2, <1>4, <1>5, <1>7, FewerLeads DEF f, g

\* Queue::pop()
LEMMA PopLeads ==
    ASSUME NEW S \in State
    PROVE  Leads(S, [S EXCEPT !.fifo = Pop(@)])
<1> DEFINE f == S.fifo
           g == Pop(f)
<1>1. f \in FifoType(Streams) /\ f.queue \in Seq(Streams)
  BY FifoTypes
<1>2. CASE f.queue = <<>>
  <2>1. g = f
    BY <1>2 DEF Pop, IsEmpty
  <2>2. QED
    BY <1>1, <2>1, FewerLeads DEF QueueOk
<1>3. CASE f.queue # <<>>
  <2>1. g = [f EXCEPT !.queue = Tail(f.queue)]
    BY <1>3 DEF Pop, IsEmpty
  <2>2. Tail(f.queue) \in Seq(Streams)
    BY <1>1, <1>3, HeadOfQueue
  <2>3. g \in FifoType(Streams) /\ g.queue = Tail(f.queue) /\ DroppedIds(g) = DroppedIds(f)
    BY <1>1, <2>1, <2>2 DEF FifoType, DroppedIds
  <2> HIDE DEF f, g
  <2>4. Elems(g.queue) \subseteq Elems(f.queue)
    BY <1>1, <1>3, <2>3, HeadOfQueue
  <2>5. QueueOk(S.pl.cur, f, S.client.owed) => Distinct(g.queue) /\ Elems(g.queue) \cap DroppedIds(g) = {}
    BY <1>1, <1>3, <2>3, <2>4, HeadOfQueue DEF QueueOk
  <2>6. QED
    BY <1>1, <1>3, <2>3, <2>4, <2>5, HeadOfQueue, FewerLeads DEF f, g
<1>4. QED
  BY <1>2, <1>3

\* Queue::pop_drop()
LEMMA PopDropLeads ==
    ASSUME NEW S \in State
    PROVE  Leads(S, [S EXCEPT !.fifo = PopDrop(@)])
<1> DEFINE f == S.fifo
           g == PopDrop(f)
<1>1. f \in FifoType(Streams) /\ f.queue \in Seq(Streams) /\ f.removed \in Seq(Streams)
  BY FifoTypes
<1>2. CASE f.queue = <<>>
  <2>1. g = f
    BY <1>2 DEF PopDrop, IsEmpty
  <2>2. QED
    BY <1>1, <2>1, FewerLeads DEF QueueOk
<1>3. CASE f.queue # <<>>
  <2>1. g = [f EXCEPT !.queue = Tail(f.queue), !.removed = Append(f.removed, f.queue[1])]
    BY <1>3 DEF PopDrop, IsEmpty, Peek
  <2>2. Tail(f.queue) \in Seq(Streams) /\ f.queue[1] \in Streams
    BY <1>1, <1>3, HeadOfQueue
  <2> DEFINE r == Append(f.removed, f.queue[1])
             t == Tail(f.queue)
  <2>3. r \in Seq(Streams)
    BY <1>1, <2>2
  <2> HIDE DEF r, t
  <2>4. g \in FifoType(Streams) /\ g.queue = t /\ g.dropped = f.dropped /\ g.removed = r
    BY <1>1, <2>1, <2>2, <2>3 DEF FifoType, r, t
  <2> USE DEF r, t
  <2>5. DroppedIds(g) = DroppedIds(f) \cup {f.queue[1]}
    BY <1>1, <2>2, <2>4, ElemsAppend DEF DroppedIds
  <2> HIDE DEF f, g
  <2>6. Elems(g.queue) \subseteq Elems(f.queue)
    BY <1>1, <1>3, <2>4, HeadOfQueue
  <2>7. QueueOk(S.pl.cur, f, S.client.owed) => Distinct(g.queue) /\ Elems(g.queue) \cap DroppedIds(g) = {}
    BY <1>1, <1>3, <2>4, <2>5, <2>6, HeadOfQueue DEF QueueOk
  <2>8. QED
    BY <1>1, <1>3, <2>4, <2>6, <2>7, HeadOfQueue, FewerLeads DEF f, g
<1>4. QED
  BY <1>2, <1>3

\* Queue::mark_as_dropped() for a stream outside of the queue.
LEMMA MarkLeads ==
    ASSUME NEW S \in State, S.pl.cur # None
    PROVE  Leads(S, [S EXCEPT !.fifo = MarkAsDropped(@, S.pl.cur)])
<1> DEFINE f == S.fifo
           g == MarkAsDropped(f, S.pl.cur)
<1>1. f \in FifoType(Streams) /\ S.pl.cur \in Streams
  BY FifoTypes
<1>2. g \in FifoType(Streams) /\ g.queue = f.queue /\ DroppedIds(g) = DroppedIds(f) \cup {S.pl.cur}
  BY <1>1 DEF MarkAsDropped, FifoType, DroppedIds
<1> HIDE DEF g
<1>3. QueueOk(S.pl.cur, f, S.client.owed) => Distinct(g.queue) /\ Elems(g.queue) \cap DroppedIds(g) = {}
  BY <1>2 DEF QueueOk
<1>4. QED
  BY <1>2, <1>3, FewerLeads DEF g

-----------------------------------------------------------------------------
(* The current stream, and what is told about it *)

LEMMA NoCurrentLeads ==
    ASSUME NEW S \in State, NEW T \in State,
           T.pl.cur = None, T.pl.buf = S.pl.buf, T.fifo = S.fifo, T.item = S.item,
           T.calls = S.calls, T.threads = S.threads, T.client = S.client, T.bug = S.bug
    PROVE  Leads(S, T)
<1>1. None \notin Elems(S.fifo.queue)
  BY FifoTypes
<1>2. ASSUME Good(S) PROVE Good(T)
  BY <1>1, <1>2 DEF Good, QueueOk, CallsOk, CalmOk
<1>3. QED
  BY <1>2 DEF Leads

LEMMA ForgetCurrentLeads ==
    ASSUME NEW S \in State
    PROVE  Leads(S, [S EXCEPT !.pl.cur = None])
<1> DEFINE T == [S EXCEPT !.pl.cur = None]
<1>1. /\ T \in State /\ T.pl.cur = None /\ T.pl.buf = S.pl.buf /\ T.fifo = S.fifo
      /\ T.item = S.item /\ T.calls = S.calls /\ T.threads = S.threads
      /\ T.client = S.client /\ T.bug = S.bug
  BY DEF State, PlType
<1> HIDE DEF T
<1>2. QED
  BY <1>1, NoCurrentLeads DEF T

LEMMA PopToCurrentLeads ==
    ASSUME NEW S \in State
    PROVE  /\ Leads(S, PopToCurrent(S))
           /\ PopToCurrent(S).item = S.item
           /\ S.fifo.queue # <<>> => PopToCurrent(S).pl.cur = Peek(S.fifo)
<1>1. CASE S.fifo.queue = <<>>
  BY <1>1, LeadsSelf DEF PopToCurrent, IsEmpty
<1>2. CASE S.fifo.queue # <<>>
  <2> DEFINE q == S.fifo.queue
             U == [S EXCEPT !.fifo = Pop(@)]
             T == [U EXCEPT !.pl.cur = q[1]]
  <2>1. /\ q \in Seq(Streams) /\ q[1] \in Streams /\ q[1] # None
        /\ Elems(q) = Elems(Tail(q)) \cup {q[1]}
        /\ Distinct(q) => q[1] \notin Elems(Tail(q))
        /\ \A it : ItemsOk(q, it) => it[q[1]].realtime
    BY <1>2, FifoTypes, HeadOfQueue
  <2>2. PopToCurrent(S) = T
    BY <1>2 DEF PopToCurrent, IsEmpty, Peek, State
  <2>3. Leads(S, U)
    BY PopLeads
  <2>4. /\ U \in State /\ U.pl = S.pl /\ U.item = S.item /\ U.calls = S.calls
        /\ U.client = S.client /\ U.threads = S.threads /\ U.bug = S.bug
    BY <2>3 DEF Leads, State
  <2>5. U.fifo.queue = Tail(q) /\ DroppedIds(U.fifo) = DroppedIds(S.fifo)
    BY <1>2 DEF Pop, IsEmpty, DroppedIds, State, FifoType
  <2> HIDE DEF U, q
  <2>6. /\ T \in State /\ T.pl.cur = q[1] /\ T.pl.buf = U.pl.buf /\ T.fifo = U.fifo
        /\ T.item = U.item /\ T.calls = U.calls /\ T.client = U.client
        /\ T.threads = U.threads /\ T.bug = U.bug
    BY <2>1, <2>4 DEF State, PlType
  <2> HIDE DEF T
  <2>7. ASSUME Good(S) PROVE Died(T) \/ Good(T)
    <3>1. Good(U) \/ Died(U)
      BY <2>3, <2>7 DEF Leads
    <3>2. CASE Died(U)
      BY <2>6, <3>2 DEF Died
    <3>3. CASE Good(U)
      <4>1. QueueOk(T.pl.cur, T.fifo, T.client.owed)
        BY <2>1, <2>5, <2>6, <2>7, <3>3 DEF Good, QueueOk, q
      <4>2. ItemsOk(T.fifo.queue, T.item)
        BY <2>6, <3>3 DEF Good
      <4>3. CallsOk(T.pl.cur, T.fifo.queue, T.item, T.calls)
        BY <2>1, <2>4, <2>5, <2>6, <2>7 DEF Good, CallsOk, q
      <4>4. CalmOk(T.pl.cur, T.item, T.pl.buf, T.threads)
        BY <2>1, <2>4, <2>6, <2>7, <3>3 DEF Good, CalmOk, q
      <4>5. QED
        BY <4>1, <4>2, <4>3, <4>4 DEF Good
    <3>4. QED
      BY <3>1, <3>2, <3>3
  <2>8. Leads(S, T)
    BY <2>3, <2>4, <2>6, <2>7 DEF Leads
  <2>9. QED
    BY <2>2, <2>4, <2>6, <2>8 DEF Peek, q
<1>3. QED
  BY <1>1, <1>2

\* No signal tells about streams which are still in the queue.
LEMMA TellLeads ==
    ASSUME NEW S \in State, NEW streams, Good(S) => streams \cap Elems(S.fifo.queue) = {}
    PROVE  /\ Leads(S, Tell(S, streams))
           /\ Tell(S, streams).pl = S.pl /\ Tell(S, streams).item = S.item
           /\ Tell(S, streams).fifo = TakeDropped(S.fifo)
           /\ Tell(S, streams).fifo.queue = S.fifo.queue
<1> DEFINE T == Tell(S, streams)
<1>1. S.fifo \in FifoType(Streams) /\ S.client \in ClientType
  BY DEF State
<1>2. /\ TakeDropped(S.fifo) \in FifoType(Streams)
      /\ TakeDropped(S.fifo).queue = S.fifo.queue
      /\ DroppedIds(TakeDropped(S.fifo)) = {}
  <2>1. <<>> \in Seq(Streams) /\ Elems(<<>>) = {}
    BY DEF Elems
  <2>2. QED
    BY <1>1, <2>1 DEF TakeDropped, FifoType, DroppedIds
<1>3. /\ T \in State /\ T.pl = S.pl /\ T.item = S.item /\ T.calls = S.calls
      /\ T.threads = S.threads /\ T.bug = S.bug /\ T.fifo = TakeDropped(S.fifo)
      /\ T.client.owed = S.client.owed \ (streams \cup DroppedIds(S.fifo))
  BY <1>1, <1>2 DEF Tell, State, ClientType
<1> HIDE DEF T
<1>4. ASSUME Good(S) PROVE Good(T)
  <2>1. QueueOk(T.pl.cur, T.fifo, T.client.owed)
    BY <1>2, <1>3, <1>4 DEF Good, QueueOk
  <2>2. QED
    BY <1>2, <1>3, <1>4, <2>1 DEF Good
<1>5. QED
  BY <1>2, <1>3, <1>4 DEF Leads, T

LEMMA ToldLeads ==
    ASSUME NEW S \in State, NEW told \in Streams \cup {None}
    PROVE  Leads(S, [S EXCEPT !.client.told = told])
<1> DEFINE T == [S EXCEPT !.client.told = told]
<1>1. /\ T \in State /\ T.pl = S.pl /\ T.item = S.item /\ T.calls = S.calls
      /\ T.threads = S.threads /\ T.bug = S.bug /\ T.fifo = S.fifo
      /\ T.client.owed = S.client.owed
  BY DEF State, ClientType
<1> HIDE DEF T
<1>2. QED
  BY <1>1 DEF Leads, Good, T

LEMMA EmitStoppedLeads ==
    ASSUME NEW S \in State
    PROVE  /\ Leads(S, EmitStopped(S))
           /\ EmitStopped(S).pl.cur = S.pl.cur /\ EmitStopped(S).item = S.item
           /\ EmitStopped(S).fifo.queue = S.fifo.queue
<1> DEFINE T == Stopping(S)
           U == Tell(T, {S.pl.cur})
           V == [U EXCEPT !.client.told = None]
<1>1. Aside(S, T)
  BY StoppingAside
<1>2. T \in State /\ T.pl.cur = S.pl.cur /\ T.item = S.item /\ T.fifo = S.fifo
  BY <1>1 DEF Aside
<1> HIDE DEF T
<1>3. Good(T) => {S.pl.cur} \cap Elems(T.fifo.queue) = {}
  BY <1>2 DEF Good, QueueOk
<1>4. /\ Leads(T, U) /\ U.pl = T.pl /\ U.item = T.item /\ U.fifo.queue = T.fifo.queue
  BY <1>2, <1>3, TellLeads
<1>5. U \in State
  BY <1>4 DEF Leads
<1> HIDE DEF U
<1>6. Leads(U, V) /\ V.pl = U.pl /\ V.item = U.item /\ V.fifo = U.fifo
  BY <1>5, ToldLeads DEF State
<1>7. Leads(S, U) /\ Leads(S, V)
  BY <1>1, <1>4, <1>6, AsideLeads, LeadsTrans
<1>8. EmitStopped(S) \in {U, V}
  BY DEF EmitStopped, U, T
<1> HIDE DEF V
<1>9. QED
  BY <1>2, <1>4, <1>6, <1>7, <1>8

LEMMA EmitStoppedWithErrorGoes ==
    ASSUME NEW S \in State, NEW failed
    PROVE  Goes(S, EmitStoppedWithError(S, failed))
<1> DEFINE T == Stopping(S)
           U == Tell(T, {failed})
           V == [U EXCEPT !.client.told = None]
<1>1. Leads(S, Crash(S))
  BY CrashAside, AsideLeads
<1>2. Aside(S, T)
  BY StoppingAside
<1>3. T \in State /\ T.fifo = S.fifo /\ S.bug \subseteq T.bug
  BY <1>2 DEF Aside
<1> HIDE DEF T
<1>4. T.fifo \in FifoType(Streams) /\ T.client \in ClientType /\ <<>> \in Seq(Streams)
  BY <1>3 DEF State
<1>5. TakeDropped(T.fifo) \in FifoType(Streams) /\ TakeDropped(T.fifo).queue = T.fifo.queue
  BY <1>4 DEF TakeDropped, FifoType
<1>6. U \in State /\ U.fifo.queue = T.fifo.queue /\ U.bug = T.bug
  BY <1>3, <1>4, <1>5 DEF Tell, State, ClientType
<1> HIDE DEF U
<1>7. V \in State /\ V.fifo.queue = T.fifo.queue /\ V.bug = T.bug
  BY <1>6 DEF State, ClientType
<1>8. EmitStoppedWithError(S, failed) \in {Crash(S), V}
  BY DEF EmitStoppedWithError, T, U
<1> HIDE DEF V
<1>9. QED
  BY <1>1, <1>3, <1>7, <1>8, LeadsGoes DEF Goes

\* The failed stream is not in the queue any more.
LEMMA EmitStoppedWithErrorLeads ==
    ASSUME NEW S \in State, NEW failed, Good(S) => failed \notin Elems(S.fifo.queue)
    PROVE  Leads(S, EmitStoppedWithError(S, failed))
<1> DEFINE T == Stopping(S)
           U == Tell(T, {failed})
           V == [U EXCEPT !.client.told = None]
<1>1. CASE ~Good(S)
  BY <1>1, EmitStoppedWithErrorGoes, LeadsGoes
<1>2. CASE Good(S)
  <2>1. Aside(S, T)
    BY StoppingAside
  <2>2. T \in State /\ T.fifo = S.fifo /\ Leads(S, T)
    BY <2>1, AsideLeads DEF Aside
  <2> HIDE DEF T
  <2>3. {failed} \cap Elems(T.fifo.queue) = {}
    BY <1>2, <2>2
  <2>4. Leads(T, U)
    BY <2>2, <2>3, TellLeads
  <2>5. U \in State
    BY <2>4 DEF Leads
  <2> HIDE DEF U
  <2>6. Leads(U, V)
    BY <2>5, ToldLeads
  <2>7. Leads(S, V) /\ Leads(S, Crash(S))
    BY <2>2, <2>4, <2>6, LeadsTrans, CrashAside, AsideLeads
  <2>8. EmitStoppedWithError(S, failed) \in {Crash(S), V}
    BY DEF EmitStoppedWithError, T, U
  <2> HIDE DEF V
  <2>9. QED
    BY <2>7, <2>8
<1>3. QED
  BY <1>1, <1>2

LEMMA EmitNowPlayingLeads ==
    ASSUME NEW S \in State
    PROVE  /\ Leads(S, EmitNowPlaying(S))
           /\ EmitNowPlaying(S).pl = S.pl /\ EmitNowPlaying(S).item = S.item
           /\ EmitNowPlaying(S).fifo.queue = S.fifo.queue
<1> DEFINE U == Tell(S, {S.pl.cur})
           V == [U EXCEPT !.client.told = S.pl.cur]
<1>1. Good(S) => {S.pl.cur} \cap Elems(S.fifo.queue) = {}
  BY DEF Good, QueueOk
<1>2. Leads(S, U) /\ U.pl = S.pl /\ U.item = S.item /\ U.fifo.queue = S.fifo.queue
  BY <1>1, TellLeads
<1>3. U \in State /\ S.pl.cur \in Streams \cup {None}
  BY <1>2, FifoTypes DEF Leads
<1> HIDE DEF U
<1>4. Leads(U, V) /\ V.pl = U.pl /\ V.item = U.item /\ V.fifo = U.fifo
  BY <1>3, ToldLeads DEF State
<1>5. EmitNowPlaying(S) = V
  BY DEF EmitNowPlaying, U
<1> HIDE DEF V
<1>6. QED
  BY <1>2, <1>4, <1>5, LeadsTrans

-----------------------------------------------------------------------------
(* Pipeline construction and error recovery *)

LEMMA NoFailureType == NoFailure \in FailType
  BY DEF NoFailure, FailType

LEMMA RebuildPlaybinForWorkaroundsAside ==
    ASSUME NEW S \in State
    PROVE  Aside(S, RebuildPlaybinForWorkarounds(S))
<1> DEFINE U == RebuildPlaybin(S)
           V == [U EXCEPT !.pl.buf = NotBuffering]
           T == RebuildPlaybinForWorkarounds(S)
<1>1. Aside(S, U)
  BY RebuildPlaybinAside
<1>2. U \in State
  BY <1>1 DEF Aside
<1> HIDE DEF U
<1>3. Aside(U, V)
  BY <1>2, NotBufferingAside
<1>4. V \in State
  BY <1>3 DEF Aside
<1>5. T = [U EXCEPT !.pl.protected = TRUE, !.pl.justStarted = FALSE,
                    !.pl.nextReq = "NOT_REQUESTED", !.pl.buf = NotBuffering, !.fail = NoFailure]
  BY DEF RebuildPlaybinForWorkarounds, U
<1> HIDE DEF T
<1>6. /\ T.ctl = V.ctl /\ T.watcher = V.watcher /\ T.fifo = V.fifo /\ T.item = V.item
      /\ T.gst = V.gst /\ T.calls = V.calls /\ T.idle = V.idle /\ T.skip = V.skip
      /\ T.threads = V.threads /\ T.client = V.client /\ T.bug = V.bug
      /\ T.pl.cur = V.pl.cur /\ T.pl.buf = V.pl.buf
  BY <1>2, <1>5 DEF State, PlType
<1>7. NotBuffering \in BufType
  BY DEF NotBuffering, BufType, BufferingStates, Levels
<1>8. T \in State
  BY <1>2, <1>5, <1>7, NoFailureType DEF State, PlType
<1>9. Aside(V, T)
  BY <1>6, <1>8 DEF Aside
<1>10. QED
  BY <1>1, <1>3, <1>9, AsideTrans DEF T

LEMMA DoStopPipelineAndRecoverFromErrorLeads ==
    ASSUME NEW S \in State
    PROVE  Leads(S, DoStopPipelineAndRecoverFromError(S))
<1> DEFINE U == RebuildPlaybin(S)
           cleared == [U EXCEPT !.fifo = Clear(@, 0)]
           V == IF U.fail.clearFifo THEN cleared ELSE U
           W == EmitStoppedWithError(V, S.pl.cur)
           T == [W EXCEPT !.pl.cur = None, !.pl.justStarted = FALSE,
                          !.pl.nextReq = "NOT_REQUESTED", !.fail = NoFailure]
<1>1. Aside(S, U)
  BY RebuildPlaybinAside
<1>2. U \in State /\ U.pl.cur = S.pl.cur
  BY <1>1 DEF Aside
<1> HIDE DEF U
<1>3. Leads(U, cleared) /\ cleared.pl = U.pl
  BY <1>2, ClearLeads DEF State
<1> HIDE DEF cleared
<1>4. Leads(U, V) /\ V.pl = U.pl
  BY <1>2, <1>3, LeadsSelf
<1>5. V \in State
  BY <1>4 DEF Leads
<1> HIDE DEF V
<1>6. Good(V) => S.pl.cur \notin Elems(V.fifo.queue)
  BY <1>2, <1>4 DEF Good, QueueOk
<1>7. Leads(V, W)
  BY <1>5, <1>6, EmitStoppedWithErrorLeads
<1>8. W \in State
  BY <1>7 DEF Leads
<1> HIDE DEF W
<1>9. /\ T \in State /\ T.pl.cur = None /\ T.pl.buf = W.pl.buf /\ T.fifo = W.fifo
      /\ T.item = W.item /\ T.calls = W.calls /\ T.threads = W.threads
      /\ T.client = W.client /\ T.bug = W.bug
  BY <1>8, NoFailureType DEF State, PlType
<1>10. T = DoStopPipelineAndRecoverFromError(S)
  BY DEF DoStopPipelineAndRecoverFromError, U, V, W, cleared
<1> HIDE DEF T
<1>11. Leads(W, T)
  BY <1>8, <1>9, NoCurrentLeads
<1>12. Leads(S, V)
  BY <1>1, <1>4, AsideLeads, LeadsTrans
<1>13. QED
  BY <1>7, <1>10, <1>11, <1>12, LeadsTrans

LEMMA DoErrorRecoveryLeads ==
    ASSUME NEW S \in State
    PROVE  Leads(S, DoErrorRecovery(S))
<1> DEFINE T == [S EXCEPT !.pl.nextReq = "NOT_REQUESTED", !.fail.clearFifo = FALSE]
<1>1. Aside(S, T)
  BY DEF Aside, State, PlType, FailType
<1>2. T \in State
  BY <1>1 DEF Aside
<1> HIDE DEF T
<1>3. Leads(T, DoStopPipelineAndRecoverFromError(T))
  BY <1>2, DoStopPipelineAndRecoverFromErrorLeads
<1>4. QED
  BY <1>1, <1>3, AsideLeads, LeadsTrans DEF DoErrorRecovery, T

LEMMA RecoverFromErrorNowOrLaterLeads ==
    ASSUME NEW S \in State, NEW onStop
    PROVE  Leads(S, RecoverFromErrorNowOrLater(S, onStop))
<1>1. Leads(S, [S EXCEPT !.fail = [onStop |-> TRUE, clearFifo |-> FALSE]])
  BY FailAside, AsideLeads DEF FailType
<1>2. QED
  BY <1>1, DoErrorRecoveryLeads DEF RecoverFromErrorNowOrLater

-----------------------------------------------------------------------------
(* Items *)

\* Another item in place of an item, and other calls on its behalf.
LEMMA ItemLeads ==
    ASSUME NEW S \in State, NEW i \in Streams, NEW r \in ItemType, NEW cs \in SUBSET CallType,
           Good(S) => (i \in Elems(S.fifo.queue) => r.realtime),
           Good(S) => (i = S.pl.cur /\ S.threads.boosted => r.realtime),
           \A c \in CallType : c.id # i => (c \in cs <=> c \in S.calls),
           Good(S) =>
               \/ i \notin Elems(S.fifo.queue)
               \/ r.state = S.item[i].state /\ r.resolving = S.item[i].resolving
               \/ i = S.fifo.queue[1] /\ r.state = "ABOUT_TO_ACTIVATE",
           Good(S) /\ i \in Alive(S) => ResolverOk(i, r.resolving, cs)
    PROVE  Leads(S, [S EXCEPT !.item[i] = r, !.calls = cs])
<1> DEFINE T == [S EXCEPT !.item[i] = r, !.calls = cs]
           q == S.fifo.queue
<1>1. /\ T \in State /\ T.pl = S.pl /\ T.fifo = S.fifo /\ T.client = S.client
      /\ T.threads = S.threads /\ T.bug = S.bug /\ T.calls = cs
      /\ T.item[i] = r /\ \A j \in Streams \ {i} : T.item[j] = S.item[j]
  BY DEF State
<1>2. /\ q \in Seq(Streams) /\ Elems(q) \subseteq Streams /\ S.pl.cur \in Streams \cup {None}
      /\ \A n \in 1..Len(q) : q[n] \in Elems(q)
      /\ S.calls \subseteq CallType
  BY FifoTypes DEF Elems, State
<1> HIDE DEF T, q
<1>3. ASSUME Good(S) PROVE Good(T)
  <2>1. Distinct(q)
    BY <1>3 DEF Good, QueueOk, q
  <2>2. ItemsOk(q, T.item)
    <3>1. ASSUME NEW n \in 1..Len(q), q[n] # i
          PROVE  /\ T.item[q[n]].realtime
                 /\ \/ T.item[q[n]].state = "IN_QUEUE" /\ ~T.item[q[n]].resolving
                    \/ n = 1 /\ T.item[q[n]].state = "ABOUT_TO_ACTIVATE"
      BY <1>1, <1>2, <1>3, <3>1 DEF Good, ItemsOk, q
    <3>2. ASSUME NEW n \in 1..Len(q), q[n] = i
          PROVE  /\ T.item[q[n]].realtime
                 /\ \/ T.item[q[n]].state = "IN_QUEUE" /\ ~T.item[q[n]].resolving
                    \/ n = 1 /\ T.item[q[n]].state = "ABOUT_TO_ACTIVATE"
      <4>1. i \in Elems(q) /\ T.item[q[n]] = r /\ r.realtime
        BY <1>1, <1>2, <1>3, <3>2 DEF q
      <4>2. CASE r.state = S.item[i].state /\ r.resolving = S.item[i].resolving
        BY <1>3, <3>2, <4>1, <4>2 DEF Good, ItemsOk, q
      <4>3. CASE i = q[1] /\ r.state = "ABOUT_TO_ACTIVATE"
        <5>1. 1 \in 1..Len(q)
          BY <1>2
        <5>2. n = 1
          BY <2>1, <3>2, <4>3, <5>1 DEF Distinct
        <5>3. QED
          BY <4>1, <4>3, <5>2
      <4>4. QED
        BY <1>3, <4>1, <4>2, <4>3 DEF q
    <3>3. QED
      BY <3>1, <3>2 DEF ItemsOk
  <2>3. CallsOk(T.pl.cur, q, T.item, T.calls)
    <3>1. SUFFICES ASSUME NEW j \in Elems(q) \cup ({S.pl.cur} \ {None})
                   PROVE  ResolverOk(j, T.item[j].resolving, cs)
      BY <1>1 DEF CallsOk
    <3>2. CASE j = i
      BY <1>1, <1>3, <3>1, <3>2 DEF Alive, q
    <3>3. CASE j # i
      <4>1. ResolverOk(j, S.item[j].resolving, S.calls)
        BY <1>3 DEF Good, CallsOk, q
      <4>2. j \in Streams /\ T.item[j] = S.item[j]
        BY <1>1, <1>2, <3>3
      <4>3. \A c : c.id = j => (c \in cs <=> c \in S.calls)
        BY <1>2, <3>3
      <4>4. QED
        BY <4>1, <4>2, <4>3 DEF ResolverOk
    <3>4. QED
      BY <3>2, <3>3
  <2>4. CalmOk(T.pl.cur, T.item, T.pl.buf, T.threads)
    BY <1>1, <1>2, <1>3 DEF Good, CalmOk
  <2>5. QED
    BY <1>1, <1>3, <2>2, <2>3, <2>4 DEF Good, q
<1>4. QED
  BY <1>1, <1>3 DEF Leads, T

\* Members nobody but the item itself is interested in.
LEMMA DetailLeads ==
    ASSUME NEW S \in State, NEW i \in Streams, NEW r \in ItemType,
           r.state = S.item[i].state, r.resolving = S.item[i].resolving,
           r.realtime = S.item[i].realtime
    PROVE  Leads(S, [S EXCEPT !.item[i] = r])
<1>1. S.calls \in SUBSET CallType
  BY DEF State
<1>2. Good(S) => (i \in Elems(S.fifo.queue) => r.realtime)
  BY DEF Good, ItemsOk, Elems
<1>3. Good(S) => (i = S.pl.cur /\ S.threads.boosted => r.realtime)
  BY StreamsAssumption DEF Good, CalmOk, None
<1>4. Good(S) /\ i \in Alive(S) => ResolverOk(i, r.resolving, S.calls)
  BY DEF Good, Alive, CallsOk
<1>5. Leads(S, [S EXCEPT !.item[i] = r, !.calls = S.calls])
  BY <1>1, <1>2, <1>3, <1>4, ItemLeads
<1>6. [S EXCEPT !.item[i] = r, !.calls = S.calls] = [S EXCEPT !.item[i] = r]
  BY DEF State
<1>7. QED
  BY <1>5, <1>6

\* set_state() for the current stream, or for the first one in the queue.
LEMMA SetItemStateLeads ==
    ASSUME NEW S \in State, NEW i \in Streams, NEW st \in ItemStates,
           \/ i = S.pl.cur
           \/ S.fifo.queue # <<>> /\ i = Peek(S.fifo) /\ st = "ABOUT_TO_ACTIVATE"
    PROVE  /\ Leads(S, SetItemState(S, i, st))
           /\ SetItemState(S, i, st) = [S EXCEPT !.item[i] = [S.item[i] EXCEPT !.state = st]]
<1> DEFINE r == [S.item[i] EXCEPT !.state = st]
<1>1. S.calls \in SUBSET CallType /\ S.item[i] \in ItemType
  BY DEF State
<1>2. r \in ItemType /\ r.state = st /\ r.resolving = S.item[i].resolving
      /\ r.realtime = S.item[i].realtime
  BY <1>1 DEF ItemType
<1>3. SetItemState(S, i, st) = [S EXCEPT !.item[i] = r]
  BY DEF SetItemState
<1> HIDE DEF r
<1>4. Good(S) => (i \in Elems(S.fifo.queue) => r.realtime)
  BY <1>2 DEF Good, ItemsOk, Elems
<1>5. Good(S) => (i = S.pl.cur /\ S.threads.boosted => r.realtime)
  BY <1>2, StreamsAssumption DEF Good, CalmOk, None
<1>6. Good(S) => i \notin Elems(S.fifo.queue) \/ (i = S.fifo.queue[1] /\ r.state = "ABOUT_TO_ACTIVATE")
  BY <1>2 DEF Good, QueueOk, Peek
<1>7. Good(S) /\ i \in Alive(S) => ResolverOk(i, r.resolving, S.calls)
  BY <1>2 DEF Good, Alive, CallsOk
<1>8. Leads(S, [S EXCEPT !.item[i] = r, !.calls = S.calls])
  BY <1>1, <1>2, <1>4, <1>5, <1>6, <1>7, ItemLeads
<1>9. [S EXCEPT !.item[i] = r, !.calls = S.calls] = [S EXCEPT !.item[i] = r]
  BY DEF State
<1>10. QED
  BY <1>3, <1>8, <1>9 DEF r

-----------------------------------------------------------------------------
(* Playing the next stream *)

LEMMA UrlForPlayingType ==
    ASSUME NEW S \in State, NEW i \in Streams
    PROVE  UrlForPlaying(i, S.item[i]) \in Uris
<1>1. S.item[i].selected \in Nat
  BY DEF State, ItemType
<1>2. QED
  BY <1>1 DEF UrlForPlaying, Uris

LEMMA OnLinkResolvedLeads ==
    ASSUME NEW S \in State, NEW i \in Streams, NEW nextState \in GstStates, NEW prefetching
    PROVE  Leads(S, OnLinkResolved(S, i, nextState, prefetching).s)
<1> DEFINE U == [S EXCEPT !.gst.uri = UrlForPlaying(i, S.item[i])]
           given == [U EXCEPT !.pl.nextReq = "NOT_REQUESTED"]
           r == [given.item[i] EXCEPT !.restart = FALSE]
           T == IF prefetching THEN [given EXCEPT !.item[i] = r] ELSE given
           goal == IF prefetching /\ nextState \notin {"PLAYING", "PAUSED"}
                   THEN "PLAYING" ELSE nextState
           moved == SetStreamState(T, goal)
<1>1. Aside(S, U)
  BY UrlForPlayingType, UriAside
<1>2. U \in State
  BY <1>1 DEF Aside
<1> HIDE DEF U
<1>3. Aside(U, given)
  BY <1>2, NextReqAside
<1>4. given \in State
  BY <1>3 DEF Aside
<1>5. given = [S EXCEPT !.gst.uri = UrlForPlaying(i, S.item[i]), !.pl.nextReq = "NOT_REQUESTED"]
  BY DEF U, given
<1>6. Leads(S, given)
  BY <1>1, <1>3, AsideTrans, AsideLeads
<1> HIDE DEF given
<1>7. given.item[i] \in ItemType
  BY <1>4 DEF State
<1>8. /\ r \in ItemType /\ r.state = given.item[i].state /\ r.resolving = given.item[i].resolving
      /\ r.realtime = given.item[i].realtime
  BY <1>7 DEF ItemType
<1> HIDE DEF r
<1>9. Leads(given, [given EXCEPT !.item[i] = r])
  BY <1>4, <1>8, DetailLeads
<1>10. Leads(S, T)
  BY <1>6, <1>9, LeadsTrans
<1>11. T \in State /\ goal \in GstStates
  BY <1>10 DEF Leads, GstStates
<1>12. T = IF prefetching THEN [given EXCEPT !.item[i].restart = FALSE] ELSE given
  BY DEF r
<1> HIDE DEF T, goal
<1>13. Aside(T, moved)
  BY <1>11, SetStreamStateAside
<1>14. moved \in State
  BY <1>13 DEF Aside
<1> HIDE DEF moved
<1>15. Aside(moved, DoEncourageBuffering(moved))
  BY <1>14, DoEncourageBufferingAside
<1>16. Leads(S, moved) /\ Leads(S, DoEncourageBuffering(moved))
  BY <1>10, <1>13, <1>15, AsideLeads, LeadsTrans
<1>17. OnLinkResolved(S, i, nextState, prefetching).s \in
         {given, moved, DoEncourageBuffering(moved)}
  BY <1>5, <1>12 DEF OnLinkResolved, moved, goal
<1>18. QED
  BY <1>6, <1>16, <1>17

\* The streams which are passed to GStreamer.
Chosen(S, i) ==
    \/ i = S.pl.cur
    \/ S.fifo.queue # <<>> /\ i = Peek(S.fifo) /\ S.item[i].state = "ABOUT_TO_ACTIVATE"

LEMMA BeginResolvingLeads ==
    ASSUME NEW S \in State, NEW i \in Streams, NEW nextState \in GstStates,
           NEW prefetching \in BOOLEAN, Chosen(S, i), ~S.item[i].resolving
    PROVE  Leads(S, BeginResolving(S, i, nextState, prefetching))
<1> DEFINE it == S.item[i]
           r == ResolverBegin(it)
           begun == [S EXCEPT !.item[i] = r]
           call == [id |-> i, nextState |-> nextState, prefetching |-> prefetching]
<1>1. S.calls \in SUBSET CallType /\ it \in ItemType
  BY DEF State
<1>2. /\ r \in ItemType /\ r.state = it.state /\ r.realtime = it.realtime
      /\ r.resolving = TRUE
  BY <1>1 DEF ResolverBegin, ItemType
<1>3. begun = [S EXCEPT !.item[i] = ResolverBegin(@)]
  OBVIOUS
<1>4. call.id = i /\ (Broker[i] = "COOKIE" => call \in CallType)
  BY DEF CallType
<1> HIDE DEF r, call
<1>5. Good(S) => (i \in Elems(S.fifo.queue) => r.realtime)
  BY <1>2 DEF Good, ItemsOk, Elems
<1>6. Good(S) => (i = S.pl.cur /\ S.threads.boosted => r.realtime)
  BY <1>2, StreamsAssumption DEF Good, CalmOk, None
<1>7. Good(S) => i \notin Elems(S.fifo.queue) \/ (i = S.fifo.queue[1] /\ r.state = "ABOUT_TO_ACTIVATE")
  BY <1>2 DEF Good, QueueOk, Peek, Chosen
<1>8. CASE Broker[i] = "COOKIE"
  <2> DEFINE cs == S.calls \cup {call}
  <2>1. cs \in SUBSET CallType /\ \A c \in CallType : c.id # i => (c \in cs <=> c \in S.calls)
    BY <1>1, <1>4, <1>8
  <2>2. Good(S) /\ i \in Alive(S) => ResolverOk(i, FALSE, S.calls)
    BY DEF Good, Alive, CallsOk, ResolverOk
  <2>3. Good(S) /\ i \in Alive(S) => ResolverOk(i, r.resolving, cs)
    BY <1>2, <1>4, <2>2 DEF ResolverOk
  <2>4. Leads(S, [S EXCEPT !.item[i] = r, !.calls = cs])
    BY <1>2, <1>5, <1>6, <1>7, <2>1, <2>3, ItemLeads
  <2>5. [S EXCEPT !.item[i] = r, !.calls = cs] = [begun EXCEPT !.calls = @ \cup {call}]
    BY DEF State
  <2>6. BeginResolving(S, i, nextState, prefetching) = [begun EXCEPT !.calls = @ \cup {call}]
    BY <1>8 DEF BeginResolving, call, r
  <2>7. QED
    BY <2>4, <2>5, <2>6
<1>9. CASE Broker[i] = "AT_ONCE"
  <2> DEFINE d == ResolverResolved(r)
             T == [S EXCEPT !.item[i] = d]
  <2>1. /\ d \in ItemType /\ d.state = it.state /\ d.realtime = it.realtime
        /\ d.resolving = it.resolving
    <3>1. r.resolved \cup {r.selected} \in SUBSET Nat
      BY <1>2 DEF ItemType
    <3>2. it.resolving = FALSE
      BY <1>1 DEF ItemType
    <3>3. QED
      BY <1>2, <3>1, <3>2 DEF ResolverResolved, ItemType
  <2>2. Leads(S, T)
    BY <2>1, DetailLeads
  <2>3. T = [begun EXCEPT !.item[i] = ResolverResolved(@)]
    BY DEF State
  <2> HIDE DEF d, T
  <2>4. T \in State
    BY <2>2 DEF Leads
  <2>5. Leads(T, OnLinkResolved(T, i, nextState, prefetching).s)
    BY <2>4, OnLinkResolvedLeads
  <2>6. BeginResolving(S, i, nextState, prefetching) = OnLinkResolved(T, i, nextState, prefetching).s
    BY <1>9, <2>3 DEF BeginResolving, r
  <2>7. QED
    BY <2>2, <2>5, <2>6, LeadsTrans
<1>10. CASE Broker[i] \notin {"COOKIE", "AT_ONCE"}
  <2>1. ResolverOk(i, r.resolving, S.calls)
    BY <1>10, BrokerAssumption DEF ResolverOk
  <2>2. Leads(S, [S EXCEPT !.item[i] = r, !.calls = S.calls])
    BY <1>1, <1>2, <1>5, <1>6, <1>7, <2>1, ItemLeads
  <2>3. [S EXCEPT !.item[i] = r, !.calls = S.calls] = begun
    BY DEF State
  <2>4. BeginResolving(S, i, nextState, prefetching) = begun
    BY <1>10 DEF BeginResolving, r
  <2>5. QED
    BY <2>2, <2>3, <2>4
<1>11. QED
  BY <1>8, <1>9, <1>10

LEMMA ResolveSelectedUrlOrPlayUriLeads ==
    ASSUME NEW S \in State, NEW i \in Streams, NEW nextState \in GstStates,
           NEW prefetching \in BOOLEAN, Chosen(S, i)
    PROVE  Leads(S, ResolveSelectedUrlOrPlayUri(S, i, nextState, prefetching).s)
<1>1. CASE UrlState(i, S.item[i]) = "KNOWN_AIRABLE_LINK"
  <2>1. ~S.item[i].resolving
    BY <1>1 DEF UrlState
  <2>2. QED
    BY <1>1, <2>1, BeginResolvingLeads DEF ResolveSelectedUrlOrPlayUri
<1>2. CASE UrlState(i, S.item[i]) = "RESOLVING_LINK"
  BY <1>2, LeadsSelf DEF ResolveSelectedUrlOrPlayUri
<1>3. CASE UrlState(i, S.item[i]) = "BROKEN"
  BY <1>3, BugAside, AsideLeads DEF ResolveSelectedUrlOrPlayUri, BugNames
<1>4. CASE UrlState(i, S.item[i]) \notin {"KNOWN_AIRABLE_LINK", "RESOLVING_LINK", "BROKEN"}
  BY <1>4, OnLinkResolvedLeads DEF ResolveSelectedUrlOrPlayUri
<1>5. QED
  BY <1>1, <1>2, <1>3, <1>4

\* play_next_stream() is called for the current stream or the first one in the queue.
LEMMA PlayNextStreamLeads ==
    ASSUME NEW S \in State, NEW i \in Streams, NEW replaced \in {None, S.pl.cur},
           NEW nextState \in GstStates, NEW skipping, NEW prefetching \in BOOLEAN,
           i = S.pl.cur \/ (S.fifo.queue # <<>> /\ i = Peek(S.fifo))
    PROVE  Leads(S, PlayNextStream(S, replaced, i, nextState, skipping, prefetching).s)
<1> DEFINE U == SetItemState(S, i, "ABOUT_TO_ACTIVATE")
           out == IF skipping THEN "ABOUT_TO_BE_SKIPPED" ELSE "ABOUT_TO_PHASE_OUT"
           T == IF replaced = None THEN U ELSE SetItemState(U, replaced, out)
<1>1. Leads(S, U)
  BY SetItemStateLeads DEF ItemStates
<1>2. /\ U \in State /\ U.pl = S.pl /\ U.fifo = S.fifo
      /\ U.item[i].state = "ABOUT_TO_ACTIVATE"
  <2>1. S.item \in [Streams -> ItemType] /\ S.item[i] \in ItemType
    BY DEF State
  <2>2. U = [S EXCEPT !.item[i].state = "ABOUT_TO_ACTIVATE"]
    BY DEF SetItemState
  <2>3. U.pl = S.pl /\ U.fifo = S.fifo
    BY <2>2 DEF State
  <2>4. U.item = [S.item EXCEPT ![i] = [S.item[i] EXCEPT !.state = "ABOUT_TO_ACTIVATE"]]
    BY <2>2 DEF State
  <2>5. U.item[i].state = "ABOUT_TO_ACTIVATE"
    BY <2>1, <2>4 DEF ItemType
  <2>6. QED
    BY <1>1, <2>3, <2>5 DEF Leads
<1> HIDE DEF U
<1>3. Leads(S, T) /\ Chosen(T, i)
  <2>1. CASE replaced = None
    BY <1>1, <1>2, <2>1 DEF Chosen
  <2>2. CASE replaced # None
    <3>1. replaced = U.pl.cur /\ replaced \in Streams
      BY <1>2, <2>2, FifoTypes
    <3>2. T = SetItemState(U, replaced, out)
      BY <2>2
    <3>3. Leads(U, T)
      BY <1>2, <3>1, <3>2, SetItemStateLeads DEF ItemStates
    <3>4. T.pl = U.pl /\ T.fifo = U.fifo /\ (i # replaced => T.item[i] = U.item[i])
      BY <1>2, <3>1, <3>2 DEF SetItemState, State
    <3>5. QED
      BY <1>1, <1>2, <3>1, <3>3, <3>4, LeadsTrans DEF Chosen
  <2>3. QED
    BY <2>1, <2>2
<1>4. T \in State
  BY <1>3 DEF Leads
<1> HIDE DEF T
<1>5. Leads(S, ResolveSelectedUrlOrPlayUri(T, i, nextState, prefetching).s)
  BY <1>3, <1>4, ResolveSelectedUrlOrPlayUriLeads, LeadsTrans
<1>6. Leads(S, [S EXCEPT !.pl.nextReq = "REQUEST_DEFERRED"])
  BY NextReqAside, AsideLeads
<1>7. Leads(S, Bug(S, "UNEXPECTED_STREAM_STATE"))
  BY BugAside, AsideLeads DEF BugNames
<1>8. PlayNextStream(S, replaced, i, nextState, skipping, prefetching).s \in
        {ResolveSelectedUrlOrPlayUri(T, i, nextState, prefetching).s, S,
         [S EXCEPT !.pl.nextReq = "REQUEST_DEFERRED"], Bug(S, "UNEXPECTED_STREAM_STATE")}
  BY DEF PlayNextStream, T, U
<1>9. QED
  BY <1>5, <1>6, <1>7, <1>8, LeadsSelf

\* What pick_next_item() finds.
LEMMA PickNextItemFinds ==
    ASSUME NEW S \in State
    PROVE  LET pick == PickNextItem(S)
           IN  /\ pick.id \in Streams \cup {None} /\ pick.inFifo \in BOOLEAN
               /\ pick.inFifo => S.fifo.queue # <<>> /\ pick.id = Peek(S.fifo) /\ pick.id # None
               /\ ~pick.inFifo /\ pick.id # None => pick.id = S.pl.cur
               /\ pick.id = None => ~pick.inFifo
<1>1. S.fifo.queue \in Seq(Streams) /\ S.pl.cur \in Streams \cup {None}
  BY FifoTypes
<1>2. S.fifo.queue # <<>> => S.fifo.queue[1] \in Streams /\ S.fifo.queue[1] # None
  BY <1>1, HeadOfQueue
<1>3. QED
  BY <1>1, <1>2 DEF PickNextItem, IsEmpty, Peek

\* queue_stream_from_url_fifo__unlocked()
LEMMA QueueStreamFromUrlFifoLeads ==
    ASSUME NEW S \in State
    PROVE  Leads(S, QueueStreamFromUrlFifo(S))
<1> DEFINE pick == PickNextItem(S)
           cur == S.pl.cur
           T == IF S.pl.nextReq = "NOT_REQUESTED" THEN Bug(S, "NOT_REQUESTED_YET") ELSE S
           replaced == IF pick.inFifo THEN None ELSE cur
<1>1. Aside(S, T)
  BY BugAside, LeadsSelf DEF BugNames
<1>2. T \in State /\ T.pl.cur = cur /\ T.fifo = S.fifo /\ Leads(S, T)
  BY <1>1, AsideLeads DEF Aside
<1>3. /\ pick.id \in Streams \cup {None} /\ cur \in Streams \cup {None}
      /\ pick.inFifo => S.fifo.queue # <<>> /\ pick.id = Peek(S.fifo)
      /\ ~pick.inFifo /\ pick.id # None => pick.id = cur
  BY PickNextItemFinds, FifoTypes
<1>4. QueueStreamFromUrlFifo(S) =
        CASE pick.id = None /\ cur = None -> Bug(T, "NOTHING_TO_PLAY")
          [] pick.id = None /\ cur # None -> SetItemState(T, cur, "ABOUT_TO_PHASE_OUT")
          [] OTHER -> PlayNextStream(T, replaced, pick.id, "NULL", FALSE, TRUE).s
  BY DEF QueueStreamFromUrlFifo
<1> HIDE DEF T, pick, cur
<1>5. CASE pick.id = None /\ cur = None
  BY <1>2, <1>4, <1>5, BugAside, AsideLeads, LeadsTrans DEF BugNames
<1>6. CASE pick.id = None /\ cur # None
  BY <1>2, <1>3, <1>4, <1>6, SetItemStateLeads, LeadsTrans DEF ItemStates
<1>7. CASE pick.id # None
  <2>1. /\ pick.id \in Streams /\ replaced \in {None, T.pl.cur} /\ "NULL" \in GstStates
        /\ pick.id = T.pl.cur \/ (T.fifo.queue # <<>> /\ pick.id = Peek(T.fifo))
    BY <1>2, <1>3, <1>7 DEF GstStates
  <2> HIDE DEF replaced
  <2>2. Leads(T, PlayNextStream(T, replaced, pick.id, "NULL", FALSE, TRUE).s)
    BY <1>2, <2>1, PlayNextStreamLeads
  <2>3. QED
    BY <1>2, <1>4, <1>7, <2>2, LeadsTrans
<1>8. QED
  BY <1>5, <1>6, <1>7

-----------------------------------------------------------------------------
(* Choosing the next stream *)

\* set_failed() for an item which may not exist.
LEMMA FailItemLeads ==
    ASSUME NEW S \in State, NEW i
    PROVE  Leads(S, [S EXCEPT !.item[i].failed = TRUE])
<1>1. CASE i \in Streams
  <2> DEFINE r == [S.item[i] EXCEPT !.failed = TRUE]
  <2>1. S.item[i] \in ItemType
    BY <1>1 DEF State
  <2>2. /\ r \in ItemType /\ r.state = S.item[i].state /\ r.resolving = S.item[i].resolving
        /\ r.realtime = S.item[i].realtime
    BY <2>1 DEF ItemType
  <2>3. [S EXCEPT !.item[i].failed = TRUE] = [S EXCEPT !.item[i] = r]
    OBVIOUS
  <2> HIDE DEF r
  <2>4. QED
    BY <1>1, <2>2, <2>3, DetailLeads
<1>2. CASE i \notin Streams
  <2>1. [S.item EXCEPT ![i].failed = TRUE] = S.item
    BY <1>2 DEF State
  <2>2. [S EXCEPT !.item[i].failed = TRUE] = S
    BY <2>1 DEF State
  <2>3. QED
    BY <2>2, LeadsSelf
<1>3. QED
  BY <1>1, <1>2

LEMMA TryTakeNextFailedLeads ==
    ASSUME NEW S \in State
    PROVE  Leads(S, TryTakeNextFailed(S).s) /\ TryTakeNextFailed(S).next = None
<1> DEFINE replaced == S.pl.cur # None
           moved == IF replaced THEN PopToCurrent(S) ELSE [S EXCEPT !.fifo = PopDrop(@)]
           failed == [moved EXCEPT !.item[moved.pl.cur].failed = TRUE]
<1>1. Leads(S, moved)
  BY PopToCurrentLeads, PopDropLeads
<1>2. moved \in State
  BY <1>1 DEF Leads
<1>3. TryTakeNextFailed(S).s \in
        {DoErrorRecovery(S), RecoverFromErrorNowOrLater(failed, replaced), moved}
  BY DEF TryTakeNextFailed
<1> HIDE DEF moved, replaced
<1>4. Leads(moved, failed)
  BY <1>2, FailItemLeads
<1>5. failed \in State
  BY <1>4 DEF Leads
<1> HIDE DEF failed
<1>6. Leads(S, RecoverFromErrorNowOrLater(failed, replaced))
  BY <1>1, <1>4, <1>5, RecoverFromErrorNowOrLaterLeads, LeadsTrans
<1>7. QED
  BY <1>1, <1>3, <1>6, DoErrorRecoveryLeads DEF TryTakeNextFailed

\* The item which is taken is the current one from then on.
LEMMA TryTakeNextLeads ==
    ASSUME NEW S \in State
    PROVE  LET t == TryTakeNext(S)
           IN  /\ Leads(S, t.s)
               /\ t.next # None => t.next \in Streams /\ t.next = t.s.pl.cur
<1> DEFINE pick == PickNextItem(S)
           T == IF pick.inFifo THEN PopToCurrent(S) ELSE S
<1>1. /\ pick.id \in Streams \cup {None}
      /\ pick.inFifo => S.fifo.queue # <<>> /\ pick.id = Peek(S.fifo)
      /\ ~pick.inFifo /\ pick.id # None => pick.id = S.pl.cur
  BY PickNextItemFinds
<1>2. Leads(S, T) /\ (pick.id # None => T.pl.cur = pick.id)
  BY <1>1, PopToCurrentLeads, LeadsSelf
<1>3. CASE pick.id = None \/ NoUrls(pick.id)
  BY <1>3, TryTakeNextFailedLeads DEF TryTakeNext
<1>4. CASE ~(pick.id = None \/ NoUrls(pick.id))
  <2>1. TryTakeNext(S).s = T /\ TryTakeNext(S).next = pick.id
    BY <1>4 DEF TryTakeNext
  <2> HIDE DEF pick, T
  <2>2. QED
    BY <1>1, <1>2, <1>4, <2>1
<1>5. QED
  BY <1>3, <1>4

LEMMA TryPlayNextStreamLeads ==
    ASSUME NEW S \in State, NEW nextState \in GstStates
    PROVE  Leads(S, TryPlayNextStream(S, nextState))
<1> DEFINE t == TryTakeNext(S)
           T == t.s
<1>1. Leads(S, T) /\ (t.next # None => t.next \in Streams /\ t.next = T.pl.cur)
  BY TryTakeNextLeads
<1>2. T \in State
  BY <1>1 DEF Leads
<1>3. TryPlayNextStream(S, nextState) =
        IF t.next # None /\ (t.replaced \/ t.justQueued)
        THEN PlayNextStream(T, None, t.next, nextState, FALSE, FALSE).s
        ELSE T
  BY DEF TryPlayNextStream
<1> HIDE DEF t, T
<1>4. t.next # None => Leads(T, PlayNextStream(T, None, t.next, nextState, FALSE, FALSE).s)
  BY <1>1, <1>2, PlayNextStreamLeads
<1>5. QED
  BY <1>1, <1>3, <1>4, LeadsTrans

-----------------------------------------------------------------------------
(* Handlers of messages from the bus *)

LEMMA ActivateStreamLeads ==
    ASSUME NEW S \in State, NEW phase
    PROVE  /\ Leads(S, ActivateStream(S, phase).s)
           /\ ActivateStream(S, phase).s.pl = S.pl
           /\ ActivateStream(S, phase).s.fifo = S.fifo
<1> DEFINE cur == S.pl.cur
           into(st) == SetItemState(S, cur, st)
           A == ActivateStream(S, phase).s
           invalid == Bug(S, "CURRENT_ITEM_INVALID")
           skipped == Bug(into("ABOUT_TO_BE_SKIPPED"), "UNEXPECTED_STATE")
<1>1. cur \in Streams \cup {None}
  BY FifoTypes
<1>2. cur = None => A = invalid
  BY DEF ActivateStream
<1>3. cur # None => A \in {into("ACTIVE_HALF_PLAYING"), into("ACTIVE_NOW_PLAYING"),
                           into("ABOUT_TO_PHASE_OUT"), skipped, S}
  BY DEF ActivateStream
<1>4. ASSUME cur # None, NEW st \in ItemStates
      PROVE  Leads(S, into(st)) /\ into(st).pl = S.pl /\ into(st).fifo = S.fifo
  <2>1. Leads(S, into(st))
    BY <1>1, <1>4, SetItemStateLeads
  <2>2. QED
    BY <2>1 DEF SetItemState, State
<1>5. cur # None => Leads(S, skipped) /\ skipped.pl = S.pl /\ skipped.fifo = S.fifo
  <2> DEFINE T == into("ABOUT_TO_BE_SKIPPED")
  <2>1. SUFFICES ASSUME cur # None
                 PROVE  Leads(S, skipped) /\ skipped.pl = S.pl /\ skipped.fifo = S.fifo
    OBVIOUS
  <2>2. Leads(S, T) /\ T.pl = S.pl /\ T.fifo = S.fifo
    BY <1>4, <2>1 DEF ItemStates
  <2>3. T \in State
    BY <2>2 DEF Leads
  <2> HIDE DEF T
  <2>4. Aside(T, Bug(T, "UNEXPECTED_STATE")) /\ Bug(T, "UNEXPECTED_STATE").pl = T.pl
    BY <2>3, BugAside DEF BugNames, Bug, State
  <2>5. QED
    BY <2>2, <2>4, AsideLeads, LeadsTrans DEF T, Aside
<1>6. Aside(S, invalid) /\ invalid.pl = S.pl
  BY BugAside DEF BugNames, Bug, State
<1> HIDE DEF A, skipped, invalid, into
<1>7. CASE cur = None
  BY <1>2, <1>6, <1>7, AsideLeads DEF Aside, A
<1>8. CASE cur # None
  BY <1>3, <1>4, <1>5, <1>8, LeadsSelf DEF ItemStates, A
<1>9. QED
  BY <1>7, <1>8

LEMMA EmitPauseStateAside ==
    ASSUME NEW S \in State
    PROVE  Aside(S, EmitPauseStateIfNotBuffering(S))
  BY CrashAside, LeadsSelf DEF EmitPauseStateIfNotBuffering

LEMMA MarkForRestartLeads ==
    ASSUME NEW S \in State, NEW i \in Streams
    PROVE  Leads(S, [S EXCEPT !.item[i] = MarkForRestart(@)])
<1> DEFINE r == MarkForRestart(S.item[i])
<1>1. S.item[i] \in ItemType
  BY DEF State
<1>2. /\ r \in ItemType /\ r.state = S.item[i].state /\ r.resolving = S.item[i].resolving
      /\ r.realtime = S.item[i].realtime
  BY <1>1 DEF MarkForRestart, ItemType
<1> HIDE DEF r
<1>3. Leads(S, [S EXCEPT !.item[i] = r])
  BY <1>2, DetailLeads
<1>4. QED
  BY <1>3 DEF r

LEMMA HandleEndOfStreamLeads ==
    ASSUME NEW S \in State
    PROVE  Leads(S, HandleEndOfStream(S))
<1> DEFINE down == SetStreamState(S, "READY")
           head == Peek(S.fifo)
           marked == [down EXCEPT !.item[head] = MarkForRestart(@)]
           blamed == Bug(marked, "STOPPING")
           again == [marked EXCEPT !.idle = @ + 1]
           finish(D) == WipeOutUri([D EXCEPT !.pl.cur = None])
<1>1. Leads(S, down)
  BY SetStreamStateAside, AsideLeads DEF GstStates
<1>2. down \in State
  BY <1>1 DEF Leads
<1>3. S.fifo.queue # <<>> => head \in Streams
  BY FifoTypes, HeadOfQueue DEF Peek
<1>4. HandleEndOfStream(S) =
        finish(CASE IsEmpty(S.fifo) -> EmitStopped(down)
                 [] ~IsEmpty(S.fifo) /\ StartRequired(head, S.item[head]) = "NOT_REQUIRED" ->
                      EmitStopped(blamed)
                 [] ~IsEmpty(S.fifo) /\ StartRequired(head, S.item[head]) = "START_NOW" -> again
                 [] OTHER -> marked)
  BY DEF HandleEndOfStream
<1> HIDE DEF down, head
<1>5. ASSUME NEW D, Leads(S, D) PROVE Leads(S, finish(D))
  <2> DEFINE E == [D EXCEPT !.pl.cur = None]
  <2>1. D \in State
    BY <1>5 DEF Leads
  <2>2. Leads(D, E)
    BY <2>1, ForgetCurrentLeads
  <2>3. E \in State
    BY <2>2 DEF Leads
  <2> HIDE DEF E
  <2>4. Leads(E, WipeOutUri(E))
    BY <2>3, WipeOutUriAside, AsideLeads
  <2>5. QED
    BY <1>5, <2>2, <2>4, LeadsTrans DEF E
<1>6. Leads(S, EmitStopped(down))
  BY <1>1, <1>2, EmitStoppedLeads, LeadsTrans
<1>7. ASSUME S.fifo.queue # <<>>
      PROVE  Leads(S, marked) /\ Leads(S, EmitStopped(blamed)) /\ Leads(S, again)
  <2>1. Leads(down, marked)
    BY <1>2, <1>3, <1>7, MarkForRestartLeads
  <2>2. marked \in State
    BY <2>1 DEF Leads
  <2> HIDE DEF marked
  <2>3. Leads(S, marked)
    BY <1>1, <2>1, LeadsTrans
  <2>4. Leads(marked, blamed)
    BY <2>2, BugAside, AsideLeads DEF BugNames
  <2>5. blamed \in State
    BY <2>4 DEF Leads
  <2> HIDE DEF blamed
  <2>6. Leads(blamed, EmitStopped(blamed))
    BY <2>5, EmitStoppedLeads
  <2>7. marked.idle + 1 \in Nat
    BY <2>2 DEF State
  <2>8. Leads(marked, again)
    BY <2>2, <2>7, IdleAside, AsideLeads
  <2>9. QED
    BY <2>3, <2>4, <2>6, <2>8, LeadsTrans
<1> HIDE DEF marked, blamed, again, finish
<1>8. CASE IsEmpty(S.fifo)
  BY <1>4, <1>5, <1>6, <1>8
<1>9. CASE ~IsEmpty(S.fifo)
  <2>1. S.fifo.queue # <<>>
    BY <1>9 DEF IsEmpty
  <2>2. HandleEndOfStream(S) \in {finish(EmitStopped(blamed)), finish(again), finish(marked)}
    BY <1>4, <1>9
  <2>3. QED
    BY <1>5, <1>7, <2>1, <2>2
<1>10. QED
  BY <1>8, <1>9

LEMMA ArrivedInReadyLeads ==
    ASSUME NEW S \in State
    PROVE  Leads(S, ArrivedInReady(S))
<1> DEFINE wiped == WipeOutUri(S)
           urlSt == IF S.pl.cur = None THEN "BROKEN" ELSE UrlState(S.pl.cur, S.item[S.pl.cur])
           stopped == IF urlSt \in {"KNOWN_DIRECT_URL", "KNOWN_RESOLVED_URL"}
                      THEN EmitStopped(wiped) ELSE wiped
           unprotected(D) == [D EXCEPT !.pl.protected = FALSE]
           forgotten(D) == [D EXCEPT !.pl.cur = None]
           finish(D) == [D EXCEPT !.pl.justStarted = FALSE]
<1>1. Leads(S, wiped)
  BY WipeOutUriAside, AsideLeads
<1>2. wiped \in State
  BY <1>1 DEF Leads
<1>3. ArrivedInReady(S) \in
        {wiped, finish(unprotected(stopped)), finish(PopToCurrent(stopped)),
         finish(forgotten(stopped))}
  BY DEF ArrivedInReady
<1> HIDE DEF wiped
<1>4. Leads(S, stopped)
  BY <1>1, <1>2, EmitStoppedLeads, LeadsTrans
<1> HIDE DEF stopped
<1>5. ASSUME NEW D, Leads(S, D) PROVE Leads(S, finish(D))
  <2>1. D \in State
    BY <1>5 DEF Leads
  <2>2. Leads(D, finish(D))
    BY <2>1, JustStartedAside, AsideLeads
  <2>3. QED
    BY <1>5, <2>2, LeadsTrans
<1>6. ASSUME NEW D, Leads(S, D)
      PROVE  Leads(S, unprotected(D)) /\ Leads(S, PopToCurrent(D)) /\ Leads(S, forgotten(D))
  <2>1. D \in State
    BY <1>6 DEF Leads
  <2>2. Leads(D, forgotten(D)) /\ Leads(D, PopToCurrent(D))
    BY <2>1, ForgetCurrentLeads, PopToCurrentLeads
  <2>3. Aside(D, unprotected(D))
    BY <2>1 DEF Aside, State, PlType
  <2> HIDE DEF unprotected, forgotten
  <2>4. Leads(D, unprotected(D))
    BY <2>3, AsideLeads
  <2>5. QED
    BY <1>6, <2>2, <2>4, LeadsTrans
<1> HIDE DEF finish, unprotected, forgotten
<1>7. QED
  BY <1>1, <1>3, <1>4, <1>5, <1>6

LEMMA HandleStreamStateChangeLeads ==
    ASSUME NEW S \in State, NEW old, NEW new, NEW pending
    PROVE  Leads(S, HandleStreamStateChange(S, old, new, pending))
<1> DEFINE starting == new = "PAUSED" /\ old \in {"READY", "NULL"} /\ pending = "PLAYING"
           just == [S EXCEPT !.pl.justStarted = TRUE]
           calm == [just EXCEPT !.pl.buf = NotBuffering]
           T == CASE starting /\ S.gst.target # "PAUSED" -> calm
                  [] starting /\ S.gst.target = "PAUSED" -> EnterPause(just)
                  [] new \in {"READY", "NULL"} -> StopWatching(S)
                  [] OTHER -> S
           active == ActivateStreamAndEmitPauseState(T)
           playing == IF T.pl.justStarted THEN EmitPauseStateIfNotBuffering(T) ELSE active
           settled == [playing EXCEPT !.pl.justStarted = FALSE]
<1>1. HandleStreamStateChange(S, old, new, pending) \in
        {S, Bug(T, "BOGUS_TARGET"), T, ArrivedInReady(T), EnterPause(active),
         WatchProgress(settled)}
  BY DEF HandleStreamStateChange
<1>2. Aside(S, just)
  BY JustStartedAside
<1>3. just \in State
  BY <1>2 DEF Aside
<1> HIDE DEF just
<1>4. Aside(S, calm) /\ Aside(S, EnterPause(just))
  BY <1>2, <1>3, NotBufferingAside, EnterPauseAside, AsideTrans
<1>5. Aside(S, StopWatching(S))
  BY WatcherAside DEF StopWatching
<1> HIDE DEF calm
<1>6. Aside(S, T)
  BY <1>4, <1>5, LeadsSelf
<1>7. T \in State /\ Leads(S, T)
  BY <1>6, AsideLeads DEF Aside
<1> HIDE DEF T
<1>8. Leads(S, Bug(T, "BOGUS_TARGET")) /\ Leads(S, ArrivedInReady(T))
  BY <1>7, BugAside, AsideLeads, ArrivedInReadyLeads, LeadsTrans DEF BugNames
<1>9. Leads(S, active)
  BY <1>7, ActivateStreamLeads, LeadsTrans DEF ActivateStreamAndEmitPauseState
<1>10. active \in State
  BY <1>9 DEF Leads
<1> HIDE DEF active
<1>11. Leads(S, EnterPause(active))
  BY <1>9, <1>10, EnterPauseAside, AsideLeads, LeadsTrans
<1>12. Leads(S, playing)
  BY <1>7, <1>9, EmitPauseStateAside, AsideLeads, LeadsTrans
<1>13. playing \in State
  BY <1>12 DEF Leads
<1> HIDE DEF playing
<1>14. Leads(playing, settled)
  BY <1>13, JustStartedAside, AsideLeads
<1>15. settled \in State
  BY <1>14 DEF Leads
<1> HIDE DEF settled
<1>16. Leads(settled, WatchProgress(settled))
  <2>1. (IF settled.watcher = "NONE" THEN "RUNNING" ELSE settled.watcher) \in {"NONE", "RUNNING", "GONE"}
    BY <1>15 DEF State
  <2>2. QED
    BY <1>15, <2>1, WatcherAside, AsideLeads DEF WatchProgress
<1>17. Leads(S, WatchProgress(settled))
  BY <1>12, <1>14, <1>16, LeadsTrans
<1>18. QED
  BY <1>1, <1>7, <1>8, <1>11, <1>17, LeadsSelf

LEMMA HandleStartOfStreamLeads ==
    ASSUME NEW S \in State
    PROVE  Leads(S, HandleStartOfStream(S))
<1> DEFINE pick == PickNextItem(S)
           id == IF pick.id = None THEN S.pl.cur ELSE pick.id
           st == S.item[id].state
           fast == Boost(S, ~IsBuffering(S.pl.buf) /\ S.item[S.pl.cur].realtime)
           noted == CASE st = "IN_QUEUE" -> Bug(fast, "PICKED_QUEUED_STREAM")
                      [] st = "ACTIVE_HALF_PLAYING" /\ ~IsEmpty(S.fifo) /\
                         S.item[Peek(S.fifo)].state \notin {"IN_QUEUE", "ABOUT_TO_ACTIVATE"} ->
                           Bug(fast, "UNEXPECTED_NEXT_STREAM")
                      [] OTHER -> fast
           taken == IF pick.inFifo THEN PopToCurrent(noted) ELSE noted
           ready == IF st = "ACTIVE_NOW_PLAYING"
                    THEN taken ELSE SetItemState(taken, id, "ACTIVE_HALF_PLAYING")
           active == ActivateStream(ready, 2)
           told == IF active.res = "ACTIVATED" THEN EmitNowPlaying(active.s) ELSE active.s
           asked == [told EXCEPT !.pl.nextReq = "REQUESTED"]
<1>1. HandleStartOfStream(S) \in {Crash(S), QueueStreamFromUrlFifo(asked), told}
      /\ (id = None => HandleStartOfStream(S) = Crash(S))
  <2>1. id = None => S.pl.cur = None
    <3>1. pick.id = None \/ pick.id # None
      OBVIOUS
    <3>2. QED
      BY <3>1, PickNextItemFinds, FifoTypes
  <2>2. QED
    BY <2>1 DEF HandleStartOfStream
<1>2. /\ pick.id \in Streams \cup {None} /\ S.pl.cur \in Streams \cup {None}
      /\ pick.inFifo => S.fifo.queue # <<>> /\ pick.id = Peek(S.fifo) /\ pick.id # None
      /\ ~pick.inFifo /\ pick.id # None => pick.id = S.pl.cur
  BY PickNextItemFinds, FifoTypes
<1> HIDE DEF pick
<1>3. CASE id = None
  BY <1>1, <1>3, CrashAside, AsideLeads
<1>4. CASE id # None
  <2>1. Aside(S, fast)
    BY BoostAside
  <2>2. fast \in State
    BY <2>1 DEF Aside
  <2> HIDE DEF fast
  <2>3. Aside(S, noted)
    BY <2>1, <2>2, BugAside, AsideTrans DEF BugNames
  <2>4. noted \in State /\ noted.pl.cur = S.pl.cur /\ noted.fifo = S.fifo /\ Leads(S, noted)
    BY <2>3, AsideLeads DEF Aside
  <2> HIDE DEF noted
  <2>5. Leads(S, taken) /\ taken.pl.cur = id
    BY <1>2, <1>4, <2>4, PopToCurrentLeads, LeadsTrans
  <2>6. taken \in State /\ id \in Streams
    BY <1>2, <1>4, <2>5 DEF Leads
  <2> HIDE DEF taken, st, id
  <2>7. Leads(S, ready)
    BY <2>5, <2>6, SetItemStateLeads, LeadsTrans DEF ItemStates
  <2>8. ready \in State
    BY <2>7 DEF Leads
  <2> HIDE DEF ready
  <2>9. Leads(S, active.s)
    BY <2>7, <2>8, ActivateStreamLeads, LeadsTrans
  <2>10. active.s \in State
    BY <2>9 DEF Leads
  <2> HIDE DEF active
  <2>11. Leads(S, told)
    BY <2>9, <2>10, EmitNowPlayingLeads, LeadsTrans
  <2>12. told \in State
    BY <2>11 DEF Leads
  <2> HIDE DEF told
  <2>13. Leads(S, asked)
    BY <2>11, <2>12, NextReqAside, AsideLeads, LeadsTrans
  <2>14. asked \in State
    BY <2>13 DEF Leads
  <2> HIDE DEF asked
  <2>15. Leads(S, QueueStreamFromUrlFifo(asked))
    BY <2>13, <2>14, QueueStreamFromUrlFifoLeads, LeadsTrans
  <2>16. QED
    BY <1>1, <2>11, <2>15, CrashAside, AsideLeads
<1>5. QED
  BY <1>3, <1>4

LEMMA HandleStreamDurationAsyncLeads ==
    ASSUME NEW S \in State, NEW known
    PROVE  Leads(S, HandleStreamDurationAsync(S, known))
<1> DEFINE cur == S.pl.cur
           T == Throttle(S)
           r == DisableRealtime(T.item[cur])
<1>1. CASE known
  BY <1>1, LeadsSelf DEF HandleStreamDurationAsync
<1>2. CASE ~known /\ cur = None
  BY <1>2, CrashAside, AsideLeads DEF HandleStreamDurationAsync
<1>3. CASE ~known /\ cur # None
  <2>1. Aside(S, T) /\ ~T.threads.boosted
    BY ThrottleAside
  <2>2. T \in State /\ T.pl.cur = cur /\ cur \in Streams
    BY <1>3, <2>1, FifoTypes DEF Aside
  <2>3. [T EXCEPT !.item[cur] = r, !.calls = T.calls]
          = Throttle([S EXCEPT !.item[cur] = DisableRealtime(@)])
    BY DEF Throttle, State
  <2> HIDE DEF T
  <2>4. T.item[cur] \in ItemType /\ T.calls \in SUBSET CallType
    BY <2>2 DEF State
  <2>5. r \in ItemType /\ r.resolving = T.item[cur].resolving
    BY <2>4 DEF DisableRealtime, ItemType
  <2> HIDE DEF r
  <2>6. Good(T) => cur \notin Elems(T.fifo.queue)
    BY <2>2 DEF Good, QueueOk
  <2>7. Good(T) /\ cur \in Alive(T) => ResolverOk(cur, r.resolving, T.calls)
    BY <2>5 DEF Good, Alive, CallsOk
  <2>8. Leads(T, [T EXCEPT !.item[cur] = r, !.calls = T.calls])
    BY <2>1, <2>2, <2>4, <2>5, <2>6, <2>7, ItemLeads
  <2>9. HandleStreamDurationAsync(S, known) = Throttle([S EXCEPT !.item[cur] = DisableRealtime(@)])
    BY <1>3 DEF HandleStreamDurationAsync
  <2>10. QED
    BY <2>1, <2>3, <2>8, <2>9, AsideLeads, LeadsTrans
<1>4. QED
  BY <1>1, <1>2, <1>3

LEMMA HandleClockLostMessageLeads ==
    ASSUME NEW S \in State
    PROVE  Leads(S, HandleClockLostMessage(S))
<1> DEFINE T == SetStreamState(S, "PAUSED")
<1>1. {"PAUSED", "PLAYING"} \subseteq GstStates
  BY DEF GstStates
<1>2. Aside(S, T)
  BY <1>1, SetStreamStateAside
<1>3. T \in State
  BY <1>2 DEF Aside
<1> HIDE DEF T
<1>4. QED
  BY <1>1, <1>2, <1>3, SetStreamStateAside, AsideTrans, AsideLeads
     DEF HandleClockLostMessage, T

LEMMA HandleVideoDecoderLeads ==
    ASSUME NEW S \in State
    PROVE  Leads(S, HandleVideoDecoder(S))
<1> DEFINE cur == S.pl.cur
           r == [S.item[cur] EXCEPT !.prefailed = TRUE]
           marked == [S EXCEPT !.item[cur] = r]
           posted == [marked EXCEPT !.gst = Post(@, ErrorMessage("RETRY"))]
<1>1. CASE cur = None
  BY <1>1, LeadsSelf DEF HandleVideoDecoder
<1>2. CASE cur # None
  <2>1. cur \in Streams /\ S.item[cur] \in ItemType
    BY <1>2, FifoTypes DEF State
  <2>2. /\ r \in ItemType /\ r.state = S.item[cur].state /\ r.resolving = S.item[cur].resolving
        /\ r.realtime = S.item[cur].realtime
    BY <2>1 DEF ItemType
  <2>3. marked = [S EXCEPT !.item[cur].prefailed = TRUE]
    OBVIOUS
  <2>4. HandleVideoDecoder(S) \in {S, marked, posted}
    BY <2>3 DEF HandleVideoDecoder
  <2> HIDE DEF r
  <2>5. Leads(S, marked)
    BY <2>1, <2>2, DetailLeads
  <2>6. marked \in State
    BY <2>5 DEF Leads
  <2> HIDE DEF marked
  <2>7. Post(marked.gst, ErrorMessage("RETRY")) \in GstType
    <3>1. marked.gst \in GstType /\ ErrorMessage("RETRY") \in Messages
      BY <2>6, MessageTypes DEF State
    <3>2. QED
      BY <3>1, PostType
  <2>8. Leads(marked, posted)
    BY <2>6, <2>7, GstAside, AsideLeads
  <2>9. QED
    BY <2>4, <2>5, <2>8, LeadsSelf, LeadsTrans
<1>3. QED
  BY <1>1, <1>2

-----------------------------------------------------------------------------
(* Error messages *)

LEMMA SelectNextUrlType ==
    ASSUME NEW i, NEW it \in ItemType, NEW late
    PROVE  LET r == SelectNextUrl(i, it, late)
           IN  /\ r \in ItemType /\ r.state = it.state /\ r.resolving = it.resolving
               /\ r.realtime = it.realtime
<1>1. it.resolved \ {it.selected} \in SUBSET Nat /\ it.selected + 1 \in Nat \ {0}
  BY DEF ItemType
<1>2. QED
  BY <1>1 DEF SelectNextUrl, ItemType

LEMMA TryRefreshUriLeads ==
    ASSUME NEW S \in State, NEW late, NEW prefetching \in BOOLEAN
    PROVE  Leads(S, TryRefreshUri(S, late, prefetching).s)
<1> DEFINE cur == S.pl.cur
           r == SelectNextUrl(cur, S.item[cur], late)
           T == [S EXCEPT !.item[cur] = r]
           U == RebuildPlaybin(T)
           V == SetItemState(U, cur, "ABOUT_TO_ACTIVATE")
           other == [V EXCEPT !.pl.protected = TRUE]
           goal == IF S.ctl.status = "PLAYING" THEN "PLAYING" ELSE "PAUSED"
<1>1. CASE cur = None \/ ~HasNextUrl(cur, S.item[cur], late)
  BY <1>1, LeadsSelf DEF TryRefreshUri
<1>2. CASE ~(cur = None \/ ~HasNextUrl(cur, S.item[cur], late))
  <2>1. cur \in Streams /\ S.item[cur] \in ItemType /\ goal \in GstStates
    BY <1>2, FifoTypes DEF State, GstStates
  <2>2. TryRefreshUri(S, late, prefetching).s =
          ResolveSelectedUrlOrPlayUri(other, cur, goal, prefetching).s
    BY <1>2 DEF TryRefreshUri, SetItemState
  <2> HIDE DEF r, goal
  <2>3. Leads(S, T)
    BY <2>1, SelectNextUrlType, DetailLeads DEF r
  <2>4. T \in State /\ T.pl = S.pl
    BY <2>3 DEF Leads, State
  <2> HIDE DEF T
  <2>5. Aside(T, U)
    BY <2>4, RebuildPlaybinAside
  <2>6. U \in State /\ U.pl.cur = cur
    BY <2>4, <2>5 DEF Aside
  <2> HIDE DEF U
  <2>7. Leads(U, V)
    BY <2>1, <2>6, SetItemStateLeads DEF ItemStates
  <2>8. V \in State /\ V.pl = U.pl
    BY <2>6, <2>7 DEF Leads, SetItemState, State
  <2> HIDE DEF V
  <2>9. Aside(V, other)
    BY <2>8 DEF Aside, State, PlType
  <2>10. other \in State /\ Chosen(other, cur)
    BY <2>6, <2>8, <2>9 DEF Aside, Chosen
  <2> HIDE DEF other
  <2>11. Leads(other, ResolveSelectedUrlOrPlayUri(other, cur, goal, prefetching).s)
    BY <2>1, <2>10, ResolveSelectedUrlOrPlayUriLeads
  <2>12. Leads(S, U)
    BY <2>3, <2>5, AsideLeads, LeadsTrans
  <2>13. Leads(U, other)
    BY <2>7, <2>9, AsideLeads, LeadsTrans
  <2>14. QED
    BY <2>2, <2>11, <2>12, <2>13, LeadsTrans
<1>3. QED
  BY <1>1, <1>2

LEMMA FailCurrentLeads ==
    ASSUME NEW S \in State
    PROVE  Leads(S, FailCurrent(S))
<1> DEFINE T == [S EXCEPT !.item[S.pl.cur].failed = TRUE]
<1>1. Leads(S, T)
  BY FailItemLeads
<1>2. T \in State
  BY <1>1 DEF Leads
<1>3. FailCurrent(S) \in {S, DoErrorRecovery(T)}
  BY DEF FailCurrent
<1> HIDE DEF T
<1>4. Leads(S, DoErrorRecovery(T))
  BY <1>1, <1>2, DoErrorRecoveryLeads, LeadsTrans
<1>5. QED
  BY <1>3, <1>4, LeadsSelf

\* What comes after the signal.
LEMMA AfterFailureLeads ==
    ASSUME NEW S \in State
    PROVE  Leads(S, [S EXCEPT !.fail = NoFailure, !.pl.justStarted = FALSE,
                              !.pl.nextReq = "NOT_REQUESTED", !.pl.cur = None])
<1> DEFINE T == [S EXCEPT !.fail = NoFailure, !.pl.justStarted = FALSE,
                          !.pl.nextReq = "NOT_REQUESTED", !.pl.cur = None]
<1>1. /\ T \in State /\ T.pl.cur = None /\ T.pl.buf = S.pl.buf /\ T.fifo = S.fifo
      /\ T.item = S.item /\ T.calls = S.calls /\ T.threads = S.threads
      /\ T.client = S.client /\ T.bug = S.bug
  BY NoFailureType DEF State, PlType
<1> HIDE DEF T
<1>2. QED
  BY <1>1, NoCurrentLeads DEF T

\* The stream has been taken out of the queue before.
LEMMA FailPrefetchedLeads ==
    ASSUME NEW S \in State, NEW failed
    PROVE  /\ Goes(S, FailPrefetched(S, failed))
           /\ failed \notin Elems(S.fifo.queue) => Leads(S, FailPrefetched(S, failed))
<1> DEFINE marked == IF S.pl.cur = None
                     THEN S ELSE [S EXCEPT !.fifo = MarkAsDropped(@, S.pl.cur)]
           T == SetStreamState(marked, "NULL")
           U == EmitStoppedWithError(T, failed)
           V == [U EXCEPT !.fail = NoFailure, !.pl.justStarted = FALSE,
                          !.pl.nextReq = "NOT_REQUESTED", !.pl.cur = None]
<1>1. FailPrefetched(S, failed) = V
  BY DEF FailPrefetched
<1>2. Leads(S, marked)
  BY MarkLeads, LeadsSelf
<1>3. marked \in State
  BY <1>2 DEF Leads
<1> HIDE DEF marked
<1>4. Leads(marked, T)
  BY <1>3, SetStreamStateAside, AsideLeads DEF GstStates
<1>5. Leads(S, T)
  BY <1>2, <1>4, LeadsTrans
<1>6. T \in State /\ Elems(T.fifo.queue) \subseteq Elems(S.fifo.queue)
  BY <1>5 DEF Leads
<1> HIDE DEF T
<1>7. Goes(T, U) /\ (failed \notin Elems(S.fifo.queue) => Leads(T, U))
  BY <1>6, EmitStoppedWithErrorGoes, EmitStoppedWithErrorLeads
<1>8. U \in State
  BY <1>7 DEF Goes
<1> HIDE DEF U
<1>9. Leads(U, V)
  BY <1>8, AfterFailureLeads
<1> HIDE DEF V
<1>10. QED
  BY <1>1, <1>5, <1>7, <1>9, LeadsTrans, GoesTrans, LeadsGoes

LEMMA HandleErrorMessageLeads ==
    ASSUME NEW S \in State, NEW reason, NEW late
    PROVE  Leads(S, HandleErrorMessage(S, reason, late))
<1> DEFINE which == DetermineFailedStream(S)
           gapless == which \in {"GAPLESS_NEXT", "GAPLESS_NEXT_WITH_PREFAIL_REASON"}
           failed == Peek(S.fifo)
           popped == IF gapless THEN [S EXCEPT !.fifo = Pop(@)] ELSE S
           retry == \/ which = "CURRENT_WITH_PREFAIL_REASON"
                    \/ which \in {"CURRENT", "GAPLESS_NEXT"} /\ reason = "RETRY"
           again == IF retry THEN TryRefreshUri(popped, late, gapless)
                             ELSE [s |-> popped, ok |-> FALSE]
<1>1. \/ HandleErrorMessage(S, reason, late) \in
           {Crash(S), S, Bug(S, "NO_FAILED_ITEM"), again.s}
      \/ gapless /\ S.fifo.queue # <<>> /\
           HandleErrorMessage(S, reason, late) = FailPrefetched(again.s, failed)
      \/ HandleErrorMessage(S, reason, late) = FailCurrent(again.s)
  BY DEF HandleErrorMessage, IsEmpty
<1>2. Leads(S, popped)
  BY PopLeads, LeadsSelf
<1>3. popped \in State /\ gapless \in BOOLEAN
  BY <1>2 DEF Leads
<1>4. Good(S) /\ gapless /\ S.fifo.queue # <<>> => failed \notin Elems(popped.fifo.queue)
  <2>1. SUFFICES ASSUME Good(S), gapless, S.fifo.queue # <<>>
                 PROVE  failed \notin Elems(popped.fifo.queue)
    OBVIOUS
  <2>2. popped.fifo.queue = Tail(S.fifo.queue)
    BY <2>1 DEF Pop, IsEmpty, State, FifoType
  <2>3. Distinct(S.fifo.queue) /\ S.fifo.queue \in Seq(Streams)
    BY <2>1, FifoTypes DEF Good, QueueOk
  <2>4. QED
    BY <2>1, <2>2, <2>3, HeadOfQueue DEF Peek
<1> HIDE DEF which, gapless, failed, popped
<1>5. Leads(popped, again.s)
  BY <1>3, TryRefreshUriLeads, LeadsSelf
<1>6. again.s \in State /\ Elems(again.s.fifo.queue) \subseteq Elems(popped.fifo.queue)
  BY <1>5 DEF Leads
<1>7. Leads(S, again.s)
  BY <1>2, <1>5, LeadsTrans
<1> HIDE DEF again
<1>8. Leads(S, FailCurrent(again.s))
  BY <1>6, <1>7, FailCurrentLeads, LeadsTrans
<1>9. gapless /\ S.fifo.queue # <<>> => Leads(S, FailPrefetched(again.s, failed))
  <2>1. Goes(S, FailPrefetched(again.s, failed))
    BY <1>6, <1>7, FailPrefetchedLeads, GoesTrans, LeadsGoes
  <2>2. CASE Good(S)
    BY <1>4, <1>6, <1>7, <2>2, FailPrefetchedLeads, LeadsTrans
  <2>3. CASE ~Good(S)
    BY <2>1, <2>3, LeadsGoes
  <2>4. QED
    BY <2>2, <2>3
<1>10. Leads(S, Crash(S)) /\ Leads(S, Bug(S, "NO_FAILED_ITEM"))
  BY CrashAside, BugAside, AsideLeads DEF BugNames
<1>11. QED
  BY <1>1, <1>7, <1>8, <1>9, <1>10, LeadsSelf

\* Any message from the bus.
LEMMA HandleMessageLeads ==
    ASSUME NEW S \in State, NEW m \in Messages, NEW T \in HandleMessage(S, m)
    PROVE  Leads(S, T)
<1>1. m[1] \in {"STATE_CHANGED", "STREAM_START", "EOS", "BUFFERING", "ERROR", "ASYNC_DONE",
                "VIDEO_DECODER", "CLOCK_LOST"}
  BY DEF Messages, StateChanged, StreamStart, ErrorMessage, BufferingMessage, EndOfStream,
         VideoDecoderFound, ClockLost, AsyncDone
<1>2. CASE m[1] = "STATE_CHANGED"
  BY <1>2, HandleStreamStateChangeLeads DEF HandleMessage
<1>3. CASE m[1] = "STREAM_START"
  BY <1>3, HandleStartOfStreamLeads DEF HandleMessage
<1>4. CASE m[1] = "EOS"
  BY <1>4, HandleEndOfStreamLeads DEF HandleMessage
<1>5. CASE m[1] = "BUFFERING"
  BY <1>5, HandleBufferingAside, AsideLeads DEF HandleMessage
<1>6. CASE m[1] = "ERROR"
  BY <1>6, HandleErrorMessageLeads DEF HandleMessage
<1>7. CASE m[1] = "ASYNC_DONE"
  BY <1>7, HandleStreamDurationAsyncLeads DEF HandleMessage
<1>8. CASE m[1] = "VIDEO_DECODER"
  BY <1>8, HandleVideoDecoderLeads DEF HandleMessage
<1>9. CASE m[1] = "CLOCK_LOST"
  BY <1>9, HandleClockLostMessageLeads DEF HandleMessage
<1>10. QED
  BY <1>1, <1>2, <1>3, <1>4, <1>5, <1>6, <1>7, <1>8, <1>9

-----------------------------------------------------------------------------
(* Functions behind the D-Bus methods *)

LEMMA InactiveLeads ==
    ASSUME NEW S \in State
    PROVE  Leads(S, Inactive(S))
  BY BugAside, AsideLeads DEF Inactive, BugNames

LEMMA DoStartLeads ==
    ASSUME NEW S \in State
    PROVE  Leads(S, DoStart(S))
<1> DEFINE T == [S EXCEPT !.ctl.status = "PLAYING"]
           U == RebuildPlaybinForWorkarounds(T)
<1>1. DoStart(S) \in {Inactive(S), T, SetStreamState(T, "PLAYING"), TryPlayNextStream(U, "PLAYING")}
  BY DEF DoStart
<1>2. "PLAYING" \in GstStates /\ "PLAYING" \in Statuses
  BY DEF GstStates, Statuses
<1>3. Leads(S, T)
  BY <1>2, StatusAside, AsideLeads
<1>4. T \in State
  BY <1>3 DEF Leads
<1> HIDE DEF T
<1>5. Leads(S, SetStreamState(T, "PLAYING"))
  BY <1>2, <1>3, <1>4, SetStreamStateAside, AsideLeads, LeadsTrans
<1>6. Leads(S, U)
  BY <1>3, <1>4, RebuildPlaybinForWorkaroundsAside, AsideLeads, LeadsTrans
<1>7. U \in State
  BY <1>6 DEF Leads
<1> HIDE DEF U
<1>8. Leads(S, TryPlayNextStream(U, "PLAYING"))
  BY <1>2, <1>6, <1>7, TryPlayNextStreamLeads, LeadsTrans
<1>9. QED
  BY <1>1, <1>3, <1>5, <1>8, InactiveLeads

LEMMA StopPipelineLeads ==
    ASSUME NEW S \in State
    PROVE  Leads(S, StopPipeline(S).s) /\ StopPipeline(S).s.pl.cur = S.pl.cur
<1> DEFINE U == [S EXCEPT !.ctl.status = "STOPPED"]
           T == [U EXCEPT !.fifo = Clear(@, 0)]
<1>1. StopPipeline(S).s \in {SetStreamState(T, "READY"), T}
  <2>1. T = [S EXCEPT !.ctl.status = "STOPPED", !.fifo = Clear(@, 0)]
    BY DEF State
  <2>2. QED
    BY <2>1 DEF StopPipeline
<1>2. Aside(S, U)
  BY StatusAside DEF Statuses
<1>3. U \in State /\ U.pl.cur = S.pl.cur
  BY <1>2 DEF Aside
<1> HIDE DEF U
<1>4. Leads(U, T)
  BY <1>3, ClearLeads
<1>5. T \in State /\ T.pl = U.pl
  BY <1>3, <1>4 DEF Leads, State
<1>6. Leads(S, T)
  BY <1>2, <1>4, AsideLeads, LeadsTrans
<1> HIDE DEF T
<1>7. Aside(T, SetStreamState(T, "READY"))
  BY <1>5, SetStreamStateAside DEF GstStates
<1>8. Leads(S, SetStreamState(T, "READY")) /\ SetStreamState(T, "READY").pl.cur = T.pl.cur
  BY <1>6, <1>7, AsideLeads, LeadsTrans DEF Aside
<1>9. QED
  BY <1>1, <1>3, <1>5, <1>6, <1>8

LEMMA DoStopLeads ==
    ASSUME NEW S \in State
    PROVE  Leads(S, DoStop(S))
<1> DEFINE T == StopPipeline(S).s
           U == EmitStoppedWithError(T, S.pl.cur)
           V == [U EXCEPT !.pl.cur = None]
<1>1. DoStop(S) \in {Inactive(S), S, V, T}
  BY DEF DoStop
<1>2. Leads(S, T) /\ T.pl.cur = S.pl.cur
  BY StopPipelineLeads
<1>3. T \in State
  BY <1>2 DEF Leads
<1> HIDE DEF T
<1>4. Good(T) => S.pl.cur \notin Elems(T.fifo.queue)
  BY <1>2 DEF Good, QueueOk
<1>5. Leads(T, U)
  BY <1>3, <1>4, EmitStoppedWithErrorLeads
<1>6. U \in State
  BY <1>5 DEF Leads
<1> HIDE DEF U
<1>7. Leads(U, V)
  BY <1>6, ForgetCurrentLeads
<1> HIDE DEF V
<1>8. Leads(S, V)
  BY <1>2, <1>5, <1>7, LeadsTrans
<1>9. QED
  BY <1>1, <1>2, <1>8, InactiveLeads, LeadsSelf

LEMMA DoPauseLeads ==
    ASSUME NEW S \in State
    PROVE  Leads(S, DoPause(S))
<1> DEFINE T == [S EXCEPT !.ctl.status = "PAUSED"]
<1>1. DoPause(S) \in {Inactive(S), S, T, TryPlayNextStream(T, "PAUSED"), SetStreamState(T, "PAUSED")}
  BY DEF DoPause
<1>2. "PAUSED" \in GstStates /\ "PAUSED" \in Statuses
  BY DEF GstStates, Statuses
<1>3. Leads(S, T)
  BY <1>2, StatusAside, AsideLeads
<1>4. T \in State
  BY <1>3 DEF Leads
<1> HIDE DEF T
<1>5. Leads(S, SetStreamState(T, "PAUSED")) /\ Leads(S, TryPlayNextStream(T, "PAUSED"))
  BY <1>2, <1>3, <1>4, SetStreamStateAside, TryPlayNextStreamLeads, AsideLeads, LeadsTrans
<1>6. QED
  BY <1>1, <1>3, <1>5, InactiveLeads, LeadsSelf

LEMMA DoSeekLeads ==
    ASSUME NEW S \in State
    PROVE  Leads(S, DoSeek(S))
<1>1. DoSeek(S) \in {Inactive(S), S, DoEncourageBuffering(S)}
  BY DEF DoSeek
<1>2. QED
  BY <1>1, InactiveLeads, DoEncourageBufferingAside, AsideLeads, LeadsSelf

LEMMA DoActivateLeads ==
    ASSUME NEW S \in State
    PROVE  Leads(S, DoActivate(S)) /\ Leads(S, DoDeactivate(S))
<1> DEFINE T == [S EXCEPT !.ctl.activated = FALSE]
<1>1. Leads(S, [S EXCEPT !.ctl.activated = TRUE]) /\ Leads(S, T)
  <2>1. Aside(S, [S EXCEPT !.ctl.activated = TRUE]) /\ Aside(S, T)
    BY DEF Aside, State, CtlType
  <2>2. QED
    BY <2>1, AsideLeads
<1>2. Leads(S, Bug(S, "ALREADY_ACTIVATED")) /\ Leads(S, Bug(S, "ALREADY_DEACTIVATED"))
  BY BugAside, AsideLeads DEF BugNames
<1>3. T \in State
  BY <1>1 DEF Leads
<1> HIDE DEF T
<1>4. Leads(S, StopPipeline(T).s)
  BY <1>1, <1>3, StopPipelineLeads, LeadsTrans
<1>5. QED
  BY <1>1, <1>2, <1>4 DEF DoActivate, DoDeactivate, T

LEMMA GiveUpCurrentLeads ==
    ASSUME NEW S \in State
    PROVE  Leads(S, GiveUpCurrent(S))
<1> DEFINE cur == S.pl.cur
           T == SetItemState(S, cur, "ABOUT_TO_BE_SKIPPED")
           U == [T EXCEPT !.fifo = MarkAsDropped(@, cur)]
<1>1. cur # None => GiveUpCurrent(S) \in {U, [S EXCEPT !.pl.cur = None]}
  BY DEF GiveUpCurrent
<1>2. CASE cur = None
  BY <1>2, LeadsSelf DEF GiveUpCurrent
<1>3. CASE cur # None
  <2>1. Leads(S, T)
    BY <1>3, FifoTypes, SetItemStateLeads DEF ItemStates
  <2>2. T \in State /\ T.pl = S.pl
    BY <2>1 DEF Leads, SetItemState, State
  <2> HIDE DEF T
  <2>3. Leads(T, U)
    BY <1>3, <2>2, MarkLeads
  <2> HIDE DEF U
  <2>4. QED
    BY <1>1, <1>3, <2>1, <2>3, LeadsTrans, ForgetCurrentLeads
<1>4. QED
  BY <1>2, <1>3

LEMMA SkipCurrentLeads ==
    ASSUME NEW S \in State, NEW next \in Streams, NEW replaced, next = S.pl.cur
    PROVE  Leads(S, SkipCurrent(S, next, replaced))
<1> DEFINE cur == S.pl.cur
           T == CASE replaced -> S
                  [] ~replaced /\ S.item[cur].state = "IN_QUEUE" -> Bug(S, "WRONG_STATE_OF_CURRENT")
                  [] OTHER -> SetItemState(S, cur, "ABOUT_TO_BE_SKIPPED")
           goal == IF S.ctl.status = "STOPPED" THEN "READY" ELSE S.ctl.status
           U == SetStreamState(T, "READY")
           old == IF replaced THEN None ELSE cur
<1>1. SkipCurrent(S, next, replaced) = PlayNextStream(U, old, next, goal, TRUE, FALSE).s
  BY DEF SkipCurrent
<1>2. goal \in GstStates
  BY DEF State, CtlType, Statuses, GstStates
<1>3. /\ Leads(S, Bug(S, "WRONG_STATE_OF_CURRENT"))
      /\ Bug(S, "WRONG_STATE_OF_CURRENT").pl = S.pl
  BY BugAside, AsideLeads DEF BugNames, Bug, State
<1>4. /\ Leads(S, SetItemState(S, cur, "ABOUT_TO_BE_SKIPPED"))
      /\ SetItemState(S, cur, "ABOUT_TO_BE_SKIPPED").pl = S.pl
  <2>1. Leads(S, SetItemState(S, cur, "ABOUT_TO_BE_SKIPPED"))
    BY SetItemStateLeads DEF ItemStates
  <2>2. QED
    BY <2>1 DEF SetItemState, State
<1>5. Leads(S, T) /\ T.pl = S.pl
  BY <1>3, <1>4, LeadsSelf
<1>6. T \in State
  BY <1>5 DEF Leads
<1> HIDE DEF T, goal
<1>7. Aside(T, U)
  BY <1>6, SetStreamStateAside DEF GstStates
<1>8. U \in State /\ U.pl.cur = cur /\ Leads(S, U)
  BY <1>5, <1>7, AsideLeads, LeadsTrans DEF Aside
<1> HIDE DEF U
<1>9. old \in {None, U.pl.cur} /\ next = U.pl.cur
  BY <1>8
<1> HIDE DEF old
<1>10. Leads(U, PlayNextStream(U, old, next, goal, TRUE, FALSE).s)
  BY <1>2, <1>8, <1>9, PlayNextStreamLeads
<1>11. QED
  BY <1>1, <1>8, <1>10, LeadsTrans

LEMMA DoNextLeads ==
    ASSUME NEW S \in State, NEW onlyIfNotStopped
    PROVE  /\ Leads(S, DoNext(S, onlyIfNotStopped).s)
           /\ ~onlyIfNotStopped => DoNext(S, onlyIfNotStopped).skipped \in {None, S.pl.cur}
<1> DEFINE T == IF onlyIfNotStopped THEN GiveUpCurrent(S) ELSE S
           take == TryTakeNext(T)
           stopped(D) == [D EXCEPT !.ctl.status = "STOPPED"]
<1>1. /\ \/ DoNext(S, onlyIfNotStopped).s \in {Inactive(S), stopped(take.s), stopped(T)}
         \/ /\ take.next # None
            /\ DoNext(S, onlyIfNotStopped).s = SkipCurrent(take.s, take.next, take.replaced)
      /\ DoNext(S, onlyIfNotStopped).skipped \in {None, T.pl.cur}
  BY DEF DoNext
<1>2. Leads(S, T)
  BY GiveUpCurrentLeads, LeadsSelf
<1>3. T \in State /\ (~onlyIfNotStopped => T = S)
  BY <1>2 DEF Leads
<1> HIDE DEF T
<1>4. Leads(T, take.s) /\ (take.next # None => take.next \in Streams /\ take.next = take.s.pl.cur)
  BY <1>3, TryTakeNextLeads
<1>5. Leads(S, take.s)
  BY <1>2, <1>4, LeadsTrans
<1>6. take.s \in State
  BY <1>5 DEF Leads
<1> HIDE DEF take
<1>7. take.next # None => Leads(S, SkipCurrent(take.s, take.next, take.replaced))
  BY <1>4, <1>5, <1>6, SkipCurrentLeads, LeadsTrans
<1>8. Leads(S, stopped(take.s)) /\ Leads(S, stopped(T))
  BY <1>2, <1>3, <1>5, <1>6, StatusAside, AsideLeads, LeadsTrans DEF Statuses
<1> HIDE DEF stopped
<1>9. QED
  BY <1>1, <1>3, <1>7, <1>8, InactiveLeads

-----------------------------------------------------------------------------
(* Pushing a stream *)

\* What clear() takes out of the queue is among the streams to be reported.
LEMMA ClearKeepsStreams ==
    ASSUME NEW f \in FifoType(Streams), NEW keep \in Nat
    PROVE  DroppedIds(Clear(f, keep)) \subseteq DroppedIds(f) \cup Elems(f.queue)
<1> DEFINE g == Clear(f, keep)
<1>1. PICK n \in 0..Len(f.queue) : CutBehind(f, g, n)
  BY ClearCuts
<1>2. f.queue \in Seq(Streams) /\ f.removed \in Seq(Streams)
  BY DEF FifoType
<1> DEFINE b == SubSeq(f.queue, n + 1, Len(f.queue))
<1>3. b \in Seq(Streams) /\ Elems(b) \subseteq Elems(f.queue)
  BY <1>2, CutQueue
<1>4. g.removed = f.removed \o b /\ g.dropped = f.dropped
  BY <1>1 DEF CutBehind
<1> HIDE DEF g, b
<1>5. DroppedIds(g) = DroppedIds(f) \cup Elems(b)
  BY <1>2, <1>3, <1>4, ElemsConcat DEF DroppedIds
<1>6. QED
  BY <1>3, <1>5 DEF g

\* A new item at the end of the queue.
Appended(S, i) == [S EXCEPT !.fifo.queue = Append(@, i), !.client.owed = @ \cup {i}]

LEMMA AppendItem ==
    ASSUME NEW S \in State, NEW i \in Streams,
           i \notin Alive(S) \cup DroppedIds(S.fifo), S.item[i] = NewItem,
           \A c \in S.calls : c.id # i
    PROVE  /\ Appended(S, i) \in State /\ Appended(S, i).bug = S.bug
           /\ Good(S) => Good(Appended(S, i))
<1> DEFINE T == Appended(S, i)
           q == S.fifo.queue
           p == Append(q, i)
<1>1. q \in Seq(Streams) /\ S.fifo \in FifoType(Streams) /\ i # S.pl.cur /\ i \notin Elems(q)
  BY FifoTypes, StreamsAssumption DEF Alive, None
<1>2. /\ p \in Seq(Streams) /\ Len(p) = Len(q) + 1 /\ Len(q) \in Nat /\ p[Len(q) + 1] = i
      /\ \A n \in 1..Len(q) : p[n] = q[n]
  BY <1>1
<1>3. Elems(p) = Elems(q) \cup {i}
  BY <1>1, ElemsAppend
<1> DEFINE f == [S.fifo EXCEPT !.queue = p]
           c == [S.client EXCEPT !.owed = @ \cup {i}]
<1>4. T = [S EXCEPT !.fifo = f, !.client = c]
  BY DEF Appended
<1> HIDE DEF p, T
<1>5. /\ f \in FifoType(Streams) /\ f.queue = p /\ f.removed = S.fifo.removed
      /\ f.dropped = S.fifo.dropped
      /\ c \in ClientType /\ c.owed = S.client.owed \cup {i}
  BY <1>1, <1>2 DEF State, FifoType, ClientType
<1> HIDE DEF f, c
<1>6. /\ T \in State /\ T.pl = S.pl /\ T.item = S.item /\ T.calls = S.calls
      /\ T.threads = S.threads /\ T.bug = S.bug
      /\ T.fifo.queue = p /\ T.fifo.removed = S.fifo.removed /\ T.fifo.dropped = S.fifo.dropped
      /\ T.client.owed = S.client.owed \cup {i}
  BY <1>4, <1>5 DEF State
<1>7. ASSUME Good(S) PROVE Good(T)
  <2>1. Distinct(q) /\ ItemsOk(q, S.item)
    BY <1>7 DEF Good, QueueOk, q
  <2>2. \A n \in 1..Len(p) : n \in 1..Len(q) \/ n = Len(q) + 1
    BY <1>2
  <2>3. \A n \in 1..Len(q) : q[n] \in Elems(q)
    BY DEF Elems
  <2>4. Distinct(p)
    BY <1>1, <1>2, <2>1, <2>2, <2>3 DEF Distinct
  <2>5. ItemsOk(p, T.item)
    <3>1. S.item[i].realtime /\ S.item[i].state = "IN_QUEUE" /\ ~S.item[i].resolving
      BY DEF NewItem
    <3>2. SUFFICES ASSUME NEW n \in 1..Len(p)
                   PROVE  /\ S.item[p[n]].realtime
                          /\ \/ S.item[p[n]].state = "IN_QUEUE" /\ ~S.item[p[n]].resolving
                             \/ n = 1 /\ S.item[p[n]].state = "ABOUT_TO_ACTIVATE"
      BY <1>6 DEF ItemsOk
    <3>3. CASE n \in 1..Len(q)
      <4>1. p[n] = q[n]
        BY <1>2, <3>3
      <4>2. QED
        BY <2>1, <3>3, <4>1 DEF ItemsOk
    <3>4. CASE n = Len(q) + 1
      <4>1. p[n] = i
        BY <1>2, <3>4
      <4>2. QED
        BY <3>1, <4>1
    <3>5. QED
      BY <2>2, <3>3, <3>4
  <2>6. QueueOk(T.pl.cur, T.fifo, T.client.owed)
    BY <1>1, <1>3, <1>6, <1>7, <2>4 DEF Good, QueueOk, DroppedIds, q
  <2>7. CallsOk(T.pl.cur, p, T.item, T.calls)
    <3>1. ResolverOk(i, S.item[i].resolving, S.calls)
      BY DEF ResolverOk, NewItem
    <3>2. QED
      BY <1>3, <1>6, <1>7, <3>1 DEF Good, CallsOk, q
  <2>8. QED
    BY <1>6, <1>7, <2>5, <2>6, <2>7 DEF Good
<1>8. QED
  BY <1>6, <1>7 DEF T

\* Method Push, for a stream ID nobody knows.
LEMMA DoPushGood ==
    ASSUME NEW S \in State, Good(S), S.bug = {}, NEW i \in Streams, NEW keep \in Int,
           i \notin Alive(S), S.item[i] = NewItem, \A c \in S.calls : c.id # i
    PROVE  DoPush(S, i, keep) \in State /\ (Died(DoPush(S, i, keep)) \/ Good(DoPush(S, i, keep)))
<1> DEFINE told == Tell(S, {})
           n == CASE keep = -2 -> 0 [] keep < 0 /\ keep # -2 -> KeepAll [] OTHER -> keep
           cut == [told EXCEPT !.fifo = Clear(@, n)]
           pushed == [told EXCEPT !.fifo = Push(@, i, n), !.client.owed = @ \cup {i}]
           queued == QueueStreamFromUrlFifo(pushed)
           wanted == /\ S.pl.nextReq = "REQUESTED"
                     /\ S.pl.cur # None /\ S.item[S.pl.cur].state = "ABOUT_TO_PHASE_OUT"
           result == DoPush(S, i, keep)
<1>1. \/ result \in {Inactive(S), told}
      \/ ~PushRejected(told.fifo, n) /\ result \in {Tell(queued, {}), Tell(pushed, {})}
  <2>1. result = CASE ~S.ctl.activated -> Inactive(S)
                   [] S.ctl.activated /\ PushRejected(told.fifo, n) -> told
                   [] OTHER -> Tell(IF wanted THEN queued ELSE pushed, {})
    BY Zenon DEF DoPush
  <2> HIDE DEF n, told, pushed, queued, wanted, result
  <2>2. QED
    BY <2>1
<1>2. n \in Nat
  BY MaxItemsAssumption DEF KeepAll
<1> HIDE DEF n
<1>3. Leads(S, told) /\ told.pl = S.pl /\ told.item = S.item /\ told.fifo = TakeDropped(S.fifo)
  BY TellLeads
<1>4. /\ told \in State /\ told.calls = S.calls /\ told.bug = {} /\ told.fifo.queue = S.fifo.queue
      /\ DroppedIds(told.fifo) = {}
  <2>1. Elems(<<>>) = {}
    BY DEF Elems
  <2>2. DroppedIds(told.fifo) = {} /\ told.fifo.queue = S.fifo.queue
    BY <1>3, <2>1 DEF TakeDropped, DroppedIds, State, FifoType
  <2>3. QED
    BY <1>3, <2>2 DEF Leads, Tell, State
<1>5. Good(told)
  BY <1>3, <1>4 DEF Leads, Died
<1> HIDE DEF told
<1>6. Leads(told, cut)
  BY <1>2, <1>4, ClearLeads
<1>7. /\ cut \in State /\ cut.pl = told.pl /\ cut.item = told.item /\ cut.calls = told.calls
      /\ cut.bug = {} /\ cut.fifo = Clear(told.fifo, n)
      /\ Elems(cut.fifo.queue) \subseteq Elems(told.fifo.queue)
  BY <1>4, <1>6 DEF Leads, State
<1>8. Good(cut)
  BY <1>5, <1>6, <1>7 DEF Leads, Died
<1>9. DroppedIds(cut.fifo) \subseteq Elems(S.fifo.queue)
  <2>1. told.fifo \in FifoType(Streams)
    BY <1>4, FifoTypes
  <2>2. QED
    BY <1>2, <1>4, <1>7, <2>1, ClearKeepsStreams
<1>10. i \notin Alive(cut) \cup DroppedIds(cut.fifo)
  BY <1>3, <1>4, <1>7, <1>9 DEF Alive
<1>11. CASE ~PushRejected(told.fifo, n)
  <2>1. pushed = Appended(cut, i)
    BY <1>4, <1>11 DEF Push, State, Appended
  <2> HIDE DEF pushed, cut
  <2>2. cut.item[i] = NewItem /\ \A c \in cut.calls : c.id # i
    BY <1>3, <1>4, <1>7
  <2>3. pushed \in State /\ pushed.bug = cut.bug /\ (Good(cut) => Good(pushed))
    BY <1>7, <1>10, <2>1, <2>2, AppendItem
  <2>4. Leads(pushed, Tell(pushed, {}))
    BY <2>3, TellLeads
  <2>5. Leads(pushed, queued) /\ Good(pushed)
    BY <1>8, <2>3, QueueStreamFromUrlFifoLeads
  <2>6. queued \in State
    BY <2>5 DEF Leads
  <2> HIDE DEF queued
  <2>7. Leads(queued, Tell(queued, {}))
    BY <2>6, TellLeads
  <2>8. Leads(pushed, Tell(queued, {}))
    BY <2>5, <2>7, LeadsTrans
  <2>9. Leads(S, Inactive(S))
    BY InactiveLeads
  <2>10. QED
    BY <1>1, <1>4, <1>5, <2>4, <2>5, <2>8, <2>9 DEF Leads
<1>12. CASE PushRejected(told.fifo, n)
  <2>1. Leads(S, Inactive(S))
    BY InactiveLeads
  <2>2. QED
    BY <1>1, <1>4, <1>5, <1>12, <2>1 DEF Leads
<1>13. QED
  BY <1>11, <1>12

-----------------------------------------------------------------------------
(* The invariant *)

LEMMA NewItemType == NewItem \in ItemType
  BY DEF NewItem, ItemType, ItemStates

LEMMA InitInv == Init => Inv
<1>1. SUFFICES ASSUME Init PROVE Inv
  OBVIOUS
<1>2. Here = [ctl |-> [activated |-> FALSE, status |-> "STOPPED"],
              pl |-> [cur |-> None, protected |-> FALSE, nextReq |-> "NOT_REQUESTED",
                      justStarted |-> FALSE, buf |-> NotBuffering],
              watcher |-> "NONE", fail |-> NoFailure, fifo |-> EmptyFifo,
              item |-> [i \in Streams |-> NewItem], gst |-> InitialGst, calls |-> {},
              idle |-> 0, skip |-> FALSE, threads |-> BT!NoThreads,
              client |-> [told |-> None, owed |-> {}], bug |-> {}]
  BY <1>1 DEF Init, Here
<1>3. InitialGst \in GstType
  BY NewPipelineType, GstSetStateType DEF InitialGst, GstStates
<1>4. NotBuffering \in BufType /\ ~BufferFilled(NotBuffering)
  BY DEF NotBuffering, BufType, BufferingStates, Levels, BufferFilled
<1>5. EmptyFifo \in FifoType(Streams) /\ EmptyFifo.queue = <<>> /\ Elems(EmptyFifo.queue) = {}
  <2>1. <<>> \in Seq(Streams) /\ Elems(<<>>) = {}
    BY DEF Elems
  <2>2. QED
    BY <2>1 DEF EmptyFifo, FifoType
<1>6. BT!NoThreads \in ThreadsType /\ ThreadsOk(BT!NoThreads) /\ ~BT!NoThreads.boosted
  BY PriorityOfTask DEF BT!NoThreads, ThreadsType, ThreadsOk
<1>7. /\ [activated |-> FALSE, status |-> "STOPPED"] \in CtlType
      /\ [cur |-> None, protected |-> FALSE, nextReq |-> "NOT_REQUESTED",
          justStarted |-> FALSE, buf |-> NotBuffering] \in PlType
      /\ [told |-> None, owed |-> {}] \in ClientType
      /\ [i \in Streams |-> NewItem] \in [Streams -> ItemType]
  BY <1>4, NewItemType DEF CtlType, PlType, ClientType, Statuses
<1> HIDE DEF InitialGst, NotBuffering, EmptyFifo
<1>8. Here \in State
  BY <1>2, <1>3, <1>5, <1>6, <1>7, NoFailureType DEF State
<1>9. /\ Here.fifo = EmptyFifo /\ Here.pl.cur = None /\ Here.pl.buf = NotBuffering
      /\ Here.threads = BT!NoThreads /\ Here.client.owed = {}
  BY <1>2
<1>10. QueueOk(None, EmptyFifo, {})
  BY <1>5 DEF QueueOk, Distinct
<1>11. ItemsOk(EmptyFifo.queue, Here.item)
  BY <1>5 DEF ItemsOk
<1>12. CallsOk(None, EmptyFifo.queue, Here.item, Here.calls)
  BY <1>5 DEF CallsOk
<1>13. CalmOk(None, Here.item, NotBuffering, BT!NoThreads)
  BY <1>4, <1>6 DEF CalmOk
<1>14. Good(Here)
  BY <1>9, <1>10, <1>11, <1>12, <1>13 DEF Good
<1>15. DeadOk
  BY <1>1 DEF Init, DeadOk
<1>16. QED
  BY <1>8, <1>14, <1>15 DEF Inv

\* The end of a step: destroyed items are forgotten, and a process which has died stays put.
LEMMA BecomeInv ==
    ASSUME Inv, NEW S \in State, Died(S) \/ Good(S), Become(S)
    PROVE  Inv'
<1> DEFINE T == IF Died(S) THEN [Here EXCEPT !.bug = S.bug] ELSE S
           it == [i \in Streams |-> IF i \in Alive(T) THEN T.item[i] ELSE NewItem]
           H == [ctl |-> T.ctl, pl |-> T.pl, watcher |-> T.watcher, fail |-> T.fail,
                 fifo |-> T.fifo, item |-> it, gst |-> T.gst, calls |-> T.calls, idle |-> T.idle,
                 skip |-> T.skip, threads |-> T.threads, client |-> T.client, bug |-> {}]
<1>1. T \in State /\ Good(T)
  <2>1. CASE ~Died(S)
    BY <2>1
  <2>2. CASE Died(S)
    <3>1. Here \in State /\ Good(Here)
      BY DEF Inv
    <3>2. T = [Here EXCEPT !.bug = S.bug] /\ S.bug \in SUBSET BugNames
      BY <2>2 DEF State
    <3>3. /\ T \in State /\ T.pl = Here.pl /\ T.fifo = Here.fifo /\ T.item = Here.item
          /\ T.calls = Here.calls /\ T.threads = Here.threads /\ T.client = Here.client
      BY <3>1, <3>2 DEF State
    <3> HIDE DEF T
    <3>4. QED
      BY <3>1, <3>3 DEF Good
  <2>3. QED
    BY <2>1, <2>2
<1>2. /\ ctl' = T.ctl /\ pl' = T.pl /\ watcher' = T.watcher /\ fail' = T.fail /\ fifo' = T.fifo
      /\ item' = it
      /\ gst' = T.gst /\ calls' = T.calls /\ idle' = T.idle /\ skip' = T.skip
      /\ threads' = T.threads /\ client' = T.client
  BY DEF Become
<1> HIDE DEF T
<1>3. it \in [Streams -> ItemType] /\ \A i \in Streams \cap Alive(T) : it[i] = T.item[i]
  BY <1>1, NewItemType DEF State
<1> HIDE DEF it
<1>4. Here' = H
  BY <1>2 DEF Here
<1>5. /\ H \in State /\ H.pl = T.pl /\ H.fifo = T.fifo /\ H.item = it /\ H.calls = T.calls
      /\ H.threads = T.threads /\ H.client = T.client
  BY <1>1, <1>3 DEF State
<1> HIDE DEF H
<1>6. /\ Alive(T) \subseteq Streams /\ \A n \in 1..Len(T.fifo.queue) : T.fifo.queue[n] \in Alive(T)
      /\ T.pl.cur # None => T.pl.cur \in Alive(T)
  BY <1>1, FifoTypes DEF Alive, Elems
<1>7. Good(H)
  <2>1. ItemsOk(H.fifo.queue, H.item)
    <3>1. \A n \in 1..Len(T.fifo.queue) : it[T.fifo.queue[n]] = T.item[T.fifo.queue[n]]
      BY <1>3, <1>6
    <3>2. ItemsOk(T.fifo.queue, T.item)
      BY <1>1 DEF Good
    <3>3. QED
      BY <1>5, <3>1, <3>2 DEF ItemsOk
  <2>2. CallsOk(H.pl.cur, H.fifo.queue, H.item, H.calls)
    BY <1>1, <1>3, <1>5, <1>6 DEF Good, CallsOk, Alive
  <2>3. CalmOk(H.pl.cur, H.item, H.pl.buf, H.threads)
    BY <1>1, <1>3, <1>5, <1>6 DEF Good, CalmOk
  <2>4. QED
    BY <1>1, <1>5, <2>1, <2>2, <2>3 DEF Good
<1>8. DeadOk'
  <2>1. Alive(Here)' = Alive(T)
    BY <1>4, <1>5 DEF Alive
  <2>2. QED
    BY <1>2, <2>1 DEF DeadOk, it
<1>9. QED
  BY <1>4, <1>5, <1>7, <1>8 DEF Inv

\* A step which is a function of the record of variables.
LEMMA LeadsInv ==
    ASSUME Inv, NEW S, Leads(Here, S), Become(S)
    PROVE  Inv'
<1>1. S \in State /\ (Died(S) \/ Good(S))
  BY DEF Inv, Leads
<1>2. QED
  BY <1>1, BecomeInv

-----------------------------------------------------------------------------
(* The steps *)

\* What GStreamer's own threads do to the pipeline.
LEMMA GstTypes ==
    ASSUME NEW g \in GstType
    PROVE  /\ Commit(g) \in GstType /\ Prefetch(g) \in GstType /\ StartStream(g) \in GstType
           /\ Drain(g) \in GstType /\ Finish(g) \in GstType /\ Finished(g) \in GstType
<1> DEFINE to == IF g.state = "PAUSED" THEN "PLAYING" ELSE "PAUSED"
           left == IF g.pending = to THEN "VOID" ELSE g.pending
           there == [g EXCEPT !.state = to, !.pending = left]
<1>1. to \in GstStates /\ left \in GstStates /\ g.state \in GstStates /\ g.curUri \in Uris
  BY DEF GstType, GstStates
<1>2. Commit(g) = Post(there, StateChanged(g.state, to, left))
  BY DEF Commit
<1> HIDE DEF to, left
<1>3. there \in GstType
  BY <1>1 DEF GstType
<1> HIDE DEF there
<1>4. Commit(g) \in GstType
  BY <1>1, <1>2, <1>3, PostType, MessageTypes
<1>5. Prefetch(g) \in GstType /\ Finish(g) \in GstType /\ Finished(g) \in GstType
  BY DEF Prefetch, Finish, Finished, GstType
<1>6. [g EXCEPT !.heard = g.curUri] \in GstType /\ [g EXCEPT !.drained = TRUE] \in GstType
  BY DEF GstType
<1>7. StartStream(g) \in GstType /\ Drain(g) \in GstType
  BY <1>1, <1>6, PostType, MessageTypes DEF StartStream, Drain
<1>8. QED
  BY <1>4, <1>5, <1>7

LEMMA HereTypes ==
    ASSUME Inv
    PROVE  /\ Here \in State /\ Good(Here)
           /\ Here.gst = gst /\ gst \in GstType
           /\ Here.idle = idle /\ idle \in Nat
           /\ Here.pl = pl /\ Here.fifo = fifo /\ Here.item = item /\ Here.calls = calls
           /\ Here.threads = threads /\ Here.client = client /\ Here.bug = {}
  BY DEF Inv, Here, State

LEMMA GstStepInv ==
    ASSUME Inv, NEW g \in GstType, GstStep(g)
    PROVE  Inv'
<1>1. Leads(Here, [Here EXCEPT !.gst = g])
  BY HereTypes, GstAside, AsideLeads
<1>2. QED
  BY <1>1, LeadsInv DEF GstStep

\* GStreamer posts messages and goes on.
LEMMA PipelineInv ==
    ASSUME Inv, Gst
    PROVE  Inv'
<1>1. gst \in GstType
  BY HereTypes
<1>2. CASE GstCommit
  <2>1. Commit(gst) \in GstType /\ Post(Commit(gst), AsyncDone) \in GstType
    BY <1>1, GstTypes, PostType, MessageTypes
  <2>2. QED
    BY <1>2, <2>1, GstStepInv DEF GstCommit
<1>3. CASE GstPrefetch
  BY <1>1, <1>3, GstTypes, GstStepInv DEF GstPrefetch
<1>4. CASE GstStartStream
  BY <1>1, <1>4, GstTypes, GstStepInv DEF GstStartStream
<1>5. CASE GstDrain
  BY <1>1, <1>5, GstTypes, GstStepInv DEF GstDrain
<1>6. ASSUME NEW percent \in Percents, GstBuffering(percent) PROVE Inv'
  <2>1. Post(gst, BufferingMessage(percent)) \in GstType
    BY <1>1, PostType, MessageTypes
  <2>2. QED
    BY <1>6, <2>1, GstStepInv DEF GstBuffering
<1>7. ASSUME NEW reason \in Reasons, GstError(reason) PROVE Inv'
  <2>1. Post(gst, ErrorMessage(reason)) \in GstType
    BY <1>1, PostType, MessageTypes
  <2>2. QED
    BY <1>7, <2>1, GstStepInv DEF GstError
<1>8. ASSUME NEW event, GstEvent(event) PROVE Inv'
  <2>1. event \in {VideoDecoderFound, ClockLost} /\ GstStep(Post(gst, event))
    BY <1>8 DEF GstEvent
  <2>2. Post(gst, event) \in GstType
    BY <1>1, <2>1, PostType, MessageTypes
  <2>3. QED
    BY <2>1, <2>2, GstStepInv
<1>9. ASSUME NEW th \in ThreadsType, ThreadsOk(th), th.boosted = threads.boosted,
             Become([Here EXCEPT !.threads = th])
      PROVE  Inv'
  <2> DEFINE T == [Here EXCEPT !.threads = th]
  <2>1. /\ T \in State /\ T.pl = Here.pl /\ T.fifo = Here.fifo /\ T.item = Here.item
        /\ T.calls = Here.calls /\ T.client = Here.client /\ T.threads = th
    BY <1>9, HereTypes DEF State
  <2> HIDE DEF T
  <2>2. Good(T)
    BY <1>9, <2>1, HereTypes DEF Good, CalmOk
  <2>3. QED
    BY <1>9, <2>1, <2>2, BecomeInv DEF T
<1>10. threads \in ThreadsType /\ ThreadsOk(threads)
  BY HereTypes DEF State, Good, CalmOk
<1>11. ASSUME NEW t \in Pool, ThreadLeaves(t) PROVE Inv'
  <2>1. /\ BT!Leave(threads, t) \in ThreadsType /\ ThreadsOk(BT!Leave(threads, t))
        /\ BT!Leave(threads, t).boosted = threads.boosted
    BY <1>10, LeaveThreads
  <2>2. Become([Here EXCEPT !.threads = BT!Leave(threads, t)])
    BY <1>11, HereTypes DEF ThreadLeaves
  <2>3. QED
    BY <1>9, <2>1, <2>2
<1>12. ASSUME NEW t \in Pool, NEW name \in Tasks, ThreadEnters(t, name) PROVE Inv'
  <2>1. /\ BT!Enter(threads, t, name) \in ThreadsType /\ ThreadsOk(BT!Enter(threads, t, name))
        /\ BT!Enter(threads, t, name).boosted = threads.boosted
    BY <1>10, <1>12, EnterThreads DEF ThreadEnters
  <2>2. Become([Here EXCEPT !.threads = BT!Enter(threads, t, name)])
    BY <1>12, HereTypes DEF ThreadEnters
  <2>3. QED
    BY <1>9, <2>1, <2>2
<1>13. QED
  BY <1>2, <1>3, <1>4, <1>5, <1>6, <1>7, <1>8, <1>11, <1>12 DEF Gst

\* A stream the reply tells about.
LEMMA ReplyLeads ==
    ASSUME NEW S \in State, NEW x, x \notin Elems(S.fifo.queue)
    PROVE  Leads(S, [S EXCEPT !.client.owed = @ \ {x}])
<1> DEFINE T == [S EXCEPT !.client.owed = @ \ {x}]
<1>1. /\ T \in State /\ T.pl = S.pl /\ T.item = S.item /\ T.calls = S.calls
      /\ T.threads = S.threads /\ T.bug = S.bug /\ T.fifo = S.fifo
      /\ T.client.owed = S.client.owed \ {x}
  BY DEF State, ClientType
<1> HIDE DEF T
<1>2. Good(S) => Good(T)
  BY <1>1 DEF Good, QueueOk
<1>3. QED
  BY <1>1, <1>2 DEF Leads, T

LEMMA SkipToNextInv ==
    ASSUME Inv, SkipToNext
    PROVE  Inv'
<1> DEFINE done == DoNext(Here, FALSE)
           T == [done.s EXCEPT !.client.owed = @ \ {done.skipped}]
<1>1. Leads(Here, done.s) /\ done.skipped \in {None, pl.cur}
  BY HereTypes, DoNextLeads
<1>2. Become(T)
  BY DEF SkipToNext
<1> HIDE DEF done
<1>3. done.s \in State /\ Elems(done.s.fifo.queue) \subseteq Elems(fifo.queue)
  BY <1>1, HereTypes DEF Leads
<1>4. done.skipped \notin Elems(fifo.queue)
  BY <1>1, HereTypes, FifoTypes DEF Good, QueueOk
<1>5. Leads(done.s, T)
  BY <1>3, <1>4, ReplyLeads
<1> HIDE DEF T
<1>6. QED
  BY <1>1, <1>2, <1>5, LeadsTrans, LeadsInv

LEMMA PushStreamInv ==
    ASSUME Inv, NEW i \in Streams, NEW keep \in KeepArgs, PushStream(i, keep)
    PROVE  Inv'
<1> DEFINE S == DoPush(Here, i, keep)
           T == [S EXCEPT !.skip = (keep = -2)]
<1>1. /\ i \notin Alive(Here) /\ item[i] = NewItem /\ \A c \in calls : c.id # i
      /\ keep \in Int
  BY ArgsAssumption DEF PushStream, Fresh, Inv, DeadOk
<1>2. S \in State /\ (Died(S) \/ Good(S))
  BY <1>1, HereTypes, DoPushGood
<1>3. Become(T)
  BY DEF PushStream
<1> HIDE DEF S
<1>4. Leads(S, T)
  BY <1>2, SkipAside, AsideLeads
<1>5. T \in State /\ (Died(T) \/ Good(T))
  BY <1>2, <1>4 DEF Leads, Died
<1> HIDE DEF T
<1>6. QED
  BY <1>3, <1>5, BecomeInv

LEMMA ClearQueueInv ==
    ASSUME Inv, NEW keep \in ClearArgs, ClearQueue(keep)
    PROVE  Inv'
<1> DEFINE S == [Here EXCEPT !.fifo = IF keep >= 0 THEN Clear(@, keep) ELSE @]
<1>1. keep \in Int
  BY ArgsAssumption
<1>2. Leads(Here, S)
  <2>1. CASE keep >= 0
    <3>1. keep \in Nat
      BY <1>1, <2>1
    <3>2. S = [Here EXCEPT !.fifo = Clear(@, keep)]
      BY <2>1
    <3>3. QED
      BY <3>1, <3>2, HereTypes, ClearLeads
  <2>2. CASE ~(keep >= 0)
    <3>1. S = Here
      BY <2>2, HereTypes DEF State
    <3>2. QED
      BY <3>1, HereTypes, LeadsSelf
  <2>3. QED
    BY <2>1, <2>2
<1>3. Become(Tell(S, {}))
  BY DEF ClearQueue
<1>4. S \in State
  BY <1>2 DEF Leads
<1> HIDE DEF S
<1>5. Leads(S, Tell(S, {}))
  BY <1>4, TellLeads
<1>6. QED
  BY <1>2, <1>3, <1>5, LeadsTrans, LeadsInv

\* The D-Bus methods.
LEMMA ClientInv ==
    ASSUME Inv, Client
    PROVE  Inv'
<1>1. Here \in State
  BY HereTypes
<1>2. CASE Activate
  BY <1>1, <1>2, DoActivateLeads, LeadsInv DEF Activate
<1>3. CASE Deactivate
  BY <1>1, <1>3, DoActivateLeads, LeadsInv DEF Deactivate
<1>4. CASE Start
  BY <1>1, <1>4, DoStartLeads, LeadsInv DEF Start
<1>5. CASE Stop
  BY <1>1, <1>5, DoStopLeads, LeadsInv DEF Stop
<1>6. CASE Pause
  BY <1>1, <1>6, DoPauseLeads, LeadsInv DEF Pause
<1>7. CASE Seek
  BY <1>1, <1>7, DoSeekLeads, LeadsInv DEF Seek
<1>8. CASE DeviceRemoved
  <2>1. Leads(Here, DeviceWillBeRemoved(Here))
    BY <1>1, DoStopLeads, LeadsSelf DEF DeviceWillBeRemoved
  <2>2. QED
    BY <1>8, <2>1, LeadsInv DEF DeviceRemoved
<1>9. QED
  BY <1>2, <1>3, <1>4, <1>5, <1>6, <1>7, <1>8, SkipToNextInv, PushStreamInv, ClearQueueInv
     DEF Client

LEMMA PushThenSkipInv ==
    ASSUME Inv, PushThenSkip
    PROVE  Inv'
<1> DEFINE S == DoNext(Here, TRUE).s
           T == [S EXCEPT !.skip = FALSE]
<1>1. Leads(Here, S)
  BY HereTypes, DoNextLeads
<1>2. Become(T)
  BY DEF PushThenSkip
<1>3. S \in State
  BY <1>1 DEF Leads
<1> HIDE DEF S
<1>4. Leads(S, T)
  BY <1>3, SkipAside, AsideLeads
<1> HIDE DEF T
<1>5. QED
  BY <1>1, <1>2, <1>4, LeadsTrans, LeadsInv

LEMMA MainLoopInv ==
    ASSUME Inv, RestartPlaying \/ ReportProgress \/ HandleBus
    PROVE  Inv'
<1>1. CASE RestartPlaying
  <2> DEFINE R == [Here EXCEPT !.idle = @ - 1]
  <2>1. Become(DoStart(R))
    BY <1>1 DEF RestartPlaying
  <2>2. idle - 1 \in Nat
    BY <1>1, HereTypes DEF RestartPlaying
  <2>3. R = [Here EXCEPT !.idle = idle - 1]
    BY HereTypes
  <2> HIDE DEF R
  <2>4. Leads(Here, R)
    BY <2>2, <2>3, HereTypes, IdleAside, AsideLeads
  <2>5. R \in State
    BY <2>4 DEF Leads
  <2>6. QED
    BY <2>1, <2>4, <2>5, DoStartLeads, LeadsTrans, LeadsInv
<1>2. CASE ReportProgress
  <2>1. Leads(Here, [Here EXCEPT !.watcher = "NONE"])
    BY HereTypes, WatcherAside, AsideLeads
  <2>2. QED
    BY <1>2, <2>1, LeadsInv DEF ReportProgress
<1>3. CASE HandleBus
  <2> DEFINE R == [Here EXCEPT !.gst.bus = Tail(@)]
             g == [gst EXCEPT !.bus = Tail(@)]
  <2>1. PICK S \in HandleMessage(R, Head(gst.bus)) : Become(S)
    BY <1>3 DEF HandleBus
  <2>2. gst.bus \in Seq(Messages) /\ gst.bus # <<>> /\ gst \in GstType
    BY <1>3, HereTypes DEF HandleBus, GstType
  <2>3. Tail(gst.bus) \in Seq(Messages) /\ Head(gst.bus) \in Messages
    BY <2>2
  <2>4. g \in GstType
    BY <2>2, <2>3 DEF GstType
  <2>5. R = [Here EXCEPT !.gst = g]
    BY HereTypes
  <2> HIDE DEF R, g
  <2>6. Leads(Here, R)
    BY <2>4, <2>5, HereTypes, GstAside, AsideLeads
  <2>7. R \in State
    BY <2>6 DEF Leads
  <2>8. Leads(R, S)
    BY <2>1, <2>3, <2>7, HandleMessageLeads
  <2>9. QED
    BY <2>1, <2>6, <2>8, LeadsTrans, LeadsInv
<1>4. QED
  BY <1>1, <1>2, <1>3

LEMMA AboutToFinishInv ==
    ASSUME Inv, AboutToFinish
    PROVE  Inv'
<1> DEFINE U == [Here EXCEPT !.gst = Finish(gst)]
           R == [U EXCEPT !.pl.nextReq = "REQUESTED"]
           Q == QueueStreamFromUrlFifo(R)
           T == [Q EXCEPT !.gst = Finished(@)]
<1>1. Become(T)
  <2>1. R = [Here EXCEPT !.gst = Finish(@), !.pl.nextReq = "REQUESTED"]
    BY HereTypes DEF State
  <2>2. QED
    BY <2>1 DEF AboutToFinish
<1>2. Leads(Here, U)
  BY HereTypes, GstTypes, GstAside, AsideLeads
<1>3. U \in State
  BY <1>2 DEF Leads
<1> HIDE DEF U
<1>4. Leads(U, R)
  BY <1>3, NextReqAside, AsideLeads
<1>5. R \in State
  BY <1>4 DEF Leads
<1> HIDE DEF R
<1>6. Leads(R, Q)
  BY <1>5, QueueStreamFromUrlFifoLeads
<1>7. Q \in State
  BY <1>6 DEF Leads
<1> HIDE DEF Q
<1>8. Finished(Q.gst) \in GstType
  BY <1>7, GstTypes DEF State
<1>9. Leads(Q, T)
  BY <1>7, <1>8, GstAside, AsideLeads
<1> HIDE DEF T
<1>10. QED
  BY <1>1, <1>2, <1>4, <1>6, <1>9, LeadsTrans, LeadsInv

(***************************************************************************)
(* The answer of the list broker finds the item which has asked for it, or *)
(* no item at all: resolver_finish() is called for the one item whose      *)
(* resolver the call is.                                                   *)
(***************************************************************************)
LEMMA ResolverDoneInv ==
    ASSUME Inv, NEW c \in calls, NEW resolved \in BOOLEAN, ResolverDone(c, resolved)
    PROVE  Inv'
<1> DEFINE i == c.id
           cs == calls \ {c}
           S == [Here EXCEPT !.calls = @ \ {c}]
           yes == [S EXCEPT !.item[i] = ResolverResolved(@)]
           no == [S EXCEPT !.item[i] = ResolverFailed(@)]
           next == [no EXCEPT !.item[i] = SelectNextUrl(i, @, FALSE)]
<1>1. /\ c \in CallType /\ i \in Streams /\ Broker[i] = "COOKIE" /\ c.nextState \in GstStates
      /\ c.prefetching \in BOOLEAN /\ calls \subseteq CallType /\ cs \in SUBSET CallType
      /\ \A d \in CallType : d.id # i => (d \in cs <=> d \in calls)
  <2>1. calls \subseteq CallType
    BY HereTypes DEF State
  <2>2. c \in CallType
    BY <2>1
  <2>3. /\ i \in Streams /\ Broker[i] = "COOKIE" /\ c.nextState \in GstStates
        /\ c.prefetching \in BOOLEAN
    BY <2>2 DEF CallType
  <2>4. QED
    BY <2>1, <2>2, <2>3
<1>2. /\ item[i] \in ItemType /\ fifo.queue \in Seq(Streams)
      /\ pl.cur \in Streams \cup {None} /\ i # None
  <2>1. item[i] \in ItemType
    BY <1>1, HereTypes DEF State
  <2>2. fifo.queue \in Seq(Streams) /\ pl.cur \in Streams \cup {None}
    BY HereTypes, FifoTypes
  <2>3. QED
    BY <1>1, <2>1, <2>2, StreamsAssumption DEF None
<1>3. ASSUME i \in Alive(Here)
      PROVE  item[i].resolving /\ ResolverOk(i, FALSE, cs)
  <2>1. ResolverOk(i, item[i].resolving, calls)
    BY <1>3, HereTypes DEF Good, CallsOk, Alive
  <2>2. /\ item[i].resolving <=> \E d \in calls : d.id = i
        /\ \A d, e \in calls : d.id = i /\ e.id = i => d = e
    BY <1>1, <2>1 DEF ResolverOk
  <2>3. \A d \in cs : d.id # i
    BY <2>2
  <2>4. QED
    BY <2>2, <2>3 DEF ResolverOk
<1>4. ASSUME i \in Elems(fifo.queue)
      PROVE  /\ ~IsEmpty(fifo) /\ i = Peek(fifo) /\ i = fifo.queue[1]
             /\ item[i].state = "ABOUT_TO_ACTIVATE" /\ item[i].realtime
  <2>1. item[i].resolving
    BY <1>3, <1>4, HereTypes DEF Alive
  <2>2. PICK n \in 1..Len(fifo.queue) : fifo.queue[n] = i
    BY <1>2, <1>4 DEF Elems
  <2>3. n = 1 /\ item[i].state = "ABOUT_TO_ACTIVATE" /\ item[i].realtime
    BY <2>1, <2>2, HereTypes DEF Good, ItemsOk
  <2>4. fifo.queue # <<>>
    BY <2>2, <1>2
  <2>5. QED
    BY <2>2, <2>3, <2>4 DEF IsEmpty, Size, Peek
<1>5. Become(CASE ResolverTarget(i) = None -> S
               [] ResolverTarget(i) # None /\ resolved ->
                    OnLinkResolved(yes, i, c.nextState, c.prefetching).s
               [] OTHER -> IF item[i].selected < Len(Urls[i])
                           THEN ResolveSelectedUrlOrPlayUri(next, i, c.nextState,
                                                            c.prefetching).s
                           ELSE Bug(no, "NOT_IMPLEMENTED"))
  BY DEF ResolverDone
<1>6. S = [Here EXCEPT !.calls = cs]
  BY HereTypes
<1>7. CASE ResolverTarget(i) = None
  <2>1. i \notin Alive(Here)
    BY <1>2, <1>4, <1>7, HereTypes DEF ResolverTarget, Alive
  <2>2. i \notin Elems(fifo.queue) /\ i # pl.cur
    BY <1>2, <2>1, HereTypes DEF Alive
  <2> HIDE DEF i, cs
  <2>3. Leads(Here, [Here EXCEPT !.item[i] = item[i], !.calls = cs])
    BY <1>1, <1>2, <2>1, <2>2, HereTypes, ItemLeads
  <2>4. [Here EXCEPT !.item[i] = item[i], !.calls = cs] = S
    BY <1>1, <1>6, HereTypes DEF State
  <2>5. Become(S)
    BY <1>5, <1>7
  <2>6. QED
    BY <2>3, <2>4, <2>5, LeadsInv
<1>8. CASE ResolverTarget(i) # None
  <2>1. i = pl.cur \/ (fifo.queue # <<>> /\ i = Peek(fifo))
    BY <1>2, <1>8 DEF ResolverTarget, IsEmpty, Size
  <2>2. ASSUME NEW r \in ItemType, r.state = item[i].state, r.realtime = item[i].realtime,
               ~r.resolving
        PROVE  Leads(Here, [Here EXCEPT !.item[i] = r, !.calls = cs])
    <3>1. i \in Elems(fifo.queue) => r.realtime
      BY <1>4, <2>2
    <3>2. i = pl.cur /\ threads.boosted => r.realtime
      BY <1>2, <2>2, HereTypes DEF Good, CalmOk
    <3>3. i \in Elems(fifo.queue) => i = fifo.queue[1] /\ r.state = "ABOUT_TO_ACTIVATE"
      BY <1>4, <2>2
    <3>4. i \in Alive(Here) => ResolverOk(i, r.resolving, cs)
      <4>1. r.resolving = FALSE
        BY <2>2 DEF ItemType
      <4>2. QED
        BY <1>3, <4>1
    <3> HIDE DEF i, cs
    <3>5. QED
      BY <1>1, <3>1, <3>2, <3>3, <3>4, HereTypes, ItemLeads
  <2>3. \A r : [Here EXCEPT !.item[i] = r, !.calls = cs] = [S EXCEPT !.item[i] = r]
    BY <1>6, HereTypes DEF State
  <2>4. S.item = item
    BY <1>6, HereTypes DEF State
  <2>5. Leads(Here, yes)
    <3> DEFINE r == ResolverResolved(item[i])
    <3>1. item[i].resolved \cup {item[i].selected} \in SUBSET Nat
      BY <1>2 DEF ItemType
    <3>2. r \in ItemType /\ r.state = item[i].state /\ r.realtime = item[i].realtime /\ ~r.resolving
      BY <1>2, <3>1 DEF ResolverResolved, ItemType
    <3>3. yes = [S EXCEPT !.item[i] = r]
      BY <2>4
    <3> HIDE DEF r, yes, S, i, cs
    <3>4. QED
      BY <2>2, <2>3, <3>2, <3>3
  <2>6. Leads(Here, no) /\ no.item[i] = ResolverFailed(item[i])
    <3> DEFINE r == ResolverFailed(item[i])
    <3>1. item[i].resolved \ {item[i].selected} \in SUBSET Nat
      BY <1>2 DEF ItemType
    <3>2. r \in ItemType /\ r.state = item[i].state /\ r.realtime = item[i].realtime /\ ~r.resolving
      BY <1>2, <3>1 DEF ResolverFailed, ItemType
    <3>3. no = [S EXCEPT !.item[i] = r]
      BY <2>4
    <3>4. no.item[i] = r
      BY <1>1, <2>4, <3>3, HereTypes DEF State
    <3> HIDE DEF r, no, S, i, cs
    <3>5. QED
      BY <2>2, <2>3, <3>2, <3>3, <3>4 DEF r
  <2>7. no.pl = pl /\ no.fifo = fifo
    BY HereTypes DEF State
  <2>8. yes \in State /\ no \in State
    BY <2>5, <2>6 DEF Leads
  <2>9. CASE resolved
    <3>1. Become(OnLinkResolved(yes, i, c.nextState, c.prefetching).s)
      BY <1>5, <1>8, <2>9
    <3> HIDE DEF yes, i
    <3>2. Leads(yes, OnLinkResolved(yes, i, c.nextState, c.prefetching).s)
      BY <1>1, <2>8, OnLinkResolvedLeads
    <3>3. QED
      BY <2>5, <3>1, <3>2, LeadsTrans, LeadsInv
  <2>10. CASE ~resolved /\ item[i].selected < Len(Urls[i])
    <3>1. Become(ResolveSelectedUrlOrPlayUri(next, i, c.nextState, c.prefetching).s)
      BY <1>5, <1>8, <2>10
    <3> DEFINE r == SelectNextUrl(i, no.item[i], FALSE)
    <3>2. next = [no EXCEPT !.item[i] = r]
      OBVIOUS
    <3> HIDE DEF no, i, next
    <3>3. no.item[i] \in ItemType
      BY <1>1, <2>8 DEF State
    <3>4. /\ r \in ItemType /\ r.state = no.item[i].state /\ r.resolving = no.item[i].resolving
          /\ r.realtime = no.item[i].realtime
      <4>1. no.item[i].resolved \ {no.item[i].selected} \in SUBSET Nat
            /\ no.item[i].selected + 1 \in Nat \ {0}
        BY <3>3 DEF ItemType
      <4>2. QED
        BY <3>3, <4>1 DEF SelectNextUrl, ItemType
    <3> HIDE DEF r
    <3>5. Leads(no, next)
      BY <1>1, <2>8, <3>2, <3>4, DetailLeads
    <3>6. next \in State
      BY <3>5 DEF Leads
    <3>7. next.pl = pl /\ next.fifo = fifo /\ next.item[i] = r
      BY <1>1, <2>7, <2>8, <3>2 DEF State
    <3>8. Chosen(next, i)
      <4>1. no.item[i].state = item[i].state
        BY <1>2, <2>6 DEF ResolverFailed, ItemType
      <4>2. CASE i = pl.cur
        BY <3>7, <4>2 DEF Chosen
      <4>3. CASE fifo.queue # <<>> /\ i = Peek(fifo)
        <5>1. i \in Elems(fifo.queue)
          BY <1>2, <4>3 DEF Peek, Elems
        <5>2. item[i].state = "ABOUT_TO_ACTIVATE"
          BY <1>4, <5>1
        <5>3. QED
          BY <3>4, <3>7, <4>1, <4>3, <5>2 DEF Chosen
      <4>4. QED
        BY <2>1, <4>2, <4>3
    <3>9. Leads(next, ResolveSelectedUrlOrPlayUri(next, i, c.nextState, c.prefetching).s)
      BY <1>1, <3>6, <3>8, ResolveSelectedUrlOrPlayUriLeads
    <3>10. QED
      BY <2>6, <3>1, <3>5, <3>9, LeadsTrans, LeadsInv
  <2>11. CASE ~resolved /\ ~(item[i].selected < Len(Urls[i]))
    <3>1. Become(Bug(no, "NOT_IMPLEMENTED"))
      BY <1>5, <1>8, <2>11
    <3> HIDE DEF no
    <3>2. Leads(no, Bug(no, "NOT_IMPLEMENTED"))
      BY <2>8, BugAside, AsideLeads DEF BugNames
    <3>3. QED
      BY <2>6, <3>1, <3>2, LeadsTrans, LeadsInv
  <2>12. QED
    BY <2>9, <2>10, <2>11
<1>9. QED
  BY <1>7, <1>8

-----------------------------------------------------------------------------
(* The theorems *)

LEMMA NextInv ==
    ASSUME Inv, [Next]_vars
    PROVE  Inv'
<1>1. CASE Next
  <2>1. CASE Resolver
    BY <2>1, ResolverDoneInv DEF Resolver
  <2>2. CASE ~Resolver
    BY <1>1, <2>2, ClientInv, PushThenSkipInv, MainLoopInv, AboutToFinishInv, PipelineInv DEF Next
  <2>3. QED
    BY <2>1, <2>2
<1>2. CASE UNCHANGED vars
  <2>1. Here' = Here /\ item' = item
    BY <1>2 DEF vars, Here
  <2>2. Alive(Here)' = Alive(Here)
    BY <2>1 DEF Alive
  <2>3. QED
    BY <2>1, <2>2 DEF Inv, DeadOk
<1>3. QED
  BY <1>1, <1>2

LEMMA SpecInv == Spec => []Inv
  BY InitInv, NextInv, PTL DEF Spec

(***************************************************************************)
(* Types: whatever the client, GStreamer and the list broker do, and in    *)
(* whichever order, the data structures of streamer.cc keep their types;   *)
(* in particular, there is an item in the place of current_stream_ or of   *)
(* a queue entry whenever the code takes one from there.                   *)
(***************************************************************************)
THEOREM PlayerTypes == Spec => []TypeOK
<1>1. ASSUME Inv PROVE TypeOK
  <2>1. Here \in State
    BY <1>1 DEF Inv
  <2>2. /\ ctl \in CtlType /\ pl \in PlType /\ watcher \in {"NONE", "RUNNING", "GONE"}
        /\ fail \in FailType /\ fifo \in FifoType(Streams) /\ item \in [Streams -> ItemType]
        /\ gst \in GstType /\ idle \in Nat /\ client \in ClientType
    BY <2>1 DEF Here, State
  <2>3. /\ pl.cur \in Streams \cup {None}
        /\ pl.nextReq \in {"NOT_REQUESTED", "REQUESTED", "REQUEST_DEFERRED"}
        /\ pl.buf \in [state : BufferingStates, level : Levels]
    BY <2>2 DEF PlType, BufType
  <2>4. gst.state \in GstStates /\ gst.pending \in GstStates /\ gst.target \in GstStates
    BY <2>2 DEF GstType
  <2>5. Elems(fifo.queue) \cup Elems(fifo.removed) \cup fifo.dropped \subseteq Streams
    BY <2>2 DEF FifoType, Elems
  <2>6. QED
    BY <2>2, <2>3, <2>4, <2>5 DEF TypeOK, CtlType, FailType, ClientType
<1>2. QED
  BY <1>1, SpecInv, PTL

(***************************************************************************)
(* A stream in the URL FIFO is one the client has not been told about:     *)
(* neither NowPlaying, Stopped nor a list of dropped streams has named it  *)
(* (emit_now_playing(), emit_stopped(), streamer_push_stream()).           *)
(***************************************************************************)
THEOREM QueuedStreamsAreOwed == Spec => []QueuedIsOwed
<1>1. ASSUME Inv PROVE QueuedIsOwed
  BY <1>1, HereTypes DEF Good, QueueOk, QueuedIsOwed
<1>2. QED
  BY <1>1, SpecInv, PTL

(***************************************************************************)
(* Only the head of the URL FIFO is ever prefetched, and it leaves the     *)
(* FIFO before it starts to play (play_next_stream(),                      *)
(* handle_start_of_stream()).                                              *)
(***************************************************************************)
THEOREM OnlyHeadsAreActivated == Spec => []OnlyHeadIsActivated
<1>1. ASSUME Inv PROVE OnlyHeadIsActivated
  BY <1>1, HereTypes DEF Good, ItemsOk, OnlyHeadIsActivated, Size
<1>2. QED
  BY <1>1, SpecInv, PTL

(***************************************************************************)
(* An item's resolver_ and the calls to the list broker agree, provided    *)
(* that the broker answers in any way at all: resolver_begin() does not    *)
(* take back the resolver if the broker refuses the call.                  *)
(***************************************************************************)
THEOREM ResolversAreInCharge ==
    ASSUME \A i \in Streams : Broker[i] # "REFUSES"
    PROVE  Spec => []ResolverInCharge
<1>1. ASSUME Inv PROVE ResolverInCharge
  <2>1. SUFFICES ASSUME NEW i \in Alive(Here)
                 PROVE  Cardinality({c \in calls : c.id = i}) = IF item[i].resolving THEN 1 ELSE 0
    BY DEF ResolverInCharge
  <2>2. Here \in State /\ Good(Here) /\ Here.pl = pl /\ Here.fifo = fifo /\ Here.item = item
        /\ Here.calls = calls
    BY <1>1, HereTypes
  <2>3. i \in Streams
    BY <2>2, FifoTypes DEF Alive
  <2>4. ResolverOk(i, item[i].resolving, calls)
    BY <2>2 DEF Good, CallsOk, Alive
  <2>5. /\ item[i].resolving <=> \E c \in calls : c.id = i
        /\ \A c, d \in calls : c.id = i /\ d.id = i => c = d
    BY <2>3, <2>4 DEF ResolverOk
  <2>6. CASE item[i].resolving
    <3>1. PICK c \in calls : c.id = i
      BY <2>5, <2>6
    <3>2. {d \in calls : d.id = i} = {c}
      BY <2>5, <3>1
    <3>3. QED
      BY <2>6, <3>2, FS_Singleton
  <2>7. CASE ~item[i].resolving
    <3>1. {c \in calls : c.id = i} = {}
      BY <2>5, <2>7
    <3>2. QED
      BY <2>7, <3>1, FS_EmptySet
  <2>8. QED
    BY <2>6, <2>7
<1>2. QED
  BY <1>1, SpecInv, PTL

(***************************************************************************)
(* The player never stays paused with a full buffer, in whichever order    *)
(* the end of the state change and the fill levels are reported            *)
(* (buffering.hh, handle_buffering(), handle_stream_state_change()).       *)
(***************************************************************************)
THEOREM NoWakeupIsLost == Spec => []NoLostWakeup
<1>1. ASSUME Inv PROVE NoLostWakeup
  BY <1>1, HereTypes DEF Good, CalmOk, NoLostWakeup
<1>2. QED
  BY <1>1, SpecInv, PTL

(***************************************************************************)
(* No thread is boosted while the buffer is being filled, nor for a stream *)
(* known to be Internet radio (handle_buffer_underrun(),                   *)
(* handle_start_of_stream(), handle_stream_duration_async()).              *)
(***************************************************************************)
THEOREM RealtimeIsForPlaying == Spec => []NoRealtimeWhileBuffering
<1>1. ASSUME Inv PROVE NoRealtimeWhileBuffering
  BY <1>1, HereTypes DEF Good, CalmOk, NoRealtimeWhileBuffering
<1>2. QED
  BY <1>1, SpecInv, PTL

(***************************************************************************)
(* With the player deciding when to boost, and threads entering and        *)
(* leaving their tasks at any time, each of them has the priority its task *)
(* needs (boosted_threads.cc as used by streamer.cc).                      *)
(***************************************************************************)
THEOREM PlayerSchedulesThreads == Spec => []SchedulingFollows
<1>1. ASSUME Inv PROVE SchedulingFollows
  BY <1>1, HereTypes DEF Good, CalmOk, ThreadsOk, SchedulingFollows, BT!SchedulingFollows
<1>2. QED
  BY <1>1, SpecInv, PTL
=============================================================================
