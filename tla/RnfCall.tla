------------------------------ MODULE RnfCall ------------------------------
(***************************************************************************)
(* Request, notification, fetch: the D-Bus calls to the Airable list       *)
(* broker (rnfcall.hh, rnfcall.cc, rnfcall_cookiecall.hh) and the cookie   *)
(* manager (cookie_manager_impl.cc), in the granularity of their locks.    *)
(*                                                                         *)
(* A link is resolved on behalf of whoever holds the lock of the pipeline  *)
(* data, which may be one of GStreamer's threads.  The list broker answers *)
(* at once, or it returns a cookie and sends a D-Bus signal for the cookie *)
(* later.  The signals are handled in the thread of the main loop.         *)
(*                                                                         *)
(* Each call object sends one request, so that the cookie handed out for   *)
(* it is represented by the object itself.                                 *)
(***************************************************************************)
EXTENDS Naturals, Sequences

CONSTANTS
    Calls,      \* call objects
    Nobody,     \* holder of a free lock
    Abortable   \* calls for which abort_request() is used; the player has none

ASSUME NobodyAssumption == Nobody \notin Calls
ASSUME AbortableAssumption == Abortable \subseteq Calls

VARIABLES
    obj,        \* the call objects (see below)
    pipeline,   \* holder of the lock of the pipeline data: Nobody or a request
    cookies,    \* holder of the lock of the cookie manager
    notifyFns,  \* notification_functions_
    fetchFns,   \* fetch_functions_
    request,    \* progress of request() per call
    signal,     \* progress of the D-Bus signal handler
    broker,     \* what the list broker knows about the cookies
    sent,       \* cookies whose D-Bus signal is on its way
    aborting,   \* calls whose abort_request() waits for the list broker
    owned,      \* calls referred to by their item's resolver_
    told,       \* states passed to notify(), per call
    bug         \* BUG messages written by the last step, with their calls

vars == <<obj, pipeline, cookies, notifyFns, fetchFns, request, signal, broker,
          sent, aborting, owned, told, bug>>

CallStates ==
    {"INITIALIZED", "WAIT_FOR_NOTIFICATION", "READY_TO_FETCH", "RESULT_FETCHED",
     "ABORTING", "ABORTED_BY_PEER", "FAILED", "ABOUT_TO_DESTROY"}

(***************************************************************************)
(*   state          state_;                                                *)
(*   cookie         cookie_ is not 0;                                      *)
(*   cleared        cleared_cookie_ is not 0;                              *)
(*   abortedAfter   was_aborted_after_done_;                               *)
(*   promise        what has been stored in promise_;                      *)
(*   locked         lock_ is held between two steps.                       *)
(***************************************************************************)
NewCall ==
    [state |-> "INITIALIZED", cookie |-> FALSE, cleared |-> FALSE, abortedAfter |-> FALSE,
     promise |-> "EMPTY", locked |-> FALSE]

Init ==
    /\ obj = [c \in Calls |-> NewCall]
    /\ pipeline = Nobody /\ cookies = Nobody
    /\ notifyFns = {} /\ fetchFns = {}
    /\ request = [c \in Calls |-> "IDLE"]
    /\ signal = [at |-> "IDLE", cookie |-> Nobody, failed |-> FALSE]
    /\ broker = [c \in Calls |-> "UNKNOWN"]
    /\ sent = {}
    /\ aborting = {}
    /\ owned = Calls
    /\ told = [c \in Calls |-> <<>>]
    /\ bug = {}

ClearCookie(o) == [o EXCEPT !.cleared = o.cookie, !.cookie = FALSE]

\* set_value() or set_exception(), which throws if there is something already.
Fulfil(o, what) == IF o.promise = "EMPTY" THEN [o EXCEPT !.promise = what] ELSE o

Bug(c, what) == {<<c, what>>}

DoubleException(c) == IF obj[c].promise = "EMPTY" THEN {} ELSE Bug(c, "DOUBLE_EXCEPTION")

-----------------------------------------------------------------------------
(* request() *)

\* Mutant: signals are not held back while the request is being made.
RequestUnblocked(c) ==
    /\ request[c] = "IDLE" /\ c \in owned
    /\ pipeline = Nobody /\ ~obj[c].locked /\ obj[c].state = "INITIALIZED"
    /\ pipeline' = c
    /\ obj' = [obj EXCEPT ![c].locked = TRUE]
    /\ request' = [request EXCEPT ![c] = "ASKING"]
    /\ bug' = {}
    /\ UNCHANGED <<cookies, notifyFns, fetchFns, signal, broker, sent, aborting, owned, told>>

\* lock_ and the lock of the cookie manager are acquired.
Request(c) ==
    /\ request[c] = "IDLE" /\ c \in owned
    /\ pipeline = Nobody /\ cookies = Nobody
    /\ ~obj[c].locked /\ obj[c].state = "INITIALIZED"
    /\ pipeline' = c /\ cookies' = c
    /\ obj' = [obj EXCEPT ![c].locked = TRUE]
    /\ request' = [request EXCEPT ![c] = "ASKING"]
    /\ bug' = {}
    /\ UNCHANGED <<notifyFns, fetchFns, signal, broker, sent, aborting, owned, told>>

\* do_request() returns 0, returns a cookie, or throws.
AskBroker(c, answer) ==
    /\ request[c] = "ASKING"
    /\ request' = [request EXCEPT ![c] = answer]
    /\ obj' = [obj EXCEPT ![c] = IF answer = "AT_ONCE" THEN Fulfil(@, "VALUE") ELSE @]
    /\ broker' = [broker EXCEPT ![c] = IF answer = "COOKIE" THEN "WORKING" ELSE @]
    /\ bug' = {}
    /\ UNCHANGED <<pipeline, cookies, notifyFns, fetchFns, signal, sent, aborting, owned, told>>

\* request() returns and its caller releases the lock of the pipeline data.
Return(c) ==
    /\ pipeline' = Nobody
    /\ cookies' = IF cookies = c THEN Nobody ELSE cookies
    /\ request' = [request EXCEPT ![c] = "DONE"]
    /\ UNCHANGED <<signal, broker, sent, aborting>>

RequestPending(c) ==
    /\ request[c] = "COOKIE"
    /\ obj' = [obj EXCEPT ![c].state = "WAIT_FOR_NOTIFICATION", ![c].cookie = TRUE,
                          ![c].locked = FALSE]
    /\ notifyFns' = notifyFns \cup {c}
    /\ fetchFns' = fetchFns \cup {c}
    /\ bug' = IF c \in fetchFns THEN Bug(c, "DUPLICATE_COOKIE") ELSE {}
    /\ UNCHANGED <<owned, told>>
    /\ Return(c)

\* The fast path: notify() takes the result and gives up the resolver.
RequestAnswered(c) ==
    /\ request[c] = "AT_ONCE"
    /\ obj' = [obj EXCEPT ![c].state = "RESULT_FETCHED", ![c].promise = "TAKEN",
                          ![c].locked = FALSE]
    /\ told' = [told EXCEPT ![c] = Append(@, "RESULT_FETCHED")]
    /\ owned' = owned \ {c}
    /\ bug' = {}
    /\ UNCHANGED <<notifyFns, fetchFns>>
    /\ Return(c)

RequestFailed(c) ==
    /\ request[c] = "REFUSED"
    /\ obj' = [obj EXCEPT ![c] = [Fulfil(@, "EXCEPTION") EXCEPT !.state = "FAILED",
                                                              !.locked = FALSE]]
    /\ bug' = DoubleException(c)
    /\ UNCHANGED <<notifyFns, fetchFns, owned, told>>
    /\ Return(c)

-----------------------------------------------------------------------------
(* The D-Bus signals DataAvailable and DataError *)

\* The list broker has finished.
Report(c, failed) ==
    /\ broker[c] = "WORKING"
    /\ broker' = [broker EXCEPT ![c] = IF failed THEN "ERROR" ELSE "RESULT"]
    /\ sent' = sent \cup {c}
    /\ bug' = {}
    /\ UNCHANGED <<obj, pipeline, cookies, notifyFns, fetchFns, request, signal, aborting,
                   owned, told>>

\* PendingCookies::available()
Available(c) ==
    /\ signal.at = "IDLE" /\ c \in sent /\ cookies = Nobody
    /\ signal' = [at |-> IF c \in notifyFns THEN "NOTIFY" ELSE "FINISH", cookie |-> c,
                  failed |-> broker[c] = "ERROR"]
    /\ sent' = sent \ {c}
    /\ notifyFns' = notifyFns \ {c}
    /\ bug' = IF c \in notifyFns THEN {} ELSE Bug(c, "NO_NOTIFICATION_FUNCTION")
    /\ UNCHANGED <<obj, pipeline, cookies, fetchFns, request, broker, aborting, owned, told>>

\* Mutant: an error is taken for a result.
NotificationOfResult ==
    LET c == signal.cookie
    IN  /\ signal.at = "NOTIFY" /\ ~obj[c].locked
        /\ obj' = [obj EXCEPT ![c].state = "READY_TO_FETCH"]
        /\ signal' = [signal EXCEPT !.at = "FINISH"]
        /\ bug' = {}
        /\ UNCHANGED <<pipeline, cookies, notifyFns, fetchFns, request, broker, sent, aborting,
                       owned, told>>

\* notification(), by aborted_notification() or result_available_notification()
Notification ==
    LET c      == signal.cookie
        o      == obj[c]
        wanted == /\ o.cookie \/ o.cleared
                  /\ o.state \in {"WAIT_FOR_NOTIFICATION", "ABORTING"}
        new    == IF signal.failed THEN "ABORTED_BY_PEER" ELSE "READY_TO_FETCH"
    IN  /\ signal.at = "NOTIFY" /\ ~o.locked
        /\ obj' = [obj EXCEPT ![c].state = IF wanted THEN new ELSE @]
        /\ signal' = [signal EXCEPT !.at = "FINISH"]
        /\ bug' = IF wanted THEN {} ELSE Bug(c, "UNEXPECTED_NOTIFICATION")
        /\ UNCHANGED <<pipeline, cookies, notifyFns, fetchFns, request, broker, sent, aborting,
                       owned, told>>

\* PendingCookies::finish()
Finish ==
    LET c == signal.cookie
    IN  /\ signal.at = "FINISH" /\ cookies = Nobody
        /\ signal' = [signal EXCEPT !.at = IF c \in fetchFns THEN "FETCH" ELSE "IDLE",
                                    !.cookie = IF c \in fetchFns THEN c ELSE Nobody]
        /\ fetchFns' = fetchFns \ {c}
        /\ bug' = IF c \in fetchFns THEN {} ELSE Bug(c, "UNKNOWN_COOKIE")
        /\ UNCHANGED <<obj, pipeline, cookies, notifyFns, request, broker, sent, aborting,
                       owned, told>>

\* Mutant: an aborted call is taken for one which has got its result.
FetchUnlockedAborted(o, success) ==
    CASE o.state = "READY_TO_FETCH" ->
           [ClearCookie(Fulfil(o, IF success THEN "VALUE" ELSE "EXCEPTION"))
              EXCEPT !.state = IF success THEN "RESULT_FETCHED" ELSE "FAILED"]
      [] o.state = "ABORTING" -> [o EXCEPT !.state = "RESULT_FETCHED"]
      [] OTHER -> o

\* fetch_unlocked() with the result of do_fetch().
FetchUnlocked(o, success) ==
    IF o.state # "READY_TO_FETCH"
    THEN o
    ELSE [ClearCookie(Fulfil(o, IF success THEN "VALUE" ELSE "EXCEPTION"))
            EXCEPT !.state = IF success THEN "RESULT_FETCHED" ELSE "FAILED"]

BadState(o) == o.state \in {"INITIALIZED", "WAIT_FOR_NOTIFICATION", "ABOUT_TO_DESTROY"}

\* Mutant: nobody is told about a call whose item is gone.
FetchForOwner(success) ==
    LET c == signal.cookie
    IN  /\ signal.at = "FETCH" /\ ~obj[c].locked
        /\ obj' = [obj EXCEPT ![c] = [FetchUnlocked(@, success) EXCEPT !.locked = c \in owned]]
        /\ signal' = [signal EXCEPT !.at = IF c \in owned THEN "TELL" ELSE "IDLE",
                                    !.cookie = IF c \in owned THEN c ELSE Nobody]
        /\ bug' = {}
        /\ UNCHANGED <<pipeline, cookies, notifyFns, fetchFns, request, broker, sent, aborting,
                       owned, told>>

(***************************************************************************)
(* fetch_and_notify_unlocked(): lock_ is kept while notify() waits for the *)
(* lock of the pipeline data.  BadStateError is caught in finish().        *)
(***************************************************************************)
Fetch(success) ==
    LET c == signal.cookie
    IN  /\ signal.at = "FETCH" /\ ~obj[c].locked
        /\ obj' = [obj EXCEPT ![c] =
                        [FetchUnlocked(@, success) EXCEPT !.locked = ~BadState(obj[c])]]
        /\ signal' = [signal EXCEPT !.at = IF BadState(obj[c]) THEN "IDLE" ELSE "TELL",
                                    !.cookie = IF BadState(obj[c]) THEN Nobody ELSE c]
        /\ bug' = CASE BadState(obj[c]) -> Bug(c, "BAD_STATE")
                    [] obj[c].state = "READY_TO_FETCH" ->
                         (IF obj[c].cookie THEN {} ELSE Bug(c, "FETCH_WITHOUT_COOKIE"))
                             \cup DoubleException(c)
                    [] OTHER -> {}
        /\ UNCHANGED <<pipeline, cookies, notifyFns, fetchFns, request, broker, sent, aborting,
                       owned, told>>

\* Mutant: the signal handler keeps its reference to the call.
TellKeepingReference ==
    LET c == signal.cookie
    IN  /\ signal.at = "TELL" /\ pipeline = Nobody
        /\ obj' = [obj EXCEPT ![c].locked = FALSE]
        /\ told' = [told EXCEPT ![c] = Append(@, obj[c].state)]
        /\ owned' = owned \ {c}
        /\ signal' = [signal EXCEPT !.at = "IDLE"]
        /\ bug' = {}
        /\ UNCHANGED <<pipeline, cookies, notifyFns, fetchFns, request, broker, sent, aborting>>

\* notify() and, as a part of it, get_result_unlocked() and resolver_finish().
Tell ==
    LET c     == signal.cookie
        taken == /\ obj[c].state = "RESULT_FETCHED" /\ ~obj[c].abortedAfter
                 /\ obj[c].promise = "VALUE"
    IN  /\ signal.at = "TELL" /\ pipeline = Nobody
        /\ obj' = [obj EXCEPT ![c].locked = FALSE,
                              ![c].promise = IF taken THEN "TAKEN" ELSE @]
        /\ told' = [told EXCEPT ![c] = Append(@, obj[c].state)]
        /\ owned' = owned \ {c}
        /\ signal' = [signal EXCEPT !.at = "IDLE", !.cookie = Nobody]
        /\ bug' = {}
        /\ UNCHANGED <<pipeline, cookies, notifyFns, fetchFns, request, broker, sent, aborting>>

-----------------------------------------------------------------------------
(* Abortion and destruction *)

\* abort_request_internal() up to the point where it asks the list broker.
AbortLocally(o) ==
    CASE o.state \in {"INITIALIZED", "WAIT_FOR_NOTIFICATION", "READY_TO_FETCH"} ->
           [ClearCookie(o) EXCEPT !.state = IF o.cookie THEN @ ELSE "ABORTED_BY_PEER"]
      [] o.state \in {"RESULT_FETCHED", "FAILED"} -> [o EXCEPT !.abortedAfter = TRUE]
      [] OTHER -> o

AsksBroker(o) == o.state \in {"INITIALIZED", "WAIT_FOR_NOTIFICATION", "READY_TO_FETCH"} /\ o.cookie

Abort(c) ==
    /\ c \in Abortable \cap owned /\ c \notin aborting /\ ~obj[c].locked
    /\ obj[c].state \notin {"ABORTING", "ABORTED_BY_PEER"} /\ ~obj[c].abortedAfter
    /\ obj' = [obj EXCEPT ![c] = AbortLocally(@)]
    /\ aborting' = IF AsksBroker(obj[c]) THEN aborting \cup {c} ELSE aborting
    /\ bug' = {}
    /\ UNCHANGED <<pipeline, cookies, notifyFns, fetchFns, request, signal, broker, sent,
                   owned, told>>

(***************************************************************************)
(* abort_cookie() has returned.  It succeeds or fails, and the list broker *)
(* may forget about the cookie unless it has sent its signal already.      *)
(***************************************************************************)
Aborted(c, success) ==
    /\ c \in aborting /\ ~obj[c].locked
    /\ aborting' = aborting \ {c}
    /\ obj' = [obj EXCEPT ![c].state = IF success THEN "ABORTING" ELSE @]
    /\ bug' = {}
    /\ UNCHANGED <<pipeline, cookies, notifyFns, fetchFns, request, signal, broker, sent,
                   owned, told>>

\* The item is gone, and the pointer in resolver_ with it.
Disown(c) ==
    /\ c \in owned /\ pipeline = Nobody /\ c \notin aborting
    /\ owned' = owned \ {c}
    /\ bug' = {}
    /\ UNCHANGED <<obj, pipeline, cookies, notifyFns, fetchFns, request, signal, broker, sent,
                   aborting, told>>

\* Mutant: the functions in the cookie manager hold plain pointers.
ReferredToByOwner(c) == c \in owned \/ pipeline = c

\* Shared pointers: resolver_, last_ref, the functions of manage_cookie, and the one of
\* the caller of abort_request().
ReferredTo(c) ==
    \/ c \in owned \/ pipeline = c \/ c \in aborting
    \/ c \in notifyFns \/ c \in fetchFns \/ signal.cookie = c

\* The destructors: the list broker may be asked to abort the request.
Destroy(c, success) ==
    /\ ~ReferredTo(c) /\ obj[c].state # "ABOUT_TO_DESTROY"
    /\ obj' = [obj EXCEPT ![c] = [AbortLocally(@) EXCEPT !.state = "ABOUT_TO_DESTROY"]]
    /\ bug' = IF AsksBroker(obj[c]) /\ ~success THEN Bug(c, "ACTIVE_COOKIE") ELSE {}
    /\ UNCHANGED <<pipeline, cookies, notifyFns, fetchFns, request, signal, broker, sent, aborting,
                   owned, told>>

-----------------------------------------------------------------------------
Requester ==
    \E c \in Calls :
        \/ Request(c)
        \/ \E answer \in {"AT_ONCE", "COOKIE", "REFUSED"} : AskBroker(c, answer)
        \/ RequestPending(c) \/ RequestAnswered(c) \/ RequestFailed(c)

SignalHandler ==
    \/ \E c \in Calls : Available(c)
    \/ Notification \/ Finish \/ Tell
    \/ \E success \in BOOLEAN : Fetch(success)

ListBroker == \E c \in Calls, failed \in BOOLEAN : Report(c, failed)

Owner ==
    \E c \in Calls :
        \/ Abort(c) \/ Disown(c)
        \/ \E success \in BOOLEAN : Aborted(c, success) \/ Destroy(c, success)

\* All calls have been destroyed.
Finished == (\A c \in Calls : obj[c].state = "ABOUT_TO_DESTROY") /\ UNCHANGED vars

Next == Requester \/ SignalHandler \/ ListBroker \/ Owner \/ Finished

Spec == Init /\ [][Next]_vars

(***************************************************************************)
(* Threads which hold a lock go on, the main loop handles its signals, and *)
(* the list broker, an external program, answers each request in the end   *)
(* unless it may be asked to abort it.  Nothing is assumed about new       *)
(* requests, abortion or destruction.                                      *)
(***************************************************************************)
Asking ==
    \E c \in Calls :
        \/ \E answer \in {"AT_ONCE", "COOKIE", "REFUSED"} : AskBroker(c, answer)
        \/ RequestPending(c) \/ RequestAnswered(c) \/ RequestFailed(c)

Fairness ==
    /\ WF_vars(Asking) /\ WF_vars(SignalHandler)
    /\ \A c \in Calls \ Abortable : WF_vars(\E failed \in BOOLEAN : Report(c, failed))

FairSpec == Spec /\ Fairness

-----------------------------------------------------------------------------
(***************************************************************************)
(* The types of the members of the call objects and the cookie manager.    *)
(* The signal handler refers to a call only while it is at work.           *)
(***************************************************************************)
TypeOK ==
    /\ obj \in [Calls -> [state : CallStates, cookie : BOOLEAN, cleared : BOOLEAN,
                          abortedAfter : BOOLEAN, locked : BOOLEAN,
                          promise : {"EMPTY", "VALUE", "EXCEPTION", "TAKEN"}]]
    /\ pipeline \in Calls \cup {Nobody} /\ cookies \in Calls \cup {Nobody}
    /\ notifyFns \subseteq Calls /\ fetchFns \subseteq Calls
    /\ request \in [Calls -> {"IDLE", "ASKING", "AT_ONCE", "COOKIE", "REFUSED", "DONE"}]
    /\ signal \in [at : {"IDLE", "NOTIFY", "FINISH", "FETCH", "TELL"},
                   cookie : Calls \cup {Nobody}, failed : BOOLEAN]
    /\ signal.at = "IDLE" <=> signal.cookie = Nobody
    /\ broker \in [Calls -> {"UNKNOWN", "WORKING", "ERROR", "RESULT"}]
    /\ sent \subseteq Calls /\ aborting \subseteq Calls /\ owned \subseteq Calls
    /\ told \in [Calls -> Seq(CallStates)]

(***************************************************************************)
(* The comment in request() (rnfcall.hh): a signal which is sent before    *)
(* the cookie was passed to the cookie manager does not get lost, because  *)
(* available() and finish() have to wait.  Each signal finds the functions *)
(* stored for its cookie, and the call in the state to be notified; the    *)
(* result is fetched with a valid cookie.  This is so for every call which *)
(* is not aborted.                                                         *)
(***************************************************************************)
SignalFindsItsCall ==
    bug \cap ((Calls \ Abortable) \X
             {"NO_NOTIFICATION_FUNCTION", "UNKNOWN_COOKIE", "DUPLICATE_COOKIE",
              "UNEXPECTED_NOTIFICATION", "BAD_STATE", "FETCH_WITHOUT_COOKIE",
              "DOUBLE_EXCEPTION"}) = {}

(***************************************************************************)
(* A call object lives as long as its signal may still arrive, although    *)
(* the item it belongs to may be destroyed at any time: ~CallBase() never  *)
(* finds an active cookie.                                                 *)
(***************************************************************************)
NeverDestroyedActive == \A c \in Calls : <<c, "ACTIVE_COOKIE">> \notin bug

(***************************************************************************)
(* The context of a call is told the outcome only once, and what it is     *)
(* told is true: a result is there if it was told so, and a result is not  *)
(* made out of an error (fetch_and_notify_unlocked(), notification()).     *)
(***************************************************************************)
ToldTheTruthOnce ==
    \A c \in Calls \ Abortable : told[c] # <<>> =>
        /\ Len(told[c]) = 1
        /\ told[c][1] = "RESULT_FETCHED" => obj[c].promise = "TAKEN" /\ broker[c] # "ERROR"
        /\ told[c][1] = "FAILED" => obj[c].promise = "EXCEPTION" /\ broker[c] = "RESULT"
        /\ told[c][1] = "ABORTED_BY_PEER" => broker[c] = "ERROR"

(***************************************************************************)
(* Whatever abort_request() interferes with, the context of a call is told *)
(* about a definite outcome, at most once, and never that there is a       *)
(* result while promise_ holds none (fetch_unlocked(), notify()).          *)
(***************************************************************************)
ToldOnceInSpiteOfAbort ==
    \A c \in Calls : told[c] # <<>> =>
        /\ Len(told[c]) = 1
        /\ told[c][1] \in {"RESULT_FETCHED", "FAILED", "ABORTING", "ABORTED_BY_PEER"}
        /\ told[c][1] = "RESULT_FETCHED" => obj[c].promise \in {"VALUE", "TAKEN"}

(***************************************************************************)
(* Every request for which a cookie was returned is answered eventually by *)
(* calling notify(), even if the item is gone in the meantime and whatever *)
(* happens to the other calls.                                             *)
(***************************************************************************)
EveryCookieIsAnswered ==
    \A c \in Calls \ Abortable : (request[c] = "COOKIE") ~> (told[c] # <<>>)
=============================================================================
