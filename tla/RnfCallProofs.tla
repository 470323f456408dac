--------------------------- MODULE RnfCallProofs ---------------------------
(***************************************************************************)
(* Proofs about the calls to the list broker, for any number of calls, of  *)
(* which any may be aborted.                                               *)
(***************************************************************************)
EXTENDS RnfCall, TLAPS

(***************************************************************************)
(* The properties tell what has been said to the context of a call and     *)
(* which assertions have fired.  That they hold depends on where a call is *)
(* on its way: its request has not returned yet, it waits for its signal,  *)
(* the signal is being handled, or it is all over.  The invariant tells    *)
(* for each of these what the call object, the cookie manager and the list *)
(* broker think about it.                                                  *)
(***************************************************************************)
Asked == {"ASKING", "AT_ONCE", "COOKIE", "REFUSED"}

\* The locks are held by the request in progress and while notify() runs.
Locking(c) ==
    /\ request[c] \in Asked =>
         pipeline = c /\ cookies = c /\ c \in owned /\ obj[c].state = "INITIALIZED"
    /\ pipeline = c => request[c] \in Asked
    /\ cookies = c => pipeline = c
    /\ obj[c].locked <=> (request[c] \in Asked \/ (signal.at = "TELL" /\ signal.cookie = c))

\* Before request() has returned, nobody else knows about the call.
Unknown(c) ==
    request[c] # "DONE" =>
        /\ c \notin notifyFns /\ signal.cookie # c /\ told[c] = <<>>
        /\ ~obj[c].cookie /\ ~obj[c].cleared /\ c \notin aborting
        /\ obj[c].promise = IF request[c] = "AT_ONCE" THEN "VALUE" ELSE "EMPTY"
        /\ broker[c] = "UNKNOWN" <=> request[c] # "COOKIE"
        /\ c \in sent <=> broker[c] \in {"ERROR", "RESULT"}

\* A signal is on its way or being handled as long as there are functions for it.
Managed(c) ==
    /\ c \in notifyFns => request[c] = "DONE" /\ signal.cookie # c
    /\ c \in fetchFns <=>
         \/ c \in notifyFns
         \/ signal.cookie = c /\ signal.at \in {"NOTIFY", "FINISH"}
    /\ c \in sent => broker[c] \in {"ERROR", "RESULT"}
    /\ request[c] = "DONE" => (c \in notifyFns <=> broker[c] = "WORKING" \/ c \in sent)
    /\ signal.cookie = c =>
         /\ broker[c] \in {"ERROR", "RESULT"}
         /\ signal.failed <=> broker[c] = "ERROR"

Waiting(c) == c \in notifyFns \/ (signal.cookie = c /\ signal.at = "NOTIFY")
Notified(c) == signal.cookie = c /\ signal.at \in {"FINISH", "FETCH"}
Telling(c) == signal.cookie = c /\ signal.at = "TELL"

\* The states of a call, whether or not it is aborted.
Progress(c) ==
    /\ Waiting(c) =>
         /\ obj[c].state \in {"WAIT_FOR_NOTIFICATION", "ABORTING", "ABORTED_BY_PEER"}
         /\ obj[c].state # "ABORTED_BY_PEER" => obj[c].cookie \/ obj[c].cleared
         /\ c \in aborting => obj[c].state = "WAIT_FOR_NOTIFICATION" /\ obj[c].cleared
    /\ Notified(c) => obj[c].state \in {"READY_TO_FETCH", "ABORTING", "ABORTED_BY_PEER"}
    /\ Waiting(c) \/ Notified(c) => obj[c].promise = "EMPTY" /\ told[c] = <<>>
    /\ Telling(c) =>
         /\ obj[c].state \in {"RESULT_FETCHED", "FAILED", "ABORTING", "ABORTED_BY_PEER"}
         /\ obj[c].state = "RESULT_FETCHED" => obj[c].promise = "VALUE"
         /\ told[c] = <<>>
    /\ AsksBroker(obj[c]) => c \in fetchFns \/ signal.cookie = c

\* The states of a call which is not aborted.
Undisturbed(c) ==
    /\ c \notin aborting
    /\ obj[c].abortedAfter => obj[c].state = "ABOUT_TO_DESTROY"
    /\ Waiting(c) => obj[c].state = "WAIT_FOR_NOTIFICATION" /\ obj[c].cookie
    /\ Notified(c) =>
         /\ obj[c].cookie
         /\ obj[c].state = IF broker[c] = "ERROR" THEN "ABORTED_BY_PEER" ELSE "READY_TO_FETCH"
    /\ Telling(c) =>
         \/ obj[c].state = "RESULT_FETCHED" /\ broker[c] = "RESULT"
         \/ obj[c].state = "FAILED" /\ broker[c] = "RESULT" /\ obj[c].promise = "EXCEPTION"
         \/ obj[c].state = "ABORTED_BY_PEER" /\ broker[c] = "ERROR"

CallInv(c) ==
    /\ Locking(c) /\ Unknown(c) /\ Managed(c) /\ Progress(c)
    /\ c \notin Abortable => Undisturbed(c)

Inv ==
    /\ TypeOK
    /\ \A c \in Calls : CallInv(c)
    /\ SignalFindsItsCall /\ NeverDestroyedActive
    /\ ToldTheTruthOnce /\ ToldOnceInSpiteOfAbort

-----------------------------------------------------------------------------
(* What a step on behalf of one call leaves alone *)

SameCall(d) ==
    /\ obj'[d] = obj[d] /\ request'[d] = request[d] /\ broker'[d] = broker[d]
    /\ told'[d] = told[d]
    /\ d \in notifyFns' <=> d \in notifyFns
    /\ d \in fetchFns' <=> d \in fetchFns
    /\ d \in sent' <=> d \in sent
    /\ d \in aborting' <=> d \in aborting
    /\ d \in owned' <=> d \in owned
    /\ pipeline' = d <=> pipeline = d
    /\ cookies' = d <=> cookies = d
    /\ signal'.cookie = d <=> signal.cookie = d
    /\ signal.cookie = d => signal' = signal

\* ToldTheTruthOnce and ToldOnceInSpiteOfAbort for a single call.
Honest(c) ==
    told[c] # <<>> =>
        /\ Len(told[c]) = 1
        /\ told[c][1] \in {"RESULT_FETCHED", "FAILED", "ABORTING", "ABORTED_BY_PEER"}
        /\ told[c][1] = "RESULT_FETCHED" => obj[c].promise \in {"VALUE", "TAKEN"}
        /\ c \notin Abortable =>
             /\ told[c][1] = "RESULT_FETCHED" => obj[c].promise = "TAKEN" /\ broker[c] # "ERROR"
             /\ told[c][1] = "FAILED" => obj[c].promise = "EXCEPTION" /\ broker[c] = "RESULT"
             /\ told[c][1] = "ABORTED_BY_PEER" => broker[c] = "ERROR"

\* The two properties are about each call on its own.
LEMMA HonestCalls ==
    (ToldTheTruthOnce /\ ToldOnceInSpiteOfAbort) <=> \A c \in Calls : Honest(c)
  BY DEF ToldTheTruthOnce, ToldOnceInSpiteOfAbort, Honest

\* The invariant of a call depends on nothing but the call.
LEMMA SameCallInv ==
    ASSUME NEW d \in Calls, CallInv(d), Honest(d), SameCall(d)
    PROVE  CallInv(d)' /\ Honest(d)'
<1> USE DEF SameCall
<1>1. Locking(d)' /\ Unknown(d)' /\ Managed(d)'
  BY DEF CallInv, Locking, Unknown, Managed
<1>2. Progress(d)'
  BY DEF CallInv, Progress, Waiting, Notified, Telling, AsksBroker
<1>3. d \notin Abortable => Undisturbed(d)'
  BY DEF CallInv, Undisturbed, Waiting, Notified, Telling
<1>4. Honest(d)'
  BY DEF Honest
<1>5. QED
  BY <1>1, <1>2, <1>3, <1>4 DEF CallInv

\* Hence, a step is safe if it is safe for the call it is about.
LEMMA StepInv ==
    ASSUME Inv, NEW c \in Calls, TypeOK', CallInv(c)', Honest(c)',
           \A d \in Calls \ {c} : SameCall(d),
           SignalFindsItsCall', NeverDestroyedActive'
    PROVE  Inv'
<1>1. \A d \in Calls : CallInv(d) /\ Honest(d)
  BY HonestCalls DEF Inv
<1>2. \A d \in Calls \ {c} : CallInv(d)' /\ Honest(d)'
  BY <1>1, SameCallInv
<1>3. \A d \in Calls : CallInv(d)' /\ Honest(d)'
  BY <1>2
<1>4. (ToldTheTruthOnce /\ ToldOnceInSpiteOfAbort)'
  BY <1>3 DEF Honest, ToldTheTruthOnce, ToldOnceInSpiteOfAbort
<1>5. QED
  BY <1>3, <1>4 DEF Inv

CallType ==
    [state : CallStates, cookie : BOOLEAN, cleared : BOOLEAN, abortedAfter : BOOLEAN,
     locked : BOOLEAN, promise : {"EMPTY", "VALUE", "EXCEPTION", "TAKEN"}]

\* A call object may get other values for its members.
LEMMA CallUpdate ==
    ASSUME TypeOK, NEW c \in Calls, NEW r \in CallType, obj' = [obj EXCEPT ![c] = r]
    PROVE  obj' \in [Calls -> CallType] /\ obj'[c] = r
  BY DEF TypeOK, CallType

\* Most steps write no message.
LEMMA NoBug ==
    ASSUME bug' = {}
    PROVE  SignalFindsItsCall' /\ NeverDestroyedActive'
  BY DEF SignalFindsItsCall, NeverDestroyedActive

-----------------------------------------------------------------------------
(* request() *)

\* Nobody interferes with the locks being acquired.
LEMMA RequestInv == ASSUME Inv, NEW c \in Calls, Request(c) PROVE Inv'
<1> USE NobodyAssumption
<1>1. TypeOK /\ CallInv(c) /\ Honest(c)
  BY HonestCalls DEF Inv
<1>2. TypeOK'
  <2> DEFINE r == [obj[c] EXCEPT !.locked = TRUE]
  <2>1. obj[c] \in CallType
    BY <1>1 DEF TypeOK, CallType
  <2>2. r \in CallType
    BY <2>1 DEF CallType
  <2>3. obj' = [obj EXCEPT ![c] = r]
    BY DEF Request
  <2> HIDE DEF r
  <2>4. obj' \in [Calls -> CallType]
    BY <1>1, <2>2, <2>3, CallUpdate
  <2>5. request' \in [Calls -> {"IDLE", "ASKING", "AT_ONCE", "COOKIE", "REFUSED", "DONE"}]
    BY <1>1 DEF Request, TypeOK
  <2>6. QED
    BY <1>1, <2>4, <2>5 DEF Request, TypeOK, CallType
<1>3. CallInv(c)' /\ Honest(c)'
  BY <1>1 DEF Request, TypeOK, CallInv, Locking, Unknown, Managed, Progress, Undisturbed,
              Waiting, Notified, Telling, AsksBroker, Honest, Asked
<1>4. \A d \in Calls \ {c} : SameCall(d)
  BY <1>1 DEF Request, TypeOK, SameCall
<1>5. QED
  BY <1>2, <1>3, <1>4, NoBug, StepInv DEF Request

\* The list broker answers, or does not.
LEMMA AskBrokerInv ==
    ASSUME Inv, NEW c \in Calls, NEW answer \in {"AT_ONCE", "COOKIE", "REFUSED"},
           AskBroker(c, answer)
    PROVE  Inv'
<1> USE NobodyAssumption
<1>1. TypeOK /\ CallInv(c) /\ Honest(c)
  BY HonestCalls DEF Inv
<1>2. obj[c] \in CallType /\ obj[c].promise = "EMPTY"
  BY <1>1 DEF AskBroker, CallInv, Unknown, TypeOK, CallType
<1> DEFINE r == IF answer = "AT_ONCE" THEN [obj[c] EXCEPT !.promise = "VALUE"] ELSE obj[c]
<1>3. obj' = [obj EXCEPT ![c] = r]
  BY <1>1, <1>2 DEF AskBroker, Fulfil, TypeOK
<1>4. r \in CallType
  BY <1>2 DEF CallType
<1> HIDE DEF r
<1>5. TypeOK'
  <2>1. obj' \in [Calls -> CallType]
    BY <1>1, <1>3, <1>4, CallUpdate
  <2>2. request' \in [Calls -> {"IDLE", "ASKING", "AT_ONCE", "COOKIE", "REFUSED", "DONE"}]
    BY <1>1 DEF AskBroker, TypeOK
  <2>3. broker' \in [Calls -> {"UNKNOWN", "WORKING", "ERROR", "RESULT"}]
    BY <1>1 DEF AskBroker, TypeOK
  <2>4. QED
    BY <1>1, <2>1, <2>2, <2>3 DEF AskBroker, TypeOK, CallType
<1>6. CallInv(c)' /\ Honest(c)'
  BY <1>1 DEF AskBroker, Fulfil, TypeOK, CallInv, Locking, Unknown, Managed, Progress, Undisturbed,
              Waiting, Notified, Telling, AsksBroker, Honest, Asked
<1>7. \A d \in Calls \ {c} : SameCall(d)
  BY <1>1 DEF AskBroker, Fulfil, TypeOK, SameCall
<1>8. QED
  BY <1>5, <1>6, <1>7, NoBug, StepInv DEF AskBroker

\* The cookie is stored before any signal for it is handled.
LEMMA RequestPendingInv == ASSUME Inv, NEW c \in Calls, RequestPending(c) PROVE Inv'
<1> USE NobodyAssumption
<1>1. TypeOK /\ CallInv(c) /\ Honest(c)
  BY HonestCalls DEF Inv
<1>2. request[c] \in Asked /\ pipeline = c /\ cookies = c /\ obj[c] \in CallType
  BY <1>1 DEF RequestPending, Asked, CallInv, Locking, TypeOK, CallType
<1> DEFINE r == [obj[c] EXCEPT !.state = "WAIT_FOR_NOTIFICATION", !.cookie = TRUE,
                                         !.locked = FALSE]
<1>3. obj' = [obj EXCEPT ![c] = r]
  BY <1>1, <1>2 DEF RequestPending, Fulfil, CallType, CallInv, Unknown, Asked, TypeOK
<1>4. r \in CallType
  BY <1>2 DEF CallType, CallStates
<1> HIDE DEF r
<1>5. TypeOK'
  <2>1. obj' \in [Calls -> CallType]
    BY <1>1, <1>3, <1>4, CallUpdate
  <2>2. told' \in [Calls -> Seq(CallStates)]
    BY <1>1 DEF RequestPending, TypeOK, CallStates
  <2>3. QED
    BY <1>1, <2>1, <2>2 DEF RequestPending, Return, TypeOK, CallType
<1>6. CallInv(c)' /\ Honest(c)'
  BY <1>1 DEF RequestPending, Return, TypeOK, CallInv, Locking, Unknown, Managed, Progress,
              Undisturbed, Waiting, Notified, Telling, AsksBroker, Honest, Asked
<1>7. \A d \in Calls \ {c} : SameCall(d)
  BY <1>1, <1>2 DEF RequestPending, Return, TypeOK, SameCall
<1>8. bug' = {}
  BY <1>1 DEF RequestPending, CallInv, Managed, Unknown
<1>9. QED
  BY <1>5, <1>6, <1>7, <1>8, NoBug, StepInv

\* The fast path.
LEMMA RequestAnsweredInv == ASSUME Inv, NEW c \in Calls, RequestAnswered(c) PROVE Inv'
<1> USE NobodyAssumption
<1>1. TypeOK /\ CallInv(c) /\ Honest(c)
  BY HonestCalls DEF Inv
<1>2. request[c] \in Asked /\ pipeline = c /\ cookies = c /\ obj[c] \in CallType
  BY <1>1 DEF RequestAnswered, Asked, CallInv, Locking, TypeOK, CallType
<1> DEFINE r == [obj[c] EXCEPT !.state = "RESULT_FETCHED", !.promise = "TAKEN",
                                         !.locked = FALSE]
<1>3. obj' = [obj EXCEPT ![c] = r]
  BY <1>1, <1>2 DEF RequestAnswered, Fulfil, CallType, CallInv, Unknown, Asked, TypeOK
<1>4. r \in CallType
  BY <1>2 DEF CallType, CallStates
<1> HIDE DEF r
<1>5. TypeOK'
  <2>1. obj' \in [Calls -> CallType]
    BY <1>1, <1>3, <1>4, CallUpdate
  <2>2. told' \in [Calls -> Seq(CallStates)]
    BY <1>1 DEF RequestAnswered, TypeOK, CallStates
  <2>3. QED
    BY <1>1, <2>1, <2>2 DEF RequestAnswered, Return, TypeOK, CallType
<1>6. CallInv(c)' /\ Honest(c)'
  BY <1>1 DEF RequestAnswered, Return, TypeOK, CallInv, Locking, Unknown, Managed, Progress,
              Undisturbed, Waiting, Notified, Telling, AsksBroker, Honest, Asked
<1>7. \A d \in Calls \ {c} : SameCall(d)
  BY <1>1, <1>2 DEF RequestAnswered, Return, TypeOK, SameCall
<1>8. QED
  BY <1>5, <1>6, <1>7, NoBug, StepInv DEF RequestAnswered

\* The D-Bus call has failed.
LEMMA RequestFailedInv == ASSUME Inv, NEW c \in Calls, RequestFailed(c) PROVE Inv'
<1> USE NobodyAssumption
<1>1. TypeOK /\ CallInv(c) /\ Honest(c)
  BY HonestCalls DEF Inv
<1>2. request[c] \in Asked /\ pipeline = c /\ cookies = c /\ obj[c] \in CallType
  BY <1>1 DEF RequestFailed, Asked, CallInv, Locking, TypeOK, CallType
<1> DEFINE r == [obj[c] EXCEPT !.state = "FAILED", !.promise = "EXCEPTION",
                                         !.locked = FALSE]
<1>3. obj' = [obj EXCEPT ![c] = r]
  BY <1>1, <1>2 DEF RequestFailed, Fulfil, CallType, CallInv, Unknown, Asked, TypeOK
<1>4. r \in CallType
  BY <1>2 DEF CallType, CallStates
<1> HIDE DEF r
<1>5. TypeOK'
  <2>1. obj' \in [Calls -> CallType]
    BY <1>1, <1>3, <1>4, CallUpdate
  <2>2. told' \in [Calls -> Seq(CallStates)]
    BY <1>1 DEF RequestFailed, TypeOK, CallStates
  <2>3. QED
    BY <1>1, <2>1, <2>2 DEF RequestFailed, Return, TypeOK, CallType
<1>6. CallInv(c)' /\ Honest(c)'
  BY <1>1 DEF RequestFailed, Return, TypeOK, Fulfil, CallInv, Locking, Unknown, Managed, Progress,
              Undisturbed, Waiting, Notified, Telling, AsksBroker, Honest, Asked
<1>7. \A d \in Calls \ {c} : SameCall(d)
  BY <1>1, <1>2 DEF RequestFailed, Return, TypeOK, SameCall
<1>8. bug' = {}
  BY <1>1 DEF RequestFailed, DoubleException, CallInv, Unknown
<1>9. QED
  BY <1>5, <1>6, <1>7, <1>8, NoBug, StepInv

-----------------------------------------------------------------------------
(* The D-Bus signals *)

\* The list broker sends its signal.
LEMMA ReportInv ==
    ASSUME Inv, NEW c \in Calls, NEW failed \in BOOLEAN, Report(c, failed) PROVE Inv'
<1> USE NobodyAssumption
<1>1. TypeOK /\ CallInv(c) /\ Honest(c)
  BY HonestCalls DEF Inv
<1>2. TypeOK'
  BY <1>1 DEF Report, TypeOK
<1>3. CallInv(c)' /\ Honest(c)'
  BY <1>1 DEF Report, TypeOK, CallInv, Locking, Unknown, Managed, Progress, Undisturbed,
              Waiting, Notified, Telling, AsksBroker, Honest, Asked
<1>4. \A d \in Calls \ {c} : SameCall(d)
  BY <1>1 DEF Report, TypeOK, SameCall
<1>5. QED
  BY <1>2, <1>3, <1>4, NoBug, StepInv DEF Report

\* The signal finds the notification function, because the cookie manager was not locked.
LEMMA AvailableInv == ASSUME Inv, NEW c \in Calls, Available(c) PROVE Inv'
<1> USE NobodyAssumption
<1>1. TypeOK /\ CallInv(c) /\ Honest(c)
  BY HonestCalls DEF Inv
<1>2. c \in notifyFns
  BY <1>1 DEF Available, TypeOK, CallInv, Locking, Unknown, Managed, Asked
<1>3. TypeOK'
  BY <1>1, <1>2 DEF Available, TypeOK
<1>4. CallInv(c)' /\ Honest(c)'
  BY <1>1, <1>2 DEF Available, TypeOK, CallInv, Locking, Unknown, Managed, Progress, Undisturbed,
              Waiting, Notified, Telling, AsksBroker, Honest, Asked
<1>5. \A d \in Calls \ {c} : SameCall(d)
  BY <1>1 DEF Available, TypeOK, SameCall
<1>6. QED
  BY <1>2, <1>3, <1>4, <1>5, NoBug, StepInv DEF Available

\* A call which was not aborted expects its signal.
LEMMA NotificationInv == ASSUME Inv, Notification PROVE Inv'
<1> USE NobodyAssumption
<1>1. PICK c \in Calls : c = signal.cookie
  BY DEF Notification, Inv, TypeOK
<1>2. TypeOK /\ CallInv(c) /\ Honest(c) /\ obj[c] \in CallType
  BY <1>1, HonestCalls DEF Inv, TypeOK, CallType
<1> DEFINE wanted == /\ obj[c].cookie \/ obj[c].cleared
                     /\ obj[c].state \in {"WAIT_FOR_NOTIFICATION", "ABORTING"}
           new == IF signal.failed THEN "ABORTED_BY_PEER" ELSE "READY_TO_FETCH"
           r == [obj[c] EXCEPT !.state = IF wanted THEN new ELSE @]
<1>3. obj' = [obj EXCEPT ![c] = r]
  BY <1>1, <1>2 DEF Notification, CallType, TypeOK
<1>4. r \in CallType
  BY <1>2 DEF CallType, CallStates
<1>5. TypeOK'
  <2> HIDE DEF r
  <2>1. obj' \in [Calls -> CallType]
    BY <1>1, <1>2, <1>3, <1>4, CallUpdate
  <2>2. QED
    BY <1>1, <1>2, <2>1 DEF Notification, TypeOK, CallType
<1>6. CallInv(c)' /\ Honest(c)'
  BY <1>1, <1>2 DEF Notification, TypeOK, CallInv, Locking, Unknown, Managed, Progress, Undisturbed,
              Waiting, Notified, Telling, AsksBroker, Honest, Asked
<1>7. \A d \in Calls \ {c} : SameCall(d)
  BY <1>1, <1>2 DEF Notification, TypeOK, SameCall
<1>8. SignalFindsItsCall' /\ NeverDestroyedActive'
  <2>1. c \notin Abortable => wanted
    BY <1>1, <1>2 DEF Notification, CallInv, Undisturbed, Waiting
  <2>2. bug' = IF wanted THEN {} ELSE Bug(c, "UNEXPECTED_NOTIFICATION")
    BY <1>1 DEF Notification
  <2>3. QED
    BY <1>1, <2>1, <2>2 DEF SignalFindsItsCall, NeverDestroyedActive, Bug
<1>9. QED
  BY <1>5, <1>6, <1>7, <1>8, StepInv

\* The fetch function is found, and the handler goes on with it.
LEMMA FinishInv == ASSUME Inv, Finish PROVE Inv'
<1> USE NobodyAssumption
<1>1. PICK c \in Calls : c = signal.cookie
  BY DEF Finish, Inv, TypeOK
<1>2. TypeOK /\ CallInv(c) /\ Honest(c)
  BY HonestCalls DEF Inv
<1>3. c \in fetchFns
  BY <1>1, <1>2 DEF Finish, CallInv, Managed
<1>4. TypeOK'
  BY <1>1, <1>2, <1>3 DEF Finish, TypeOK
<1>5. CallInv(c)' /\ Honest(c)'
  BY <1>1, <1>2, <1>3 DEF Finish, TypeOK, CallInv, Locking, Unknown, Managed, Progress, Undisturbed,
              Waiting, Notified, Telling, AsksBroker, Honest, Asked
<1>6. \A d \in Calls \ {c} : SameCall(d)
  BY <1>1, <1>2, <1>3 DEF Finish, TypeOK, SameCall
<1>7. QED
  BY <1>1, <1>3, <1>4, <1>5, <1>6, NoBug, StepInv DEF Finish

\* The outcome is stored in the call object once.
LEMMA FetchInv == ASSUME Inv, NEW success \in BOOLEAN, Fetch(success) PROVE Inv'
<1> USE NobodyAssumption
<1>1. PICK c \in Calls : c = signal.cookie
  BY DEF Fetch, Inv, TypeOK
<1>2. TypeOK /\ CallInv(c) /\ Honest(c) /\ obj[c] \in CallType
  BY HonestCalls DEF Inv, TypeOK, CallType
<1>3. /\ obj[c].state \in {"READY_TO_FETCH", "ABORTING", "ABORTED_BY_PEER"}
      /\ ~BadState(obj[c]) /\ obj[c].promise = "EMPTY"
  BY <1>1, <1>2 DEF Fetch, CallInv, Progress, Notified, BadState
<1> DEFINE r == IF obj[c].state # "READY_TO_FETCH"
                THEN [obj[c] EXCEPT !.locked = TRUE]
                ELSE [obj[c] EXCEPT !.locked = TRUE, !.cleared = obj[c].cookie, !.cookie = FALSE,
                                    !.promise = IF success THEN "VALUE" ELSE "EXCEPTION",
                                    !.state = IF success THEN "RESULT_FETCHED" ELSE "FAILED"]
<1>4. [FetchUnlocked(obj[c], success) EXCEPT !.locked = TRUE] = r
  BY <1>2, <1>3 DEF FetchUnlocked, Fulfil, ClearCookie, CallType
<1>5. obj' = [obj EXCEPT ![c] = r]
  <2> HIDE DEF r
  <2>1. obj' = [obj EXCEPT ![c] = [FetchUnlocked(obj[c], success) EXCEPT !.locked = TRUE]]
    BY <1>1, <1>2, <1>3 DEF Fetch, TypeOK
  <2>2. QED
    BY <1>4, <2>1
<1>6. r \in CallType
  BY <1>2 DEF CallType, CallStates
<1>7. signal' = [signal EXCEPT !.at = "TELL", !.cookie = c]
  BY <1>1, <1>3 DEF Fetch
<1>8. obj' \in [Calls -> CallType] /\ obj'[c] = r
  <2> HIDE DEF r
  <2>1. QED
    BY <1>2, <1>5, <1>6, CallUpdate
<1>9. TypeOK'
  BY <1>1, <1>2, <1>7, <1>8 DEF Fetch, TypeOK, CallType
<1>10. CallInv(c)' /\ Honest(c)'
  <2>1. UNCHANGED <<pipeline, cookies, notifyFns, fetchFns, request, broker, sent, aborting,
                    owned, told>>
    BY DEF Fetch
  <2>2. signal.at = "FETCH"
    BY DEF Fetch
  <2>3. QED
    BY <1>1, <1>2, <1>3, <1>7, <1>8, <2>1, <2>2
    DEF TypeOK, CallType, CallInv, Locking, Unknown, Managed, Progress, Undisturbed,
        Waiting, Notified, Telling, AsksBroker, Honest, Asked
<1>11. \A d \in Calls \ {c} : SameCall(d)
  <2> HIDE DEF r
  <2>1. QED
    BY <1>1, <1>2, <1>5, <1>7 DEF Fetch, TypeOK, SameCall
<1>12. SignalFindsItsCall' /\ NeverDestroyedActive'
  <2>1. bug' \subseteq {<<c, "FETCH_WITHOUT_COOKIE">>}
    BY <1>1, <1>3 DEF Fetch, Bug, DoubleException
  <2>2. c \notin Abortable => obj[c].cookie
    BY <1>1, <1>2 DEF Fetch, CallInv, Undisturbed, Notified
  <2>3. c \notin Abortable => bug' = {}
    BY <1>1, <1>3, <2>2 DEF Fetch, Bug, DoubleException
  <2>4. QED
    BY <2>1, <2>3 DEF SignalFindsItsCall, NeverDestroyedActive
<1>13. QED
  BY <1>9, <1>10, <1>11, <1>12, StepInv

\* The context has not been told anything before.
LEMMA TellInv == ASSUME Inv, Tell PROVE Inv'
<1> USE NobodyAssumption
<1>1. PICK c \in Calls : c = signal.cookie
  BY DEF Tell, Inv, TypeOK
<1>2. TypeOK /\ CallInv(c) /\ Honest(c) /\ obj[c] \in CallType
  BY HonestCalls DEF Inv, TypeOK, CallType
<1> DEFINE taken == /\ obj[c].state = "RESULT_FETCHED" /\ ~obj[c].abortedAfter
                    /\ obj[c].promise = "VALUE"
           r == [obj[c] EXCEPT !.locked = FALSE, !.promise = IF taken THEN "TAKEN" ELSE @]
<1>3. obj' = [obj EXCEPT ![c] = r]
  BY <1>1, <1>2 DEF Tell, CallType, TypeOK
<1>4. r \in CallType
  BY <1>2 DEF CallType
<1>5. obj' \in [Calls -> CallType] /\ obj'[c] = r
  <2> HIDE DEF r
  <2>1. QED
    BY <1>2, <1>3, <1>4, CallUpdate
<1>6. /\ told' = [told EXCEPT ![c] = Append(@, obj[c].state)]
      /\ told'[c] = <<obj[c].state>>
  <2>1. told' = [told EXCEPT ![c] = Append(@, obj[c].state)]
    BY <1>1 DEF Tell
  <2>2. told[c] = <<>>
    BY <1>1, <1>2 DEF Tell, CallInv, Progress, Telling
  <2>3. told'[c] = Append(<<>>, obj[c].state)
    BY <1>2, <2>1, <2>2 DEF TypeOK
  <2>4. QED
    BY <2>1, <2>3
<1>7. signal' = [signal EXCEPT !.at = "IDLE", !.cookie = Nobody]
  BY DEF Tell
<1>8. TypeOK'
  <2>1. told' \in [Calls -> Seq(CallStates)]
    BY <1>2, <1>6 DEF TypeOK, CallType
  <2>2. QED
    BY <1>2, <1>5, <1>7, <2>1 DEF Tell, TypeOK, CallType
<1>9. CallInv(c)' /\ Honest(c)'
  <2>1. UNCHANGED <<pipeline, cookies, notifyFns, fetchFns, request, broker, sent, aborting>>
    BY DEF Tell
  <2>2. owned' = owned \ {c} /\ signal.at = "TELL" /\ pipeline = Nobody
    BY <1>1 DEF Tell
  <2>3. CallInv(c)'
    BY <1>1, <1>2, <1>5, <1>7, <2>1, <2>2
    DEF TypeOK, CallType, CallInv, Locking, Unknown, Managed, Progress, Undisturbed,
        Waiting, Notified, Telling, AsksBroker, Asked
  <2>4. Honest(c)'
    BY <1>1, <1>2, <1>5, <1>6, <2>1, <2>2
    DEF CallType, CallInv, Progress, Undisturbed, Telling, Honest
  <2>5. QED
    BY <2>3, <2>4
<1>10. \A d \in Calls \ {c} : SameCall(d)
  <2> HIDE DEF r
  <2>1. QED
    BY <1>1, <1>2, <1>3, <1>6, <1>7 DEF Tell, TypeOK, SameCall
<1>11. QED
  BY <1>8, <1>9, <1>10, NoBug, StepInv DEF Tell

-----------------------------------------------------------------------------
(* Abortion and destruction *)

\* What abort_request_internal() does to the members.
LEMMA AbortLocallyType ==
    ASSUME NEW o \in CallType
    PROVE  /\ AbortLocally(o) \in CallType
           /\ AbortLocally(o).promise = o.promise /\ AbortLocally(o).locked = o.locked
           /\ ~AsksBroker(AbortLocally(o))
           /\ AsksBroker(o) =>
                /\ AbortLocally(o).state = o.state
                /\ ~AbortLocally(o).cookie /\ AbortLocally(o).cleared
           /\ ~AsksBroker(o) /\ AbortLocally(o).state # o.state =>
                /\ AbortLocally(o).state = "ABORTED_BY_PEER"
                /\ ~AbortLocally(o).cookie /\ ~AbortLocally(o).cleared
           /\ ~AsksBroker(o) /\ AbortLocally(o).state = o.state =>
                AbortLocally(o).cookie = o.cookie /\ AbortLocally(o).cleared = o.cleared
  BY DEF AbortLocally, AsksBroker, ClearCookie, CallType, CallStates

\* Abortion is about a call which is in nobody else's hands.
LEMMA AbortInv == ASSUME Inv, NEW c \in Calls, Abort(c) PROVE Inv'
<1> USE NobodyAssumption
<1>1. TypeOK /\ CallInv(c) /\ Honest(c) /\ obj[c] \in CallType
  BY HonestCalls DEF Inv, TypeOK, CallType
<1> DEFINE r == AbortLocally(obj[c])
<1>2. obj' = [obj EXCEPT ![c] = r]
  BY <1>1 DEF Abort, TypeOK
<1>3. r \in CallType
  BY <1>1, AbortLocallyType
<1>4. obj' \in [Calls -> CallType] /\ obj'[c] = r
  <2> HIDE DEF r
  <2>1. QED
    BY <1>1, <1>2, <1>3, CallUpdate
<1>5. TypeOK'
  BY <1>1, <1>4 DEF Abort, TypeOK, CallType
<1>6. CallInv(c)' /\ Honest(c)'
  <2> HIDE DEF r
  <2>1. /\ r.promise = obj[c].promise /\ r.locked = obj[c].locked /\ ~AsksBroker(r)
        /\ AsksBroker(obj[c]) => r.state = obj[c].state /\ ~r.cookie /\ r.cleared
        /\ ~AsksBroker(obj[c]) /\ r.state # obj[c].state =>
             r.state = "ABORTED_BY_PEER" /\ ~r.cookie /\ ~r.cleared
        /\ ~AsksBroker(obj[c]) /\ r.state = obj[c].state =>
             r.cookie = obj[c].cookie /\ r.cleared = obj[c].cleared
    BY <1>1, AbortLocallyType DEF r
  <2>2. /\ c \in Abortable /\ c \notin aborting
        /\ aborting' = IF AsksBroker(obj[c]) THEN aborting \cup {c} ELSE aborting
        /\ UNCHANGED <<pipeline, cookies, notifyFns, fetchFns, request, signal, broker, sent,
                       owned, told>>
    BY DEF Abort
  <2>3. request[c] \notin Asked
    BY <1>1 DEF Abort, CallInv, Locking
  <2>4. Locking(c)' /\ Managed(c)'
    BY <1>1, <1>4, <2>1, <2>2, <2>3 DEF CallInv, Locking, Managed
  <2>5. Unknown(c)'
    BY <1>1, <1>4, <2>1, <2>2, <2>3 DEF CallInv, Unknown, AsksBroker
  <2>6. Progress(c)'
    BY <1>1, <1>4, <2>1, <2>2
    DEF Abort, CallInv, Progress, Waiting, Notified, Telling, AsksBroker, Locking
  <2>7. Honest(c)'
    BY <1>1, <1>4, <2>1, <2>2 DEF Honest
  <2>8. QED
    BY <2>2, <2>4, <2>5, <2>6, <2>7 DEF CallInv
<1>7. \A d \in Calls \ {c} : SameCall(d)
  <2> HIDE DEF r
  <2>1. QED
    BY <1>1, <1>2 DEF Abort, TypeOK, SameCall
<1>8. QED
  BY <1>5, <1>6, <1>7, NoBug, StepInv DEF Abort

\* The list broker has been asked to abort the request.
LEMMA AbortedInv ==
    ASSUME Inv, NEW c \in Calls, NEW success \in BOOLEAN, Aborted(c, success) PROVE Inv'
<1> USE NobodyAssumption
<1>1. TypeOK /\ CallInv(c) /\ Honest(c) /\ obj[c] \in CallType
  BY HonestCalls DEF Inv, TypeOK, CallType
<1> DEFINE r == [obj[c] EXCEPT !.state = IF success THEN "ABORTING" ELSE @]
<1>2. obj' = [obj EXCEPT ![c] = r]
  BY <1>1 DEF Aborted, TypeOK
<1>3. r \in CallType
  BY <1>1 DEF CallType, CallStates
<1>4. obj' \in [Calls -> CallType] /\ obj'[c] = r
  <2> HIDE DEF r
  <2>1. QED
    BY <1>1, <1>2, <1>3, CallUpdate
<1>5. TypeOK'
  BY <1>1, <1>4 DEF Aborted, TypeOK, CallType
<1>6. CallInv(c)' /\ Honest(c)'
  BY <1>1, <1>4
  DEF Aborted, TypeOK, CallType, CallInv, Locking, Unknown, Managed,
      Progress, Undisturbed, Waiting, Notified, Telling, AsksBroker, Honest, Asked
<1>7. \A d \in Calls \ {c} : SameCall(d)
  <2> HIDE DEF r
  <2>1. QED
    BY <1>1, <1>2 DEF Aborted, TypeOK, SameCall
<1>8. QED
  BY <1>5, <1>6, <1>7, NoBug, StepInv DEF Aborted

\* The cookie manager still refers to the call.
LEMMA DisownInv == ASSUME Inv, NEW c \in Calls, Disown(c) PROVE Inv'
<1> USE NobodyAssumption
<1>1. TypeOK /\ CallInv(c) /\ Honest(c)
  BY HonestCalls DEF Inv
<1>2. TypeOK'
  BY <1>1 DEF Disown, TypeOK
<1>3. CallInv(c)' /\ Honest(c)'
  BY <1>1 DEF Disown, TypeOK, CallInv, Locking, Unknown, Managed, Progress, Undisturbed,
              Waiting, Notified, Telling, AsksBroker, Honest, Asked
<1>4. \A d \in Calls \ {c} : SameCall(d)
  BY <1>1 DEF Disown, TypeOK, SameCall
<1>5. QED
  BY <1>2, <1>3, <1>4, NoBug, StepInv DEF Disown

\* Nobody refers to the call, so that there is no cookie either.
LEMMA DestroyInv ==
    ASSUME Inv, NEW c \in Calls, NEW success \in BOOLEAN, Destroy(c, success) PROVE Inv'
<1> USE NobodyAssumption
<1>1. TypeOK /\ CallInv(c) /\ Honest(c) /\ obj[c] \in CallType
  BY HonestCalls DEF Inv, TypeOK, CallType
<1>2. ~AsksBroker(obj[c])
  BY <1>1 DEF Destroy, ReferredTo, CallInv, Progress
<1> DEFINE r == [AbortLocally(obj[c]) EXCEPT !.state = "ABOUT_TO_DESTROY"]
<1>3. obj' = [obj EXCEPT ![c] = r]
  BY <1>1 DEF Destroy, TypeOK
<1>4. r \in CallType
  BY <1>1, AbortLocallyType DEF CallType, CallStates
<1>5. obj' \in [Calls -> CallType] /\ obj'[c] = r
  <2> HIDE DEF r
  <2>1. QED
    BY <1>1, <1>3, <1>4, CallUpdate
<1>6. TypeOK'
  BY <1>1, <1>5 DEF Destroy, TypeOK, CallType
<1>7. CallInv(c)' /\ Honest(c)'
  <2> HIDE DEF r
  <2>1. /\ r.promise = obj[c].promise /\ r.locked = obj[c].locked
        /\ r.state = "ABOUT_TO_DESTROY"
        /\ AbortLocally(obj[c]).state # obj[c].state => ~r.cookie /\ ~r.cleared
        /\ AbortLocally(obj[c]).state = obj[c].state =>
             r.cookie = obj[c].cookie /\ r.cleared = obj[c].cleared
    BY <1>1, <1>2, AbortLocallyType DEF r, CallType
  <2>2. UNCHANGED <<pipeline, cookies, notifyFns, fetchFns, request, signal, broker, sent,
                    aborting, owned, told>>
    BY DEF Destroy
  <2>3. request[c] \notin Asked
    BY <1>1 DEF Destroy, ReferredTo, CallInv, Locking
  <2>4. Locking(c)' /\ Managed(c)'
    BY <1>1, <1>5, <2>1, <2>2, <2>3 DEF CallInv, Locking, Managed
  <2>5. Unknown(c)'
    BY <1>1, <1>5, <2>1, <2>2, <2>3 DEF CallInv, Unknown
  <2>6. Progress(c)' /\ (c \notin Abortable => Undisturbed(c)')
    BY <1>1, <1>5, <2>1, <2>2
    DEF Destroy, ReferredTo, CallInv, Progress, Undisturbed, Waiting, Notified, Telling, AsksBroker
  <2>7. Honest(c)'
    BY <1>1, <1>5, <2>1, <2>2 DEF Honest
  <2>8. QED
    BY <2>4, <2>5, <2>6, <2>7 DEF CallInv
<1>8. \A d \in Calls \ {c} : SameCall(d)
  <2> HIDE DEF r
  <2>1. QED
    BY <1>1, <1>3 DEF Destroy, TypeOK, SameCall
<1>9. QED
  BY <1>2, <1>6, <1>7, <1>8, NoBug, StepInv DEF Destroy

-----------------------------------------------------------------------------
(* The theorems *)

\* Nothing has been requested yet.
LEMMA InitInv == Init => Inv
<1> USE NobodyAssumption
<1> SUFFICES ASSUME Init PROVE Inv
  OBVIOUS
<1>1. TypeOK
  BY DEF Init, TypeOK, NewCall, CallStates
<1>2. ASSUME NEW c \in Calls PROVE CallInv(c)
  BY <1>2 DEF Init, NewCall, CallInv, Locking, Unknown, Managed, Progress, Undisturbed, Waiting,
              Notified, Telling, AsksBroker, Asked
<1>3. ToldTheTruthOnce /\ ToldOnceInSpiteOfAbort /\ SignalFindsItsCall /\ NeverDestroyedActive
  BY DEF Init, ToldTheTruthOnce, ToldOnceInSpiteOfAbort, SignalFindsItsCall, NeverDestroyedActive
<1>4. QED
  BY <1>1, <1>2, <1>3 DEF Inv

\* Each step of each of the threads preserves the invariant.
LEMMA NextInv == Inv /\ [Next]_vars => Inv'
<1> SUFFICES ASSUME Inv, [Next]_vars PROVE Inv'
  OBVIOUS
<1>1. CASE Requester
  BY <1>1, RequestInv, AskBrokerInv, RequestPendingInv, RequestAnsweredInv, RequestFailedInv
  DEF Requester
<1>2. CASE SignalHandler
  BY <1>2, AvailableInv, NotificationInv, FinishInv, TellInv, FetchInv DEF SignalHandler
<1>3. CASE ListBroker
  BY <1>3, ReportInv DEF ListBroker
<1>4. CASE Owner
  BY <1>4, AbortInv, DisownInv, AbortedInv, DestroyInv DEF Owner
<1>5. CASE UNCHANGED vars
  <2>1. TypeOK' /\ SignalFindsItsCall' /\ NeverDestroyedActive'
    BY <1>5 DEF vars, Inv, TypeOK, SignalFindsItsCall, NeverDestroyedActive
  <2>2. ToldTheTruthOnce' /\ ToldOnceInSpiteOfAbort'
    BY <1>5 DEF vars, Inv, ToldTheTruthOnce, ToldOnceInSpiteOfAbort
  <2>3. ASSUME NEW c \in Calls PROVE CallInv(c)'
    <3>1. CallInv(c) /\ Honest(c) /\ SameCall(c)
      BY <1>5, HonestCalls DEF vars, Inv, SameCall
    <3>2. QED
      BY <3>1, SameCallInv
  <2>4. QED
    BY <2>1, <2>2, <2>3 DEF Inv
<1>6. QED
  BY <1>1, <1>2, <1>3, <1>4, <1>5 DEF Next, Finished

\* The invariant holds in all states.
LEMMA SpecInv == Spec => []Inv
  BY InitInv, NextInv, PTL DEF Spec

(***************************************************************************)
(* The types of the call objects and of the cookie manager.                *)
(***************************************************************************)
THEOREM RnfTypes == Spec => []TypeOK
<1>1. Inv => TypeOK
  BY DEF Inv
<1>2. QED
  BY <1>1, SpecInv, PTL

(***************************************************************************)
(* The comment in request() is right for any number of calls: no signal    *)
(* comes before the functions for its cookie are stored, and no call is    *)
(* surprised by its signal unless it has been aborted.                     *)
(***************************************************************************)
THEOREM SignalsFindTheirCalls == Spec => []SignalFindsItsCall
<1>1. Inv => SignalFindsItsCall
  BY DEF Inv
<1>2. QED
  BY <1>1, SpecInv, PTL

(***************************************************************************)
(* No call object is destroyed while its cookie is active, whenever its    *)
(* item is destroyed and whether or not it is aborted.                     *)
(***************************************************************************)
THEOREM CallsOutliveTheirCookies == Spec => []NeverDestroyedActive
<1>1. Inv => NeverDestroyedActive
  BY DEF Inv
<1>2. QED
  BY <1>1, SpecInv, PTL

(***************************************************************************)
(* The context of a call which is not aborted is told the outcome once,    *)
(* and the outcome is the one of the list broker.                          *)
(***************************************************************************)
THEOREM ContextsAreToldTheTruth == Spec => []ToldTheTruthOnce
<1>1. Inv => ToldTheTruthOnce
  BY DEF Inv
<1>2. QED
  BY <1>1, SpecInv, PTL

(***************************************************************************)
(* Also for a call which is aborted in any of its states, the context is   *)
(* told once at most, and never about a result which is not there.         *)
(***************************************************************************)
THEOREM AbortedContextsAreToldOnce == Spec => []ToldOnceInSpiteOfAbort
<1>1. Inv => ToldOnceInSpiteOfAbort
  BY DEF Inv
<1>2. QED
  BY <1>1, SpecInv, PTL
=============================================================================
