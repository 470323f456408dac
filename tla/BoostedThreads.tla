--------------------------- MODULE BoostedThreads ---------------------------
(***************************************************************************)
(* Class BoostedThreads::Threads (boosted_threads.cc) and the handler of   *)
(* stream-status messages in front of it (streamer.cc): threads GStreamer  *)
(* takes from its pool register themselves when they enter a task that     *)
(* moves audio data, and are given a realtime priority while the player    *)
(* boosts them.  All operations are done under one lock.                   *)
(***************************************************************************)
CONSTANTS
    Pool,       \* the threads of GStreamer's thread pool
    Tasks       \* names of the tasks they are used for

VARIABLE
    threads     \* the object, the scheduler, and the tasks (see below)

\* boosted_sched_priorities_; NONE stands for the default policy and priority.
Priorities == {"NONE", "MODERATE", "HIGH", "HIGHEST"}

\* Names beginning with "dmultiqueue" are represented by that string.
TaskNameToPriority(name) ==
    CASE name = "dmultiqueue" -> "HIGH"
      [] name \in {"aqueue:src", "audiosink-actual-sink-alsa"} -> "HIGHEST"
      [] OTHER -> "NONE"

NoTask == "NO_TASK"

(***************************************************************************)
(*   boosted   is_boost_enabled_;                                          *)
(*   known     the priority stored in threads_, NONE if there is no entry; *)
(*   sched     the priority used by the operating system;                  *)
(*   task      what the thread is being used for, known to GStreamer only. *)
(***************************************************************************)
NoThreads ==
    [boosted |-> FALSE,
     known |-> [t \in Pool |-> "NONE"],
     sched |-> [t \in Pool |-> "NONE"],
     task |-> [t \in Pool |-> NoTask]]

\* configure_thread() for each registered thread.
ConfigureAll(th, prio) ==
    [th EXCEPT !.sched = [t \in Pool |-> IF th.known[t] = "NONE" THEN th.sched[t] ELSE prio[t]]]

Boost(th) ==
    IF th.boosted THEN th ELSE ConfigureAll([th EXCEPT !.boosted = TRUE], th.known)

Throttle(th) ==
    IF th.boosted
    THEN ConfigureAll([th EXCEPT !.boosted = FALSE], [t \in Pool |-> "NONE"])
    ELSE th

AddSelf(th, t, prio) ==
    [th EXCEPT !.sched[t] = IF th.boosted THEN prio ELSE "NONE", !.known[t] = prio]

\* Mutant: a thread goes back to the pool with the priority it was given.
RemoveSelfLeaking(th, t) == [th EXCEPT !.known[t] = "NONE"]

RemoveSelf(th, t) == [th EXCEPT !.sched[t] = "NONE", !.known[t] = "NONE"]

\* GST_STREAM_STATUS_TYPE_ENTER and _LEAVE, handled by the thread itself.
Enter(th, t, name) ==
    LET entered == [th EXCEPT !.task[t] = name]
        prio    == TaskNameToPriority(name)
    IN  IF prio = "NONE" THEN entered ELSE AddSelf(entered, t, prio)

Leave(th, t) ==
    LET left == [th EXCEPT !.task[t] = NoTask]
    IN  IF TaskNameToPriority(th.task[t]) = "NONE" THEN left ELSE RemoveSelf(left, t)

-----------------------------------------------------------------------------
Init == threads = NoThreads

EnterTask(t, name) == threads.task[t] = NoTask /\ threads' = Enter(threads, t, name)

LeaveTask(t) == threads.task[t] # NoTask /\ threads' = Leave(threads, t)

Next ==
    \/ threads' = Boost(threads)
    \/ threads' = Throttle(threads)
    \/ \E t \in Pool : LeaveTask(t) \/ \E name \in Tasks : EnterTask(t, name)

Spec == Init /\ [][Next]_threads

-----------------------------------------------------------------------------
(***************************************************************************)
(* A thread runs with realtime priority if and only if the player boosts   *)
(* its threads and GStreamer uses the thread for a task which needs it: a  *)
(* thread that goes back to the pool takes no priority with it, and one    *)
(* that enters late is not left behind (add_self(), remove_self() racing   *)
(* with boost() and throttle()).                                           *)
(***************************************************************************)
SchedulingFollows ==
    \A t \in Pool :
        threads.sched[t] = IF threads.boosted
                           THEN TaskNameToPriority(threads.task[t]) ELSE "NONE"
=============================================================================
