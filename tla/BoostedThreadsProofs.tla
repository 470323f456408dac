------------------------ MODULE BoostedThreadsProofs ------------------------
(***************************************************************************)
(* Scheduling of any number of threads in any tasks.                       *)
(***************************************************************************)
EXTENDS BoostedThreads, TLAPS

TypeOK ==
    /\ threads = [boosted |-> threads.boosted, known |-> threads.known,
                  sched |-> threads.sched, task |-> threads.task]
    /\ threads.boosted \in BOOLEAN
    /\ threads.known \in [Pool -> Priorities]
    /\ threads.sched \in [Pool -> Priorities]
    /\ threads.task \in [Pool -> Tasks \cup {NoTask}]

\* The entries in threads_ are those of the threads in tasks of interest.
KnownAreUsed == \A t \in Pool : threads.known[t] = TaskNameToPriority(threads.task[t])

Inv == TypeOK /\ KnownAreUsed /\ SchedulingFollows

-----------------------------------------------------------------------------
\* The table yields priorities, and none for a thread in the pool.
LEMMA PriorityOfTask ==
    /\ \A name : TaskNameToPriority(name) \in Priorities
    /\ TaskNameToPriority(NoTask) = "NONE"
BY DEF TaskNameToPriority, Priorities, NoTask

\* boost(): the registered threads are those which are to be configured.
LEMMA BoostStep ==
    ASSUME Inv, threads' = Boost(threads)
    PROVE  Inv'
<1>1. CASE threads.boosted
  BY <1>1 DEF Boost, Inv, TypeOK, KnownAreUsed, SchedulingFollows
<1>2. CASE ~threads.boosted
  <2>1. threads' = [boosted |-> TRUE, known |-> threads.known,
                    sched |-> [t \in Pool |-> IF threads.known[t] = "NONE"
                                              THEN threads.sched[t] ELSE threads.known[t]],
                    task |-> threads.task]
    BY <1>2 DEF Boost, ConfigureAll, Inv, TypeOK
  <2>2. \A t \in Pool : threads'.sched[t] = threads.known[t]
    BY <1>2, <2>1 DEF Inv, SchedulingFollows
  <2>3. TypeOK'
    BY <2>1 DEF Inv, TypeOK
  <2> QED
    BY <2>1, <2>2, <2>3 DEF Inv, KnownAreUsed, SchedulingFollows
<1> QED
  BY <1>1, <1>2 DEF Inv, TypeOK

\* throttle(): threads which are not registered have the default priority already.
LEMMA ThrottleStep ==
    ASSUME Inv, threads' = Throttle(threads)
    PROVE  Inv'
<1>1. CASE ~threads.boosted
  BY <1>1 DEF Throttle, Inv, TypeOK, KnownAreUsed, SchedulingFollows
<1>2. CASE threads.boosted
  <2>1. threads' = [boosted |-> FALSE, known |-> threads.known,
                    sched |-> [t \in Pool |-> IF threads.known[t] = "NONE"
                                              THEN threads.sched[t] ELSE "NONE"],
                    task |-> threads.task]
    BY <1>2 DEF Throttle, ConfigureAll, Inv, TypeOK
  <2>2. \A t \in Pool : threads'.sched[t] = "NONE"
    BY <1>2, <2>1 DEF Inv, SchedulingFollows, KnownAreUsed
  <2>3. TypeOK'
    BY <2>1 DEF Inv, TypeOK, Priorities
  <2> QED
    BY <2>1, <2>2, <2>3 DEF Inv, KnownAreUsed, SchedulingFollows
<1> QED
  BY <1>1, <1>2 DEF Inv, TypeOK

\* add_self(): a thread which enters while the others are boosted is boosted, too.
LEMMA EnterStep ==
    ASSUME Inv, NEW t \in Pool, NEW name \in Tasks, EnterTask(t, name)
    PROVE  Inv'
<1> DEFINE prio == TaskNameToPriority(name)
<1>1. prio \in Priorities
  BY PriorityOfTask
<1>2. threads' =
        [boosted |-> threads.boosted,
         known |-> [threads.known EXCEPT ![t] = prio],
         sched |-> [threads.sched EXCEPT ![t] = IF threads.boosted THEN prio ELSE "NONE"],
         task |-> [threads.task EXCEPT ![t] = name]]
  <2>1. threads.known[t] = "NONE" /\ threads.sched[t] = "NONE"
    BY PriorityOfTask DEF EnterTask, Inv, KnownAreUsed, SchedulingFollows
  <2>2. CASE prio = "NONE"
    <3>1. /\ threads.known = [threads.known EXCEPT ![t] = prio]
          /\ threads.sched = [threads.sched EXCEPT ![t] = IF threads.boosted THEN prio ELSE "NONE"]
      BY <2>1, <2>2 DEF Inv, TypeOK
    <3>2. threads' = [threads EXCEPT !.task[t] = name]
      BY <2>2 DEF EnterTask, Enter
    <3> QED
      BY <3>1, <3>2 DEF Inv, TypeOK
  <2>3. CASE prio # "NONE"
    BY <2>3 DEF EnterTask, Enter, AddSelf, Inv, TypeOK
  <2> QED
    BY <2>2, <2>3
<1>3. TypeOK'
  BY <1>1, <1>2 DEF Inv, TypeOK, Priorities
<1>4. KnownAreUsed'
  BY <1>2 DEF Inv, TypeOK, KnownAreUsed
<1>5. SchedulingFollows'
  BY <1>2 DEF Inv, TypeOK, SchedulingFollows
<1> QED
  BY <1>3, <1>4, <1>5 DEF Inv

\* remove_self(): no thread leaks a priority into the pool.
LEMMA LeaveStep ==
    ASSUME Inv, NEW t \in Pool, LeaveTask(t)
    PROVE  Inv'
<1>1. threads' =
        [boosted |-> threads.boosted,
         known |-> [threads.known EXCEPT ![t] = "NONE"],
         sched |-> [threads.sched EXCEPT ![t] = "NONE"],
         task |-> [threads.task EXCEPT ![t] = NoTask]]
  <2>1. CASE TaskNameToPriority(threads.task[t]) = "NONE"
    <3>1. threads.known[t] = "NONE" /\ threads.sched[t] = "NONE"
      BY <2>1 DEF Inv, KnownAreUsed, SchedulingFollows
    <3>2. /\ threads.known = [threads.known EXCEPT ![t] = "NONE"]
          /\ threads.sched = [threads.sched EXCEPT ![t] = "NONE"]
      BY <3>1 DEF Inv, TypeOK
    <3>3. threads' = [threads EXCEPT !.task[t] = NoTask]
      BY <2>1 DEF LeaveTask, Leave
    <3> QED
      BY <3>2, <3>3 DEF Inv, TypeOK
  <2>2. CASE TaskNameToPriority(threads.task[t]) # "NONE"
    BY <2>2 DEF LeaveTask, Leave, RemoveSelf, Inv, TypeOK
  <2> QED
    BY <2>1, <2>2
<1>2. TypeOK'
  BY <1>1 DEF Inv, TypeOK, Priorities
<1>3. KnownAreUsed'
  BY <1>1, PriorityOfTask DEF Inv, TypeOK, KnownAreUsed
<1>4. SchedulingFollows'
  BY <1>1, PriorityOfTask DEF Inv, TypeOK, SchedulingFollows
<1> QED
  BY <1>2, <1>3, <1>4 DEF Inv

(***************************************************************************)
(* For any pool of threads and any tasks: registration, boosting and       *)
(* scheduling agree, however threads entering and leaving interleave with  *)
(* boost() and throttle() (boosted_threads.cc).                            *)
(***************************************************************************)
THEOREM SpecInv == Spec => []Inv
<1>1. Init => Inv
  BY PriorityOfTask
  DEF Init, NoThreads, Inv, TypeOK, KnownAreUsed, SchedulingFollows, Priorities
<1>2. Inv /\ [Next]_threads => Inv'
  <2> SUFFICES ASSUME Inv, [Next]_threads PROVE Inv'
    OBVIOUS
  <2>1. CASE threads' = Boost(threads)
    BY <2>1, BoostStep
  <2>2. CASE threads' = Throttle(threads)
    BY <2>2, ThrottleStep
  <2>3. ASSUME NEW t \in Pool, NEW name \in Tasks, EnterTask(t, name) PROVE Inv'
    BY <2>3, EnterStep
  <2>4. ASSUME NEW t \in Pool, LeaveTask(t) PROVE Inv'
    BY <2>4, LeaveStep
  <2>5. CASE UNCHANGED threads
    BY <2>5 DEF Inv, TypeOK, KnownAreUsed, SchedulingFollows
  <2> QED
    BY <2>1, <2>2, <2>3, <2>4, <2>5 DEF Next
<1> QED
  BY <1>1, <1>2, PTL DEF Spec

(***************************************************************************)
(* A thread has realtime priority if and only if its task needs it and the *)
(* player boosts its threads (configure_thread()).                         *)
(***************************************************************************)
THEOREM PrioritiesFollow == Spec => []SchedulingFollows
<1>1. Inv => SchedulingFollows
  BY DEF Inv
<1> QED
  BY <1>1, SpecInv, PTL
=============================================================================
