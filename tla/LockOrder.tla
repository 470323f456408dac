----------------------------- MODULE LockOrder -----------------------------
(***************************************************************************)
(* Threads which run lock programs: the main loop runs one handler or      *)
(* command after the other, each streaming thread of GStreamer runs one    *)
(* callback after the other.  The locks are recursive (LoggedLock::        *)
(* RecMutex), except those of the call objects (LoggedLock::Mutex) and the *)
(* one of BoostedThreads, which is never requested by its holder.          *)
(*                                                                         *)
(* A program is a sequence of steps, records with the operation, the lock  *)
(* (or the call), and the set of locks held before the step.               *)
(***************************************************************************)
EXTENDS Naturals, Sequences, FiniteSets

CONSTANTS
    MainLoop,   \* the thread of the main loop
    Streaming,  \* GStreamer's threads
    Locks,
    CallLocks,  \* the locks of the call objects, not recursive
    Programs,   \* set of programs for each thread
    Rank,       \* the order in which streaming threads acquire locks
    Outer,      \* locks a streaming thread may hold while it waits for another
    Inner       \* locks a streaming thread may wait for while it holds others

Threads == {MainLoop} \cup Streaming

Steps == [op : {"lock", "unlock", "ask"}, lock : Locks, held : SUBSET Locks]

ASSUME MainLoopAssumption == MainLoop \notin Streaming
ASSUME CallLocksAssumption == CallLocks \subseteq Locks
ASSUME RankAssumption == Rank \in [Locks -> 1..4]
ASSUME ProgramsAssumption == Programs \in [Threads -> SUBSET Seq(Steps)]

-----------------------------------------------------------------------------
(* What the lock programs have in common *)

Asking(p, i, c) == p[i].op = "ask" /\ p[i].lock = c

\* Step i locks what is locked by the same thread already.
Relock(p, i) == p[i].lock \in p[i].held \ CallLocks

\* Step i locks a new call object, for which the request is still to be sent.
NewCall(p, i) ==
    /\ p[i].lock \in CallLocks \ p[i].held
    /\ \E j \in 1..Len(p) : i < j /\ Asking(p, j, p[i].lock)

\* Guards are scopes, and a request is sent once for each call object.
Scoped(p) ==
    /\ \A i \in 1..Len(p) : \A j \in 1..Len(p) :
         j = i + 1 => p[j].held \subseteq
                        (p[i].held \cup IF p[i].op = "lock" THEN {p[i].lock} ELSE {})
    /\ \A i \in 1..Len(p) : p[i].op = "ask" =>
         /\ p[i].lock \in CallLocks
         /\ \A j \in 1..Len(p) : i < j => ~Asking(p, j, p[i].lock)

\* Streaming threads acquire locks in ascending order, and they handle no signals.
Ascending(p) ==
    \A i \in 1..Len(p) : p[i].op = "lock" =>
        \/ Relock(p, i)
        \/ NewCall(p, i)
        \/ /\ p[i].lock \notin CallLocks
           /\ \A h \in p[i].held : h \in Outer /\ Rank[h] < Rank[p[i].lock]
           /\ p[i].held # {} => p[i].lock \in Inner

(***************************************************************************)
(* Handlers of the main loop acquire locks in any order, unless both locks *)
(* may be in use by one streaming thread.                                  *)
(***************************************************************************)
Compatible(p) ==
    \A i \in 1..Len(p) : p[i].op = "lock" =>
        \/ Relock(p, i)
        \/ NewCall(p, i)
        \/ /\ p[i].lock \notin p[i].held
           /\ \A h \in p[i].held :
                h \in Inner /\ p[i].lock \in Outer => Rank[h] < Rank[p[i].lock]

ASSUME DisciplineAssumption ==
    /\ \A t \in Threads : \A p \in Programs[t] : Scoped(p) /\ (p # <<>> => p[1].held = {})
    /\ \A t \in Streaming : \A p \in Programs[t] : Ascending(p)
    /\ \A p \in Programs[MainLoop] : Compatible(p)

-----------------------------------------------------------------------------
VARIABLES
    rest,   \* what is left of the program a thread is running
    asked   \* calls for which the list broker may send a signal

vars == <<rest, asked>>

Init ==
    /\ rest = [t \in Threads |-> <<>>]
    /\ asked = {}

Busy(t) == rest[t] # <<>>

\* The calls for which (the rest of) a program sends a request.
Asks(p) == {c \in CallLocks : \E i \in 1..Len(p) : Asking(p, i, c)}

\* The calls whose lock a program needs.
Uses(p) == {c \in CallLocks : \E i \in 1..Len(p) : c = p[i].lock \/ c \in p[i].held}

(***************************************************************************)
(* Each request has a call object of its own.  The cookie manager finds it *)
(* for a signal only after the list broker was asked.                      *)
(***************************************************************************)
Begin(t, p) ==
    /\ ~Busy(t)
    /\ Asks(p) \cap asked = {}
    /\ \A u \in Threads : Asks(p) \cap Asks(rest[u]) = {}
    /\ Uses(p) \ Asks(p) \subseteq asked
    /\ rest' = [rest EXCEPT ![t] = p]
    /\ UNCHANGED asked

Holds(t, l) == Busy(t) /\ l \in Head(rest[t]).held

\* Mutant: the locks of the player's data are not recursive.
WaitsForOneself(t, u) ==
    /\ Busy(t) /\ Head(rest[t]).op = "lock"
    /\ Holds(u, Head(rest[t]).lock)

\* Thread t has to wait for thread u, which is t itself if t locks a call twice.
WaitsFor(t, u) ==
    /\ Busy(t) /\ Head(rest[t]).op = "lock"
    /\ Holds(u, Head(rest[t]).lock)
    /\ t # u \/ Head(rest[t]).lock \in CallLocks

\* Mutant: the lock is tried only, and the outcome is ignored.
AcquireAnyway(t) ==
    /\ Busy(t) /\ Head(rest[t]).op = "lock"
    /\ rest' = [rest EXCEPT ![t] = Tail(@)]
    /\ UNCHANGED asked

Acquire(t) ==
    /\ Busy(t) /\ Head(rest[t]).op = "lock"
    /\ \A u \in Threads : ~WaitsFor(t, u)
    /\ rest' = [rest EXCEPT ![t] = Tail(@)]
    /\ UNCHANGED asked

Release(t) ==
    /\ Busy(t) /\ Head(rest[t]).op = "unlock"
    /\ rest' = [rest EXCEPT ![t] = Tail(@)]
    /\ UNCHANGED asked

AskBroker(t) ==
    /\ Busy(t) /\ Head(rest[t]).op = "ask"
    /\ asked' = asked \cup {Head(rest[t]).lock}
    /\ rest' = [rest EXCEPT ![t] = Tail(@)]

Next ==
    \E t \in Threads :
        \/ \E p \in Programs[t] : Begin(t, p)
        \/ Acquire(t)
        \/ Release(t)
        \/ AskBroker(t)

Spec == Init /\ [][Next]_vars

-----------------------------------------------------------------------------
(***************************************************************************)
(* The main loop and the threads of GStreamer never wait for each other in *)
(* a circle, although the player's data are locked in different orders,    *)
(* and no thread locks a call object it has locked already.                *)
(***************************************************************************)
NoCircularWait ==
    \A D \in SUBSET Threads : D # {} => \E t \in D : \A u \in D : ~WaitsFor(t, u)

(***************************************************************************)
(* The data each lock protects are in the hands of one thread at a time:   *)
(* the scopes of the guards in the lock programs are those of the code.    *)
(***************************************************************************)
Exclusive ==
    \A t, u \in Threads, l \in Locks : Holds(t, l) /\ Holds(u, l) => t = u
=============================================================================
