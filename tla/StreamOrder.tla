----------------------------- MODULE StreamOrder -----------------------------
(***************************************************************************)
(* What the player promises a client which pushes streams, in terms of the *)
(* signals and replies the client sees: streams are played first in, first *)
(* out, and the client hears about each of them.                           *)
(***************************************************************************)
EXTENDS Naturals, Sequences

CONSTANT Streams    \* stream IDs

VARIABLES
    waiting,    \* accepted streams to be played, in the order of acceptance
    leaving,    \* streams which will not be played, to be reported as dropped
    open,       \* accepted streams the client has not heard of again yet
    playing     \* stream announced most recently, 0 if playback has stopped

vars == <<waiting, leaving, open, playing>>

InSeq(s) == {s[n] : n \in 1..Len(s)}

Init ==
    /\ waiting = <<>> /\ leaving = {} /\ open = {} /\ playing = 0

(***************************************************************************)
(* A stream is accepted behind the first n streams, and the others will    *)
(* not be played.  The client is told so by the reply.                     *)
(***************************************************************************)
Accept(i, n) ==
    /\ i \notin open
    /\ waiting' = Append(SubSeq(waiting, 1, n), i)
    /\ leaving' = {}
    /\ open' = InSeq(waiting')
    /\ UNCHANGED playing

\* Only the streams from m to n are left to be played.
Withdraw(m, n) ==
    /\ waiting' = SubSeq(waiting, m, n)
    /\ leaving' = leaving \cup (InSeq(waiting) \ InSeq(waiting'))
    /\ UNCHANGED <<open, playing>>

\* The client is told about all streams which will not be played.
Report(m, n) ==
    /\ waiting' = SubSeq(waiting, m, n)
    /\ leaving' = {}
    /\ open' = InSeq(waiting')
    /\ playing' \in {playing, 0}

\* Stream n is playing; no stream accepted before is still to be played.
Announce(n) ==
    /\ playing' = waiting[n]
    /\ waiting' = SubSeq(waiting, n + 1, Len(waiting))
    /\ leaving' = {}
    /\ open' = InSeq(waiting')

Next ==
    \/ \E i \in Streams, n \in 0..Len(waiting) : Accept(i, n)
    \/ \E m \in 1..(Len(waiting) + 1), n \in 0..Len(waiting) : Withdraw(m, n) \/ Report(m, n)
    \/ \E n \in 1..Len(waiting) : Announce(n)

Spec == Init /\ [][Next]_vars
=============================================================================
