------------------------------- MODULE UrlFifo -------------------------------
(***************************************************************************)
(* The URL FIFO on its own: any sequence of calls of its methods, with the *)
(* bookkeeping a D-Bus client does about the streams it has pushed.        *)
(*                                                                         *)
(* Stream IDs are handed out in ascending order, so that comparing two IDs *)
(* compares the times at which they were accepted.                         *)
(***************************************************************************)
EXTENDS UrlFifoOps

CONSTANT MaxPushes  \* bound on the number of accepted streams

ASSUME MaxPushesAssumption == MaxPushes \in Nat

VARIABLES
    fifo,       \* the object
    current,    \* the unique_ptr pop() moves the head into; 0 is nullptr
    played,     \* former values of current, overwritten by later calls of pop()
    reported,   \* IDs passed on to the client as removed or dropped
    lastId      \* ID of the stream accepted most recently

vars == <<fifo, current, played, reported, lastId>>

Ids == 1..lastId

Init ==
    /\ fifo = EmptyFifo
    /\ current = 0
    /\ played = {}
    /\ reported = {}
    /\ lastId = 0

-----------------------------------------------------------------------------
\* Mutant: a full queue is taken for a failure although clear() makes room.
PushItemMiscounted(keep) ==
    /\ lastId < MaxPushes
    /\ fifo' = Push(fifo, lastId + 1, keep)
    /\ lastId' = IF Full(fifo) THEN lastId ELSE lastId + 1
    /\ UNCHANGED <<current, played, reported>>

\* Streamer::push_item() calls push() with a fresh item.
PushItem(keep) ==
    /\ lastId < MaxPushes
    /\ fifo' = Push(fifo, lastId + 1, keep)
    /\ lastId' = IF PushRejected(fifo, keep) THEN lastId ELSE lastId + 1
    /\ UNCHANGED <<current, played, reported>>

\* pop() destroys the item the destination pointer had owned before.
PopItem ==
    /\ ~IsEmpty(fifo)
    /\ fifo' = Pop(fifo)
    /\ current' = Peek(fifo)
    /\ played' = played \cup ({current} \ {0})
    /\ UNCHANGED <<reported, lastId>>

DropHead ==
    /\ ~IsEmpty(fifo)
    /\ fifo' = PopDrop(fifo)
    /\ UNCHANGED <<current, played, reported, lastId>>

ClearItems(keep) ==
    /\ fifo' = Clear(fifo, keep)
    /\ UNCHANGED <<current, played, reported, lastId>>

ClearItemsWhile(pred) ==
    /\ fifo' = ClearWhile(fifo, pred)
    /\ UNCHANGED <<current, played, reported, lastId>>

\* Streamer::next() drops the current stream while it is being activated.
DropCurrent ==
    /\ current # 0
    /\ fifo' = MarkAsDropped(fifo, current)
    /\ UNCHANGED <<current, played, reported, lastId>>

\* Any reply or signal which carries the array of dropped IDs.
Report ==
    /\ reported' = reported \cup DroppedIds(fifo)
    /\ fifo' = TakeDropped(fifo)
    /\ UNCHANGED <<current, played, lastId>>

Next ==
    \/ \E keep \in 0..MaxItems : PushItem(keep)
    \/ PopItem
    \/ DropHead
    \/ \E keep \in 0..MaxItems : ClearItems(keep)
    \/ \E pred \in SUBSET Elems(fifo.queue) : ClearItemsWhile(pred)
    \/ DropCurrent
    \/ Report

Spec == Init /\ [][Next]_vars

-----------------------------------------------------------------------------
Popped == played \cup ({current} \ {0})

(***************************************************************************)
(* All containers hold streams which have been accepted.                   *)
(***************************************************************************)
TypeOK ==
    /\ fifo \in [queue : Seq(Ids), removed : Seq(Ids), dropped : SUBSET Ids]
    /\ current \in 0..lastId
    /\ played \in SUBSET Ids
    /\ reported \in SUBSET Ids
    /\ lastId \in 0..MaxPushes

(***************************************************************************)
(* However push() is combined with the number of items to keep, the queue  *)
(* never holds more than max_number_of_items_ items: push() skips its test *)
(* for a full queue only if clear() has made room for the new item.        *)
(***************************************************************************)
Bounded == Size(fifo) <= MaxItems

(***************************************************************************)
(* No accepted stream is ever lost: it is in the queue, was handed over to *)
(* the player by pop(), waits in removed_ to be reported, or has been      *)
(* reported.                                                               *)
(***************************************************************************)
NoStreamLost ==
    Ids \subseteq Elems(fifo.queue) \cup Elems(fifo.removed) \cup Popped \cup reported

(***************************************************************************)
(* A stream which still is going to be played has neither been handed over *)
(* nor been put aside nor been reported as removed to the client.          *)
(***************************************************************************)
QueuedIsNowhereElse ==
    Elems(fifo.queue) \cap (Elems(fifo.removed) \cup fifo.dropped \cup Popped \cup reported) = {}

(***************************************************************************)
(* First in, first out: the streams are queued in the order of their       *)
(* acceptance, and the player never has got hold of a stream accepted      *)
(* later than one that is still queued.                                    *)
(***************************************************************************)
InOrder ==
    /\ \A i, j \in 1..Size(fifo) : i < j => fifo.queue[i] < fifo.queue[j]
    /\ \A p \in Popped : \A i \in 1..Size(fifo) : p < fifo.queue[i]

CutAtBack(n) ==
    /\ Len(fifo'.queue) >= n
    /\ SubSeq(fifo'.queue, 1, n) = SubSeq(fifo.queue, 1, n)
    /\ n < Size(fifo) =>
         fifo'.removed = fifo.removed \o SubSeq(fifo.queue, n + 1, Size(fifo))

AcceptedBehind(n) ==
    /\ Len(fifo'.queue) = n + 1
    /\ fifo'.queue[n + 1] = lastId'
    /\ lastId' = lastId + 1

CutAtFront(n) == fifo'.queue = SubSeq(fifo.queue, n + 1, Size(fifo))

(***************************************************************************)
(* urlfifo.hh, push() and clear(): the items which are to be kept stay     *)
(* untouched, and a push which fails leaves the whole object untouched.    *)
(* Stated for every step: the queue shrinks from one end only, what it     *)
(* loses at the back is handed on to removed_ in queue order, and a stream *)
(* is appended only by an accepted push.                                   *)
(***************************************************************************)
StepKeepsOrder ==
    [][\E n \in 0..Size(fifo) :
         \/ CutAtBack(n) /\ (Len(fifo'.queue) = n \/ AcceptedBehind(n))
         \/ CutAtFront(n) /\ lastId' = lastId]_vars
=============================================================================
