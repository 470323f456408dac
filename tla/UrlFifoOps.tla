----------------------------- MODULE UrlFifoOps -----------------------------
(***************************************************************************)
(* The operations of class PlayQueue::Queue (urlfifo.hh) as operators on   *)
(* the value of the queue object, a record with the three containers of    *)
(* the class:                                                              *)
(*                                                                         *)
(*   queue    what is going to be played next, head first;                 *)
(*   removed  items taken out of the queue without being played, waiting   *)
(*            for somebody to report them to the D-Bus client;             *)
(*   dropped  stream IDs to be reported along with the removed items.      *)
(*                                                                         *)
(* The elements are stream IDs; what an item consists of besides its ID is *)
(* none of the queue's business.  Every method of the class runs under the *)
(* lock of the queue, so that one operator is one indivisible step.        *)
(***************************************************************************)
EXTENDS Naturals, Sequences, FiniteSets

CONSTANT MaxItems   \* the constructor's max_number_of_items

ASSUME MaxItemsAssumption == MaxItems \in Nat \ {0}

(***************************************************************************)
(* SIZE_MAX as a number of items to keep.  It is only ever compared with   *)
(* the size of the queue, which never exceeds MaxItems.                    *)
(***************************************************************************)
KeepAll == MaxItems

\* The object right after construction.
EmptyFifo == [queue |-> <<>>, removed |-> <<>>, dropped |-> {}]

\* The set of elements of a deque.
Elems(s) == {s[i] : i \in 1..Len(s)}

Size(f) == Len(f.queue)

IsEmpty(f) == f.queue = <<>>

\* Mutant: off by one.
FullTooLate(f) == Size(f) > MaxItems

Full(f) == Size(f) >= MaxItems

\* peek(), for a queue which is not empty.
Peek(f) == f.queue[1]

-----------------------------------------------------------------------------

\* Number of items clear(keep) takes out.
ClearCount(f, keep) == IF keep < Size(f) THEN Size(f) - keep ELSE 0

\* Mutant: one item too many is handed on to removed_.
ClearOverlapping(f, keep) ==
    IF ClearCount(f, keep) = 0
    THEN f
    ELSE [f EXCEPT !.queue = SubSeq(f.queue, 1, keep),
                   !.removed = @ \o SubSeq(f.queue, IF keep = 0 THEN 1 ELSE keep, Size(f))]

\* Mutant: the cut off items are handed on in the order the loop finds them.
ClearBackwards(f, keep) ==
    LET n == ClearCount(f, keep)
    IN  IF n = 0
        THEN f
        ELSE [f EXCEPT !.queue = SubSeq(f.queue, 1, keep),
                       !.removed = @ \o [k \in 1..n |-> f.queue[Size(f) + 1 - k]]]

(***************************************************************************)
(* clear(): cut off everything behind the first keep items.  The loop      *)
(* takes from the back of the queue and fills the enlarged removed_ deque  *)
(* from its back, which keeps the cut off items in queue order.            *)
(***************************************************************************)
Clear(f, keep) ==
    IF ClearCount(f, keep) = 0
    THEN f
    ELSE [f EXCEPT !.queue = SubSeq(f.queue, 1, keep),
                   !.removed = @ \o SubSeq(f.queue, keep + 1, Size(f))]

\* The condition for push() to return 0 and to throw the new item away.
PushRejected(f, keep) == ClearCount(f, keep) = 0 /\ Full(f)

\* Mutant: the new item is put at the front.
PushFront(f, x, keep) ==
    IF PushRejected(f, keep)
    THEN f
    ELSE [Clear(f, keep) EXCEPT !.queue = <<x>> \o @]

Push(f, x, keep) ==
    IF PushRejected(f, keep)
    THEN f
    ELSE [Clear(f, keep) EXCEPT !.queue = Append(@, x)]

\* pop(): the caller becomes the owner of Peek(f).
Pop(f) == IF IsEmpty(f) THEN f ELSE [f EXCEPT !.queue = Tail(@)]

\* Mutant: the dropped item is not handed on to removed_.
PopDropSilently(f) == IF IsEmpty(f) THEN f ELSE [f EXCEPT !.queue = Tail(@)]

PopDrop(f) ==
    IF IsEmpty(f)
    THEN f
    ELSE [f EXCEPT !.queue = Tail(@), !.removed = Append(@, Peek(f))]

MarkAsDropped(f, x) == [f EXCEPT !.dropped = @ \cup {x}]

\* Number of items in front of the first one which fails the predicate (a set).
Leading(q, pred) == Cardinality({n \in 1..Len(q) : \A i \in 1..n : q[i] \in pred})

ClearWhile(f, pred) ==
    LET n == Leading(f.queue, pred)
    IN  [f EXCEPT !.queue = SubSeq(@, n + 1, Len(@)),
                  !.removed = @ \o SubSeq(f.queue, 1, n)]

(***************************************************************************)
(* mk_id_array_from_dropped_items() (streamer.cc): get_removed() and       *)
(* get_dropped() move the containers out and leave them empty; the IDs of  *)
(* the removed items come first, then the dropped IDs which are not among  *)
(* them.  Only the set of IDs is kept here.                                *)
(***************************************************************************)
DroppedIds(f) == Elems(f.removed) \cup f.dropped

TakeDropped(f) == [f EXCEPT !.removed = <<>>, !.dropped = {}]
=============================================================================
