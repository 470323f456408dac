---------------------------- MODULE UrlFifoProofs ----------------------------
(***************************************************************************)
(* Proofs about the URL FIFO, for every size of the queue and any number   *)
(* of pushed streams.                                                      *)
(***************************************************************************)
EXTENDS UrlFifo, UrlFifoOpsProofs

-----------------------------------------------------------------------------
(* Ascending sequences *)

Ascending(s) == \A i, j \in 1..Len(s) : i < j => s[i] < s[j]

(***************************************************************************)
(* Both parts of an ascending queue are ascending and have no stream in    *)
(* common.                                                                 *)
(***************************************************************************)
LEMMA AscendingCut ==
    ASSUME NEW s \in Seq(Nat), Ascending(s), NEW n \in 0..Len(s)
    PROVE  /\ Ascending(SubSeq(s, 1, n))
           /\ Ascending(SubSeq(s, n + 1, Len(s)))
           /\ \A x \in Elems(SubSeq(s, 1, n)) : \A y \in Elems(SubSeq(s, n + 1, Len(s))) : x < y
<1> DEFINE a == SubSeq(s, 1, n)
           b == SubSeq(s, n + 1, Len(s))
<1>1. Len(a) = n /\ \A i \in 1..n : a[i] = s[i]
  BY ElemsCut
<1>2. Len(b) = Len(s) - n /\ \A i \in 1..(Len(s) - n) : b[i] = s[n + i]
  BY ElemsCut
<1> HIDE DEF a, b
<1>3. Ascending(a)
  BY <1>1 DEF Ascending
<1>4. Ascending(b)
  <2>1. SUFFICES ASSUME NEW i \in 1..Len(b), NEW j \in 1..Len(b), i < j
                 PROVE  b[i] < b[j]
    BY DEF Ascending
  <2>2. n + i \in 1..Len(s) /\ n + j \in 1..Len(s) /\ n + i < n + j
    BY <1>2, <2>1
  <2>3. s[n + i] < s[n + j]
    BY <2>2 DEF Ascending
  <2>4. QED
    BY <1>2, <2>3
<1>5. ASSUME NEW i \in 1..Len(a), NEW j \in 1..Len(b)
      PROVE  a[i] < b[j]
  <2>1. i \in 1..Len(s) /\ n + j \in 1..Len(s) /\ i < n + j
    BY <1>1, <1>2
  <2>2. s[i] < s[n + j]
    BY <2>1 DEF Ascending
  <2>3. QED
    BY <1>1, <1>2, <2>2
<1>6. QED
  BY <1>3, <1>4, <1>5 DEF Elems, a, b

(***************************************************************************)
(* A stream with a higher ID than all others may be appended.              *)
(***************************************************************************)
LEMMA AscendingAppend ==
    ASSUME NEW s \in Seq(Nat), Ascending(s), NEW x \in Nat, \A y \in Elems(s) : y < x
    PROVE  Ascending(Append(s, x))
<1> DEFINE a == Append(s, x)
<1>1. Len(a) = Len(s) + 1 /\ Len(s) \in Nat
  OBVIOUS
<1>2. \A i \in 1..Len(s) : a[i] = s[i] /\ s[i] \in Elems(s)
  BY DEF Elems
<1>3. a[Len(s) + 1] = x
  OBVIOUS
<1> HIDE DEF a
<1>4. SUFFICES ASSUME NEW i \in 1..Len(a), NEW j \in 1..Len(a), i < j
               PROVE  a[i] < a[j]
  BY DEF Ascending, a
<1>5. i \in 1..Len(s)
  BY <1>1, <1>4
<1>6. CASE j \in 1..Len(s)
  BY <1>2, <1>4, <1>5, <1>6 DEF Ascending
<1>7. CASE j = Len(s) + 1
  BY <1>2, <1>3, <1>5, <1>7
<1>8. QED
  BY <1>1, <1>6, <1>7

-----------------------------------------------------------------------------
(* The invariant in terms of sets of streams *)

Queued  == Elems(fifo.queue)
Removed == Elems(fifo.removed)

(***************************************************************************)
(* The strengthened invariant: the queue is ascending and holds streams    *)
(* which are nowhere else and younger than anything handed over before.    *)
(* That a popped stream is gone for good (QueuedIsNowhereElse) needs that  *)
(* no stream is queued twice, hence the order; and that a new stream is    *)
(* younger than all others needs the types.                                *)
(***************************************************************************)
Inv ==
    /\ TypeOK
    /\ Size(fifo) <= MaxItems
    /\ Ascending(fifo.queue)
    /\ \A p \in Popped : \A x \in Queued : p < x
    /\ Queued \cap (Removed \cup fifo.dropped \cup Popped \cup reported) = {}
    /\ Ids \subseteq Queued \cup Removed \cup Popped \cup reported

(***************************************************************************)
(* InOrder speaks of positions, Inv of streams.                            *)
(***************************************************************************)
LEMMA InvImplies ==
    Inv => TypeOK /\ Bounded /\ NoStreamLost /\ QueuedIsNowhereElse /\ InOrder
<1>1. SUFFICES ASSUME Inv
               PROVE  Bounded /\ NoStreamLost /\ QueuedIsNowhereElse /\ InOrder
  BY DEF Inv
<1>2. Bounded /\ NoStreamLost /\ QueuedIsNowhereElse
  BY <1>1 DEF Inv, Bounded, NoStreamLost, QueuedIsNowhereElse, Queued, Removed
<1>3. \A i \in 1..Size(fifo) : fifo.queue[i] \in Queued
  BY DEF Queued, Elems, Size
<1>4. InOrder
  BY <1>1, <1>3 DEF Inv, InOrder, Ascending, Size
<1>5. QED
  BY <1>2, <1>4

(***************************************************************************)
(* The types of the containers of PlayQueue::Queue, from the invariant.    *)
(***************************************************************************)
LEMMA InvTypes ==
    ASSUME Inv
    PROVE  /\ lastId \in Nat /\ MaxItems \in Nat /\ Ids \subseteq Nat
           /\ fifo \in FifoType(Ids)
           /\ fifo.queue \in Seq(Ids) /\ fifo.queue \in Seq(Nat) /\ fifo.removed \in Seq(Ids)
           /\ Len(fifo.queue) \in Nat
           /\ Queued \subseteq Ids /\ Removed \subseteq Ids /\ Popped \subseteq Ids
<1>1. lastId \in Nat /\ MaxItems \in Nat
  BY MaxPushesAssumption, MaxItemsAssumption DEF Inv, TypeOK
<1>2. Ids \subseteq Nat
  BY <1>1 DEF Ids
<1>3. fifo \in FifoType(Ids) /\ fifo.queue \in Seq(Ids) /\ fifo.removed \in Seq(Ids)
  BY DEF Inv, TypeOK, FifoType
<1>4. Len(fifo.queue) \in Nat /\ Len(fifo.removed) \in Nat
  BY <1>3
<1>5. fifo.queue \in Seq(Nat)
  BY <1>2, <1>3, SeqMonotonic
<1>6. Queued \subseteq Ids /\ Removed \subseteq Ids
  <2>1. \A i \in 1..Len(fifo.queue) : fifo.queue[i] \in Ids
    BY <1>3
  <2>2. \A i \in 1..Len(fifo.removed) : fifo.removed[i] \in Ids
    BY <1>3
  <2>3. QED
    BY <2>1, <2>2 DEF Queued, Removed, Elems
<1>7. Popped \subseteq Ids
  <2>1. current # 0 => current \in Ids
    BY <1>1 DEF Inv, TypeOK, Ids
  <2>2. QED
    BY <2>1 DEF Inv, TypeOK, Popped
<1>8. QED
  BY <1>1, <1>2, <1>3, <1>4, <1>5, <1>6, <1>7

(***************************************************************************)
(* Cutting the queue at its back: what is taken out goes to removed_.      *)
(***************************************************************************)
LEMMA BackCutFacts ==
    ASSUME Inv, NEW g \in FifoType(Ids), NEW n \in 0..Len(fifo.queue), CutBehind(fifo, g, n)
    PROVE  /\ Len(g.queue) = n
           /\ Ascending(g.queue)
           /\ Elems(g.queue) \cup Elems(g.removed) = Queued \cup Removed
           /\ Elems(g.queue) \subseteq Queued
           /\ Elems(g.queue) \cap Elems(g.removed) = {}
           /\ g.dropped = fifo.dropped
<1> DEFINE a == SubSeq(fifo.queue, 1, n)
           b == SubSeq(fifo.queue, n + 1, Len(fifo.queue))
<1>1. g.queue = a /\ g.removed = fifo.removed \o b /\ g.dropped = fifo.dropped
  BY DEF CutBehind
<1>2. Len(a) = n /\ b \in Seq(Ids) /\ Queued = Elems(a) \cup Elems(b)
  BY InvTypes, ElemsCut DEF Queued
<1>3. Ascending(a) /\ \A x \in Elems(a) : \A y \in Elems(b) : x < y
  BY InvTypes, AscendingCut DEF Inv
<1>4. Elems(fifo.removed \o b) = Removed \cup Elems(b)
  <2>1. fifo.removed \in Seq(Ids)
    BY InvTypes
  <2> HIDE DEF b
  <2>2. QED
    BY <1>2, <2>1, ElemsConcat DEF Removed
<1>5. Elems(a) \cap Elems(b) = {}
  <2>1. Elems(a) \subseteq Nat
    BY <1>2, InvTypes
  <2>2. QED
    BY <1>3, <2>1
<1>6. Elems(a) \cap Removed = {}
  BY <1>2 DEF Inv
<1> HIDE DEF a, b
<1>7. QED
  BY <1>1, <1>2, <1>3, <1>4, <1>5, <1>6

(***************************************************************************)
(* Cutting it at the front.                                                *)
(***************************************************************************)
LEMMA FrontCutFacts ==
    ASSUME Inv, NEW n \in 0..Len(fifo.queue)
    PROVE  LET a == SubSeq(fifo.queue, 1, n)
               b == SubSeq(fifo.queue, n + 1, Len(fifo.queue))
           IN  /\ a \in Seq(Ids) /\ b \in Seq(Ids)
               /\ Len(b) <= Len(fifo.queue)
               /\ Ascending(b)
               /\ Queued = Elems(a) \cup Elems(b)
               /\ Elems(a) \cap Elems(b) = {}
               /\ \A x \in Elems(a) : \A y \in Elems(b) : x < y
<1> DEFINE a == SubSeq(fifo.queue, 1, n)
           b == SubSeq(fifo.queue, n + 1, Len(fifo.queue))
<1>1. a \in Seq(Ids) /\ b \in Seq(Ids) /\ Len(b) = Len(fifo.queue) - n
  BY InvTypes, ElemsCut
<1>2. Queued = Elems(a) \cup Elems(b)
  BY InvTypes, ElemsCut DEF Queued
<1>3. Ascending(b) /\ \A x \in Elems(a) : \A y \in Elems(b) : x < y
  BY InvTypes, AscendingCut DEF Inv
<1>4. Len(b) <= Len(fifo.queue)
  BY <1>1, InvTypes
<1>5. Elems(a) \cap Elems(b) = {}
  <2>1. Elems(a) \subseteq Nat
    BY <1>2, InvTypes
  <2>2. QED
    BY <1>3, <2>1
<1>6. QED
  BY <1>1, <1>2, <1>3, <1>4, <1>5

-----------------------------------------------------------------------------
(* Every step keeps the invariant *)

(***************************************************************************)
(* The constructor.                                                        *)
(***************************************************************************)
LEMMA InitInv == Init => Inv
<1>1. SUFFICES ASSUME Init PROVE Inv
  OBVIOUS
<1>2. fifo.queue = <<>> /\ fifo.removed = <<>> /\ fifo.dropped = {} /\ lastId = 0
  BY <1>1 DEF Init, EmptyFifo
<1>3. Ids = {} /\ Queued = {} /\ Removed = {}
  BY <1>2 DEF Ids, Queued, Removed, Elems
<1>4. TypeOK
  BY <1>1, MaxPushesAssumption DEF Init, EmptyFifo, TypeOK
<1>5. Size(fifo) <= MaxItems /\ Ascending(fifo.queue)
  BY <1>2, MaxItemsAssumption DEF Size, Ascending
<1>6. QED
  BY <1>3, <1>4, <1>5 DEF Inv

(***************************************************************************)
(* clear() as called by clear_queue() and do_stop().                       *)
(***************************************************************************)
LEMMA ClearItemsInv ==
    ASSUME Inv, NEW keep \in 0..MaxItems, ClearItems(keep)
    PROVE  Inv'
<1>1. keep \in Nat /\ fifo' = Clear(fifo, keep)
  BY MaxItemsAssumption DEF ClearItems
<1>2. UNCHANGED <<current, played, reported, lastId>>
  BY DEF ClearItems
<1>3. fifo' \in FifoType(Ids)
  BY <1>1, InvTypes, ClearCuts
<1>4. PICK n \in 0..Len(fifo.queue) : CutBehind(fifo, fifo', n)
  BY <1>1, InvTypes, ClearCuts
<1>5. /\ Len(fifo'.queue) = n
      /\ Ascending(fifo'.queue)
      /\ Queued' \cup Removed' = Queued \cup Removed
      /\ Queued' \subseteq Queued
      /\ Queued' \cap Removed' = {}
      /\ fifo'.dropped = fifo.dropped
  BY <1>3, <1>4, BackCutFacts DEF Queued, Removed
<1>6. TypeOK'
  BY <1>2, <1>3 DEF Inv, TypeOK, FifoType, Ids
<1>7. Size(fifo)' <= MaxItems
  BY <1>5, InvTypes DEF Inv, Size
<1>8. Popped' = Popped /\ Ids' = Ids /\ reported' = reported
  BY <1>2 DEF Popped, Ids
<1>9. (\A p \in Popped : \A x \in Queued : p < x)'
  BY <1>5, <1>8 DEF Inv
<1>10. (Queued \cap (Removed \cup fifo.dropped \cup Popped \cup reported) = {})'
  BY <1>5, <1>8 DEF Inv
<1>11. (Ids \subseteq Queued \cup Removed \cup Popped \cup reported)'
  BY <1>5, <1>8 DEF Inv
<1>12. QED
  BY <1>5, <1>6, <1>7, <1>9, <1>10, <1>11 DEF Inv

(***************************************************************************)
(* push() either leaves the object alone, or clears and appends.           *)
(***************************************************************************)
LEMMA PushItemInv ==
    ASSUME Inv, NEW keep \in 0..MaxItems, PushItem(keep)
    PROVE  Inv'
<1>1. CASE PushRejected(fifo, keep)
  <2>1. UNCHANGED vars
    BY <1>1 DEF PushItem, Push, vars
  <2>2. QED
    BY <2>1 DEF vars, Inv, TypeOK, Size, Ids, Popped, Queued, Removed
<1>2. CASE ~PushRejected(fifo, keep)
  <2> DEFINE g == Clear(fifo, keep)
             x == lastId + 1
  <2>1. keep \in Nat /\ x \in Nat /\ lastId' = x /\ lastId \in Nat /\ lastId < MaxPushes
    BY <1>2, MaxItemsAssumption, InvTypes DEF PushItem
  <2>2. fifo' = [g EXCEPT !.queue = Append(@, x)]
    BY <1>2 DEF PushItem, Push
  <2>3. UNCHANGED <<current, played, reported>>
    BY DEF PushItem
  <2>4. g \in FifoType(Ids)
    BY <2>1, InvTypes, ClearCuts
  <2>5. PICK n \in 0..Len(fifo.queue) :
           /\ n <= keep
           /\ n = Len(fifo.queue) <=> ClearCount(fifo, keep) = 0
           /\ CutBehind(fifo, g, n)
    BY <2>1, InvTypes, ClearCuts
  <2> HIDE DEF g
  <2>6. /\ Len(g.queue) = n
        /\ Ascending(g.queue)
        /\ Elems(g.queue) \cup Elems(g.removed) = Queued \cup Removed
        /\ Elems(g.queue) \subseteq Queued
        /\ Elems(g.queue) \cap Elems(g.removed) = {}
        /\ g.dropped = fifo.dropped
    BY <2>4, <2>5, BackCutFacts
  <2>7. /\ g.queue \in Seq(Ids) /\ g.removed \in Seq(Ids) /\ g.dropped \subseteq Ids
        /\ fifo'.queue = Append(g.queue, x)
        /\ fifo'.removed = g.removed /\ fifo'.dropped = g.dropped
    BY <2>2, <2>4 DEF FifoType
  <2>8. Ids \subseteq Ids' /\ Ids' = Ids \cup {x} /\ x \notin Ids /\ x \in Ids'
    BY <2>1 DEF Ids
  <2>9. g.queue \in Seq(Ids') /\ g.removed \in Seq(Ids') /\ g.queue \in Seq(Nat)
    BY <2>7, <2>8, InvTypes, SeqMonotonic
  <2>10. Append(g.queue, x) \in Seq(Ids')
    BY <2>8, <2>9
  <2>11. TypeOK'
    <3>1. fifo' \in FifoType(Ids')
      BY <2>2, <2>4, <2>7, <2>8, <2>9, <2>10 DEF FifoType
    <3>2. current' \in 0..lastId' /\ lastId' \in 0..MaxPushes
      BY <2>1, <2>3, MaxPushesAssumption DEF Inv, TypeOK
    <3>3. played' \subseteq Ids' /\ reported' \subseteq Ids'
      BY <2>3, <2>8 DEF Inv, TypeOK
    <3>4. QED
      BY <3>1, <3>2, <3>3 DEF TypeOK, FifoType
  <2>12. Size(fifo)' <= MaxItems
    <3>1. Len(fifo'.queue) = n + 1
      BY <2>6, <2>7
    <3>2. n < MaxItems
      BY <1>2, <2>1, <2>5, InvTypes DEF PushRejected, Full, Size, Inv
    <3>3. QED
      BY <3>1, <3>2, InvTypes DEF Size
  <2>13. Queued' = Elems(g.queue) \cup {x}
    <3>1. Elems(Append(g.queue, x)) = Elems(g.queue) \cup {x}
      BY <2>1, <2>9, ElemsAppend
    <3>2. QED
      BY <2>7, <3>1 DEF Queued
  <2>14. Removed' = Elems(g.removed)
    BY <2>7 DEF Removed
  <2>15. Popped' = Popped /\ reported' = reported
    BY <2>3 DEF Popped
  <2>16. \A y \in Ids : y < x
    BY <2>1 DEF Ids
  <2>17. Ascending(fifo'.queue)
    <3>1. \A y \in Elems(g.queue) : y < x
      BY <2>6, <2>16, InvTypes
    <3>2. QED
      BY <3>1, <2>1, <2>6, <2>7, <2>9, AscendingAppend
  <2>18. (\A p \in Popped : \A y \in Queued : p < y)'
    BY <2>6, <2>13, <2>15, <2>16, InvTypes DEF Inv
  <2>19. (Queued \cap (Removed \cup fifo.dropped \cup Popped \cup reported) = {})'
    <3>1. Elems(g.removed) \subseteq Ids
      BY <2>6, InvTypes
    <3>2. x \notin Elems(g.removed) \cup fifo.dropped \cup Popped \cup reported
      BY <2>8, <3>1, InvTypes DEF Inv, TypeOK
    <3>3. Elems(g.queue) \cap (Elems(g.removed) \cup fifo.dropped \cup Popped \cup reported) = {}
      BY <2>6 DEF Inv
    <3>4. QED
      BY <2>6, <2>7, <2>13, <2>14, <2>15, <3>2, <3>3
  <2>20. (Ids \subseteq Queued \cup Removed \cup Popped \cup reported)'
    BY <2>6, <2>8, <2>13, <2>14, <2>15 DEF Inv
  <2>21. QED
    BY <2>11, <2>12, <2>17, <2>18, <2>19, <2>20 DEF Inv
<1>3. QED
  BY <1>1, <1>2

(***************************************************************************)
(* pop() hands over the oldest stream of the queue.                        *)
(***************************************************************************)
LEMMA PopItemInv ==
    ASSUME Inv, PopItem
    PROVE  Inv'
<1> DEFINE h == fifo.queue[1]
           b == SubSeq(fifo.queue, 2, Len(fifo.queue))
<1>1. /\ fifo' = [fifo EXCEPT !.queue = Tail(@)]
      /\ current' = h
      /\ played' = played \cup ({current} \ {0})
      /\ UNCHANGED <<reported, lastId>>
      /\ fifo.queue # <<>>
  BY DEF PopItem, Pop, Peek, IsEmpty
<1>2. /\ 1 \in 0..Len(fifo.queue)
      /\ Tail(fifo.queue) = b
      /\ Elems(SubSeq(fifo.queue, 1, 1)) = {h}
      /\ h \in Ids
  BY <1>1, InvTypes, HeadCut
<1>3. /\ fifo'.queue = b /\ fifo'.removed = fifo.removed /\ fifo'.dropped = fifo.dropped
  BY <1>1, <1>2, InvTypes DEF FifoType
<1>4. /\ b \in Seq(Ids)
      /\ Len(b) <= Len(fifo.queue)
      /\ Ascending(b)
      /\ Queued = {h} \cup Elems(b)
      /\ h \notin Elems(b)
      /\ \A y \in Elems(b) : h < y
  <2> DEFINE a == SubSeq(fifo.queue, 1, 1)
             c == SubSeq(fifo.queue, 1 + 1, Len(fifo.queue))
  <2>1. /\ c \in Seq(Ids)
        /\ Len(c) <= Len(fifo.queue)
        /\ Ascending(c)
        /\ Queued = Elems(a) \cup Elems(c)
        /\ Elems(a) \cap Elems(c) = {}
        /\ \A x \in Elems(a) : \A y \in Elems(c) : x < y
    BY <1>2, FrontCutFacts
  <2>2. Elems(a) = {h} /\ c = b
    BY <1>2
  <2> HIDE DEF a, b, c, h
  <2>3. QED
    BY <2>1, <2>2
<1> HIDE DEF h, b
<1>5. Queued' = Elems(b) /\ Removed' = Removed /\ Ids' = Ids
  BY <1>1, <1>3 DEF Queued, Removed, Ids
<1>6. Popped' = Popped \cup {h}
  <2>1. h # 0
    BY <1>2, InvTypes DEF Ids
  <2>2. QED
    BY <1>1, <2>1 DEF Popped
<1>7. TypeOK'
  <2>1. fifo' \in FifoType(Ids)
    BY <1>1, <1>2, <1>4, InvTypes DEF FifoType
  <2>2. current' \in 0..lastId'
    BY <1>1, <1>2, InvTypes DEF Ids
  <2>3. played' \subseteq Ids
    BY <1>1, InvTypes DEF Popped
  <2>4. QED
    BY <1>1, <1>5, <2>1, <2>2, <2>3 DEF Inv, TypeOK, FifoType
<1>8. Size(fifo)' <= MaxItems
  <2>1. Len(b) \in Nat
    BY <1>4
  <2>2. QED
    BY <1>3, <1>4, <2>1, InvTypes DEF Inv, Size
<1>9. (\A p \in Popped : \A x \in Queued : p < x)'
  BY <1>4, <1>5, <1>6 DEF Inv
<1>10. (Queued \cap (Removed \cup fifo.dropped \cup Popped \cup reported) = {})'
  BY <1>1, <1>3, <1>4, <1>5, <1>6 DEF Inv
<1>11. (Ids \subseteq Queued \cup Removed \cup Popped \cup reported)'
  BY <1>1, <1>4, <1>5, <1>6 DEF Inv
<1>12. QED
  BY <1>3, <1>4, <1>7, <1>8, <1>9, <1>10, <1>11 DEF Inv

(***************************************************************************)
(* Taking any number of items out at the front and adding them to removed_ *)
(* keeps the invariant.                                                    *)
(***************************************************************************)
LEMMA FrontRemovalInv ==
    ASSUME Inv, NEW n \in 0..Len(fifo.queue),
           UNCHANGED <<current, played, reported, lastId>>,
           fifo' \in FifoType(Ids),
           fifo'.queue = SubSeq(fifo.queue, n + 1, Len(fifo.queue)),
           Elems(fifo'.removed) = Removed \cup Elems(SubSeq(fifo.queue, 1, n)),
           fifo'.dropped = fifo.dropped
    PROVE  Inv'
<1> DEFINE a == SubSeq(fifo.queue, 1, n)
           b == SubSeq(fifo.queue, n + 1, Len(fifo.queue))
<1>1. /\ b \in Seq(Ids)
      /\ Len(b) <= Len(fifo.queue)
      /\ Ascending(b)
      /\ Queued = Elems(a) \cup Elems(b)
      /\ Elems(a) \cap Elems(b) = {}
  BY FrontCutFacts
<1>2. fifo'.queue = b /\ Queued' = Elems(b) /\ Removed' = Removed \cup Elems(a)
  BY DEF Queued, Removed
<1> HIDE DEF a, b
<1>3. Popped' = Popped /\ Ids' = Ids /\ reported' = reported
  BY DEF Popped, Ids
<1>4. TypeOK'
  BY <1>3 DEF Inv, TypeOK, FifoType
<1>5. Size(fifo)' <= MaxItems
  <2>1. Len(b) \in Nat
    BY <1>1
  <2>2. QED
    BY <1>1, <1>2, <2>1, InvTypes DEF Inv, Size
<1>6. (\A p \in Popped : \A x \in Queued : p < x)'
  BY <1>1, <1>2, <1>3 DEF Inv
<1>7. (Queued \cap (Removed \cup fifo.dropped \cup Popped \cup reported) = {})'
  BY <1>1, <1>2, <1>3 DEF Inv
<1>8. (Ids \subseteq Queued \cup Removed \cup Popped \cup reported)'
  BY <1>1, <1>2, <1>3 DEF Inv
<1>9. QED
  BY <1>1, <1>2, <1>4, <1>5, <1>6, <1>7, <1>8 DEF Inv

(***************************************************************************)
(* pop_drop().                                                             *)
(***************************************************************************)
LEMMA DropHeadInv ==
    ASSUME Inv, DropHead
    PROVE  Inv'
<1> DEFINE h == fifo.queue[1]
           b == SubSeq(fifo.queue, 2, Len(fifo.queue))
<1>1. /\ fifo' = [fifo EXCEPT !.queue = Tail(@), !.removed = Append(@, h)]
      /\ UNCHANGED <<current, played, reported, lastId>>
      /\ fifo.queue # <<>>
  BY DEF DropHead, PopDrop, Peek, IsEmpty
<1>2. /\ 1 \in 0..Len(fifo.queue)
      /\ Tail(fifo.queue) = b
      /\ Elems(SubSeq(fifo.queue, 1, 1)) = {h}
      /\ h \in Ids
  BY <1>1, InvTypes, HeadCut
<1>3. b \in Seq(Ids)
  BY <1>2, FrontCutFacts
<1>4. Elems(Append(fifo.removed, h)) = Removed \cup {h} /\ Append(fifo.removed, h) \in Seq(Ids)
  BY <1>2, InvTypes, ElemsAppend DEF Removed
<1>5. /\ fifo'.queue = b
      /\ fifo'.removed = Append(fifo.removed, h)
      /\ fifo'.dropped = fifo.dropped
      /\ fifo' \in FifoType(Ids)
  BY <1>1, <1>2, <1>3, <1>4, InvTypes DEF FifoType
<1>6. /\ fifo'.queue = SubSeq(fifo.queue, 1 + 1, Len(fifo.queue))
      /\ Elems(fifo'.removed) = Removed \cup Elems(SubSeq(fifo.queue, 1, 1))
  BY <1>2, <1>4, <1>5
<1> HIDE DEF b, h
<1>7. QED
  BY <1>1, <1>2, <1>5, <1>6, FrontRemovalInv

(***************************************************************************)
(* clear_while().                                                          *)
(***************************************************************************)
LEMMA ClearItemsWhileInv ==
    ASSUME Inv, NEW pred, ClearItemsWhile(pred)
    PROVE  Inv'
<1> DEFINE n == Leading(fifo.queue, pred)
           a == SubSeq(fifo.queue, 1, n)
           b == SubSeq(fifo.queue, n + 1, Len(fifo.queue))
<1>1. n \in 0..Len(fifo.queue)
  BY InvTypes, LeadingInRange
<1>2. fifo' = [fifo EXCEPT !.queue = b, !.removed = @ \o a]
  BY DEF ClearItemsWhile, ClearWhile
<1>3. UNCHANGED <<current, played, reported, lastId>>
  BY DEF ClearItemsWhile
<1> HIDE DEF n
<1>4. a \in Seq(Ids) /\ b \in Seq(Ids)
  BY <1>1, FrontCutFacts
<1> HIDE DEF a, b
<1>5. Elems(fifo.removed \o a) = Removed \cup Elems(a) /\ fifo.removed \o a \in Seq(Ids)
  BY <1>4, InvTypes, ElemsConcat DEF Removed
<1>6. /\ fifo'.queue = b
      /\ fifo'.removed = fifo.removed \o a
      /\ fifo'.dropped = fifo.dropped
      /\ fifo' \in FifoType(Ids)
  BY <1>2, <1>4, <1>5, InvTypes DEF FifoType
<1>7. QED
  BY <1>1, <1>3, <1>5, <1>6, FrontRemovalInv DEF a, b

(***************************************************************************)
(* mark_as_dropped() of the current stream.                                *)
(***************************************************************************)
LEMMA DropCurrentInv ==
    ASSUME Inv, DropCurrent
    PROVE  Inv'
<1>1. /\ fifo' = [fifo EXCEPT !.dropped = @ \cup {current}]
      /\ UNCHANGED <<current, played, reported, lastId>>
      /\ current # 0
  BY DEF DropCurrent, MarkAsDropped
<1>2. /\ fifo'.queue = fifo.queue /\ fifo'.removed = fifo.removed
      /\ fifo'.dropped = fifo.dropped \cup {current}
  BY <1>1, InvTypes DEF FifoType
<1>3. current \in Popped
  BY <1>1 DEF Popped
<1>4. /\ Queued' = Queued /\ Removed' = Removed /\ Popped' = Popped /\ Ids' = Ids
      /\ reported' = reported
  BY <1>1, <1>2 DEF Queued, Removed, Popped, Ids
<1>5. TypeOK'
  <2>1. fifo' \in FifoType(Ids)
    BY <1>1, <1>3, InvTypes DEF FifoType
  <2>2. QED
    BY <1>1, <1>4, <2>1 DEF Inv, TypeOK, FifoType
<1>6. Size(fifo)' <= MaxItems /\ Ascending(fifo'.queue)
  BY <1>2 DEF Inv, Size
<1>7. (Queued \cap (Removed \cup fifo.dropped \cup Popped \cup reported) = {})'
  BY <1>2, <1>3, <1>4 DEF Inv
<1>8. QED
  BY <1>4, <1>5, <1>6, <1>7 DEF Inv

(***************************************************************************)
(* get_removed() and get_dropped() on behalf of a reply or a signal.       *)
(***************************************************************************)
LEMMA ReportInv ==
    ASSUME Inv, Report
    PROVE  Inv'
<1>1. /\ fifo' = [fifo EXCEPT !.removed = <<>>, !.dropped = {}]
      /\ UNCHANGED <<current, played, lastId>>
      /\ reported' = reported \cup Removed \cup fifo.dropped
  BY DEF Report, TakeDropped, DroppedIds, Removed
<1>2. fifo'.queue = fifo.queue /\ fifo'.removed = <<>> /\ fifo'.dropped = {}
  BY <1>1, InvTypes DEF FifoType
<1>3. /\ Queued' = Queued /\ Removed' = {} /\ Popped' = Popped /\ Ids' = Ids
  BY <1>1, <1>2 DEF Queued, Removed, Elems, Popped, Ids
<1>4. TypeOK'
  <2>1. fifo' \in FifoType(Ids)
    <3>1. <<>> \in Seq(Ids)
      OBVIOUS
    <3>2. {} \in SUBSET Ids
      OBVIOUS
    <3>3. QED
      BY <1>1, <3>1, <3>2, InvTypes DEF FifoType
  <2>2. reported' \subseteq Ids
    BY <1>1, InvTypes DEF Inv, TypeOK
  <2>3. QED
    BY <1>1, <1>3, <2>1, <2>2 DEF Inv, TypeOK, FifoType
<1>5. Size(fifo)' <= MaxItems /\ Ascending(fifo'.queue)
  BY <1>2 DEF Inv, Size
<1>6. (Queued \cap (Removed \cup fifo.dropped \cup Popped \cup reported) = {})'
  BY <1>1, <1>2, <1>3 DEF Inv
<1>7. (Ids \subseteq Queued \cup Removed \cup Popped \cup reported)'
  BY <1>1, <1>3 DEF Inv
<1>8. QED
  BY <1>3, <1>4, <1>5, <1>6, <1>7 DEF Inv

(***************************************************************************)
(* Every method of PlayQueue::Queue keeps the invariant.                   *)
(***************************************************************************)
LEMMA NextInv == Inv /\ [Next]_vars => Inv'
<1>1. SUFFICES ASSUME Inv, [Next]_vars PROVE Inv'
  OBVIOUS
<1>2. CASE UNCHANGED vars
  BY <1>1, <1>2 DEF vars, Inv, TypeOK, Size, Ids, Popped, Queued, Removed
<1>3. CASE \E keep \in 0..MaxItems : PushItem(keep)
  BY <1>1, <1>3, PushItemInv
<1>4. CASE PopItem
  BY <1>1, <1>4, PopItemInv
<1>5. CASE DropHead
  BY <1>1, <1>5, DropHeadInv
<1>6. CASE \E keep \in 0..MaxItems : ClearItems(keep)
  BY <1>1, <1>6, ClearItemsInv
<1>7. CASE \E pred \in SUBSET Elems(fifo.queue) : ClearItemsWhile(pred)
  BY <1>1, <1>7, ClearItemsWhileInv
<1>8. CASE DropCurrent
  BY <1>1, <1>8, DropCurrentInv
<1>9. CASE Report
  BY <1>1, <1>9, ReportInv
<1>10. QED
  BY <1>1, <1>2, <1>3, <1>4, <1>5, <1>6, <1>7, <1>8, <1>9 DEF Next

(***************************************************************************)
(* The strengthened invariant holds for every capacity of the FIFO.        *)
(***************************************************************************)
THEOREM SpecInv == Spec => []Inv
<1>1. QED
  BY InitInv, NextInv, PTL DEF Spec

-----------------------------------------------------------------------------
(* What a single step does to the queue *)

StepOrder ==
    \E n \in 0..Size(fifo) :
        \/ CutAtBack(n) /\ (Len(fifo'.queue) = n \/ AcceptedBehind(n))
        \/ CutAtFront(n) /\ lastId' = lastId

(***************************************************************************)
(* push() and clear() cut at the back, everybody else cuts at the front,   *)
(* if at all.                                                              *)
(***************************************************************************)
LEMMA StepKeeps == Inv /\ Next => StepOrder
<1> SUFFICES ASSUME Inv, Next PROVE StepOrder
  OBVIOUS
<1> USE InvTypes
<1>1. fifo'.queue = fifo.queue /\ lastId' = lastId => StepOrder
  <2>1. SubSeq(fifo.queue, 0 + 1, Len(fifo.queue)) = fifo.queue
    OBVIOUS
  <2>2. 0 \in 0..Size(fifo)
    BY DEF Size
  <2>3. QED
    BY <2>1, <2>2 DEF StepOrder, CutAtFront, Size
<1>2. ASSUME NEW keep \in 0..MaxItems, PushItem(keep)
      PROVE  StepOrder
  <2>1. CASE PushRejected(fifo, keep)
    BY <1>1, <1>2, <2>1 DEF PushItem, Push
  <2>2. CASE ~PushRejected(fifo, keep)
    <3> DEFINE g == Clear(fifo, keep)
               x == lastId + 1
    <3>1. keep \in Nat /\ x \in Nat /\ lastId' = x
      BY <1>2, <2>2 DEF PushItem
    <3>2. fifo' = [g EXCEPT !.queue = Append(@, x)]
      BY <1>2, <2>2 DEF PushItem, Push
    <3>3. g \in FifoType(Ids) /\ \E n \in 0..Len(fifo.queue) : CutBehind(fifo, g, n)
      BY <3>1, ClearCuts
    <3>4. PICK n \in 0..Len(fifo.queue) : CutBehind(fifo, g, n)
      BY <3>3
    <3> HIDE DEF g
    <3>5. /\ fifo'.queue = Append(SubSeq(fifo.queue, 1, n), x)
          /\ fifo'.removed = fifo.removed \o SubSeq(fifo.queue, n + 1, Len(fifo.queue))
      BY <3>2, <3>3, <3>4 DEF CutBehind, FifoType
    <3>6. /\ Len(fifo'.queue) = n + 1 /\ fifo'.queue[n + 1] = x
          /\ SubSeq(fifo'.queue, 1, n) = SubSeq(fifo.queue, 1, n)
      <4> HIDE DEF x
      <4>1. fifo.queue \in Seq(Nat)
        OBVIOUS
      <4>2. QED
        BY <3>1, <3>5, <4>1, PrefixKept
    <3>7. CutAtBack(n) /\ AcceptedBehind(n)
      BY <3>1, <3>5, <3>6 DEF CutAtBack, AcceptedBehind, Size
    <3>8. QED
      BY <3>7 DEF StepOrder, Size
  <2>3. QED
    BY <2>1, <2>2
<1>3. ASSUME NEW keep \in 0..MaxItems, ClearItems(keep)
      PROVE  StepOrder
  <2>1. keep \in Nat /\ fifo' = Clear(fifo, keep)
    BY <1>3 DEF ClearItems
  <2>2. PICK n \in 0..Len(fifo.queue) : CutBehind(fifo, fifo', n)
    BY <2>1, ClearCuts
  <2>3. /\ fifo'.queue = SubSeq(fifo.queue, 1, n)
        /\ fifo'.removed = fifo.removed \o SubSeq(fifo.queue, n + 1, Len(fifo.queue))
    BY <2>2 DEF CutBehind
  <2>4. Len(fifo'.queue) = n
    BY <2>3, ElemsCut
  <2>5. SubSeq(fifo'.queue, 1, n) = SubSeq(fifo.queue, 1, n)
    BY <2>3, <2>4
  <2>6. CutAtBack(n)
    BY <2>3, <2>4, <2>5 DEF CutAtBack, Size
  <2>7. QED
    BY <2>4, <2>6 DEF StepOrder, Size
<1>4. ASSUME PopItem \/ DropHead
      PROVE  StepOrder
  <2>1. fifo.queue # <<>> /\ fifo'.queue = Tail(fifo.queue) /\ lastId' = lastId
    BY <1>4 DEF PopItem, DropHead, Pop, PopDrop, IsEmpty, FifoType
  <2>2. 1 \in 0..Len(fifo.queue) /\ fifo'.queue = SubSeq(fifo.queue, 2, Len(fifo.queue))
    BY <2>1, HeadCut
  <2>3. CutAtFront(1)
    BY <2>2 DEF CutAtFront, Size
  <2>4. QED
    BY <2>1, <2>2, <2>3 DEF StepOrder, Size
<1>5. ASSUME NEW pred, ClearItemsWhile(pred)
      PROVE  StepOrder
  <2> DEFINE n == Leading(fifo.queue, pred)
  <2>1. n \in 0..Len(fifo.queue)
    BY LeadingInRange
  <2>2. fifo'.queue = SubSeq(fifo.queue, n + 1, Len(fifo.queue)) /\ lastId' = lastId
    BY <1>5 DEF ClearItemsWhile, ClearWhile, FifoType
  <2> HIDE DEF n
  <2>3. QED
    BY <2>1, <2>2 DEF StepOrder, CutAtFront, Size
<1>6. ASSUME DropCurrent \/ Report
      PROVE  StepOrder
  <2>1. fifo'.queue = fifo.queue /\ lastId' = lastId
    BY <1>6 DEF DropCurrent, MarkAsDropped, Report, TakeDropped, FifoType
  <2>2. QED
    BY <1>1, <2>1
<1>7. QED
  BY <1>2, <1>3, <1>4, <1>5, <1>6 DEF Next

-----------------------------------------------------------------------------
(* What a user of the URL FIFO relies on *)

(***************************************************************************)
(* All containers of PlayQueue::Queue hold streams accepted by push().     *)
(***************************************************************************)
THEOREM TypeCorrect == Spec => []TypeOK
<1>1. QED
  BY SpecInv, InvImplies, PTL

(***************************************************************************)
(* push() never exceeds max_number_of_items_, whatever it has to keep.     *)
(***************************************************************************)
THEOREM NeverOverfull == Spec => []Bounded
<1>1. QED
  BY SpecInv, InvImplies, PTL

(***************************************************************************)
(* No accepted stream is lost: it is queued, was handed over by pop(), or  *)
(* is or will be reported by get_removed().                                *)
(***************************************************************************)
THEOREM NoneLost == Spec => []NoStreamLost
<1>1. QED
  BY SpecInv, InvImplies, PTL

(***************************************************************************)
(* A queued stream was neither handed over nor reported.                   *)
(***************************************************************************)
THEOREM QueuedOnlyOnce == Spec => []QueuedIsNowhereElse
<1>1. QED
  BY SpecInv, InvImplies, PTL

(***************************************************************************)
(* pop() hands over the streams in the order in which push() accepted them. *)
(***************************************************************************)
THEOREM FirstInFirstOut == Spec => []InOrder
<1>1. QED
  BY SpecInv, InvImplies, PTL

(***************************************************************************)
(* The items push() and clear() are told to keep stay untouched, what they *)
(* cut off is handed on to removed_ in queue order, and nothing but an     *)
(* accepted push() appends to the queue.                                   *)
(***************************************************************************)
THEOREM StepsKeepOrder == Spec => StepKeepsOrder
<1>1. Inv /\ [Next]_vars => [StepOrder]_vars
  BY StepKeeps
<1>2. QED
  BY <1>1, SpecInv, PTL DEF Spec, StepKeepsOrder, StepOrder
=============================================================================
