-------------------------- MODULE UrlFifoOpsProofs --------------------------
(***************************************************************************)
(* What the methods of PlayQueue::Queue do to the elements of the queue    *)
(* and of its containers, for every size of the queue.                     *)
(***************************************************************************)
EXTENDS UrlFifoOps, FiniteSetTheorems, SequenceTheorems, TLAPS

-----------------------------------------------------------------------------
(* The elements of sequences *)

(***************************************************************************)
(* push() adds the new item to the elements of the queue.                  *)
(***************************************************************************)
LEMMA ElemsAppend ==
    ASSUME NEW S, NEW s \in Seq(S), NEW x \in S
    PROVE  Elems(Append(s, x)) = Elems(s) \cup {x}
<1> DEFINE a == Append(s, x)
<1>1. Len(a) = Len(s) + 1 /\ Len(s) \in Nat
  OBVIOUS
<1>2. \A i \in 1..Len(s) : a[i] = s[i]
  OBVIOUS
<1>3. a[Len(s) + 1] = x
  OBVIOUS
<1>4. \A i \in 1..Len(a) : a[i] \in Elems(s) \cup {x}
  BY <1>1, <1>2, <1>3 DEF Elems
<1>5. \A i \in 1..Len(s) : s[i] \in Elems(a)
  BY <1>1, <1>2 DEF Elems
<1>6. x \in Elems(a)
  BY <1>1, <1>3 DEF Elems
<1> HIDE DEF a
<1>7. QED
  BY <1>4, <1>5, <1>6 DEF Elems, a

(***************************************************************************)
(* Whatever is handed on to removed_ joins what is there already.          *)
(***************************************************************************)
LEMMA ElemsConcat ==
    ASSUME NEW S, NEW s \in Seq(S), NEW t \in Seq(S)
    PROVE  Elems(s \o t) = Elems(s) \cup Elems(t)
<1> DEFINE a == s \o t
<1>1. Len(a) = Len(s) + Len(t) /\ Len(s) \in Nat /\ Len(t) \in Nat
  OBVIOUS
<1>2. \A i \in 1..Len(s) : a[i] = s[i]
  OBVIOUS
<1>3. \A i \in 1..Len(t) : a[Len(s) + i] = t[i]
  OBVIOUS
<1>4. \A i \in 1..Len(a) : i \in 1..Len(s) \/ (i - Len(s) \in 1..Len(t) /\ i = Len(s) + (i - Len(s)))
  BY <1>1
<1> HIDE DEF a
<1>5. \A i \in 1..Len(a) : a[i] \in Elems(s) \cup Elems(t)
  BY <1>2, <1>3, <1>4 DEF Elems
<1>6. \A i \in 1..Len(s) : s[i] \in Elems(a)
  BY <1>1, <1>2 DEF Elems
<1>7. \A i \in 1..Len(t) : t[i] \in Elems(a)
  BY <1>1, <1>3 DEF Elems
<1>8. QED
  BY <1>5, <1>6, <1>7 DEF Elems, a

(***************************************************************************)
(* Cutting a queue in two loses nothing.                                   *)
(***************************************************************************)
LEMMA ElemsCut ==
    ASSUME NEW S, NEW s \in Seq(S), NEW n \in 0..Len(s)
    PROVE  /\ SubSeq(s, 1, n) \in Seq(S) /\ Len(SubSeq(s, 1, n)) = n
           /\ \A i \in 1..n : SubSeq(s, 1, n)[i] = s[i]
           /\ SubSeq(s, n + 1, Len(s)) \in Seq(S)
           /\ Len(SubSeq(s, n + 1, Len(s))) = Len(s) - n
           /\ \A i \in 1..(Len(s) - n) : SubSeq(s, n + 1, Len(s))[i] = s[n + i]
           /\ Elems(s) = Elems(SubSeq(s, 1, n)) \cup Elems(SubSeq(s, n + 1, Len(s)))
<1> DEFINE a == SubSeq(s, 1, n)
           b == SubSeq(s, n + 1, Len(s))
<1>1. a \in Seq(S) /\ Len(a) = n /\ \A i \in 1..n : a[i] = s[i]
  OBVIOUS
<1>2. b \in Seq(S) /\ Len(b) = Len(s) - n
  OBVIOUS
<1>3. \A i \in 1..(Len(s) - n) : b[i] = s[n + i]
  OBVIOUS
<1> HIDE DEF a, b
<1>4. Elems(a) \subseteq Elems(s)
  BY <1>1 DEF Elems
<1>5. Elems(b) \subseteq Elems(s)
  <2>1. \A i \in 1..Len(b) : n + i \in 1..Len(s)
    BY <1>2
  <2>2. QED
    BY <2>1, <1>2, <1>3 DEF Elems
<1>6. Elems(s) \subseteq Elems(a) \cup Elems(b)
  <2>1. SUFFICES ASSUME NEW i \in 1..Len(s)
                 PROVE  s[i] \in Elems(a) \cup Elems(b)
    BY DEF Elems
  <2>2. CASE i \in 1..n
    BY <2>2, <1>1 DEF Elems
  <2>3. CASE i \notin 1..n
    <3>1. i - n \in 1..Len(b) /\ i = n + (i - n)
      BY <2>3, <1>2
    <3>2. b[i - n] = s[i]
      BY <3>1, <1>2, <1>3
    <3>3. QED
      BY <3>1, <3>2 DEF Elems
  <2>4. QED
    BY <2>2, <2>3
<1>7. QED
  BY <1>1, <1>2, <1>3, <1>4, <1>5, <1>6 DEF a, b

(***************************************************************************)
(* clear_while() never finds more items than there are.                    *)
(***************************************************************************)
LEMMA LeadingInRange ==
    ASSUME NEW S, NEW q \in Seq(S), NEW pred
    PROVE  Leading(q, pred) \in 0..Len(q)
<1> DEFINE L == {n \in 1..Len(q) : \A i \in 1..n : q[i] \in pred}
<1>1. Len(q) \in Nat
  OBVIOUS
<1>2. IsFiniteSet(1..Len(q)) /\ Cardinality(1..Len(q)) = Len(q)
  BY <1>1, FS_Interval
<1>3. IsFiniteSet(L) /\ Cardinality(L) <= Cardinality(1..Len(q))
  BY <1>2, FS_Subset
<1>4. Cardinality(L) \in Nat
  BY <1>3, FS_CardinalityType
<1>5. QED
  BY <1>1, <1>2, <1>3, <1>4 DEF Leading

(***************************************************************************)
(* A queue which has been cut behind its first n items begins with them,   *)
(* also if an item is appended after that.                                 *)
(***************************************************************************)
LEMMA PrefixKept ==
    ASSUME NEW S, NEW s \in Seq(S), NEW n \in 0..Len(s), NEW x \in S
    PROVE  /\ Len(Append(SubSeq(s, 1, n), x)) = n + 1
           /\ Append(SubSeq(s, 1, n), x)[n + 1] = x
           /\ SubSeq(Append(SubSeq(s, 1, n), x), 1, n) = SubSeq(s, 1, n)
<1> DEFINE a == SubSeq(s, 1, n)
<1>1. a \in Seq(S) /\ Len(a) = n /\ n \in Nat
  BY ElemsCut
<1> HIDE DEF a
<1>2. Append(a, x) \in Seq(S) /\ Len(Append(a, x)) = n + 1 /\ Append(a, x)[n + 1] = x
  BY <1>1
<1>3. SubSeq(Append(a, x), 1, n) = a
  <2> DEFINE b == Append(a, x)
             c == SubSeq(b, 1, n)
  <2>1. b \in Seq(S) /\ n \in 0..Len(b)
    BY <1>1, <1>2
  <2>2. \A i \in 1..n : b[i] = a[i]
    BY <1>1
  <2> HIDE DEF b
  <2>3. c \in Seq(S) /\ Len(c) = n /\ \A i \in 1..n : c[i] = b[i]
    BY <2>1, ElemsCut
  <2> HIDE DEF c
  <2>4. c = a
    BY <1>1, <2>2, <2>3, SeqEqual
  <2>5. QED
    BY <2>4 DEF b, c
<1>4. QED
  BY <1>2, <1>3 DEF a

(***************************************************************************)
(* pop() and pop_drop() cut off one item.                                  *)
(***************************************************************************)
LEMMA HeadCut ==
    ASSUME NEW S, NEW s \in Seq(S), s # <<>>
    PROVE  /\ 1 \in 0..Len(s)
           /\ Tail(s) = SubSeq(s, 2, Len(s))
           /\ Elems(SubSeq(s, 1, 1)) = {s[1]}
           /\ s[1] \in S
<1>1. Len(s) \in Nat /\ Len(s) >= 1
  OBVIOUS
<1>2. 1 \in 0..Len(s) /\ s[1] \in S
  BY <1>1
<1>3. Tail(s) = SubSeq(s, 2, Len(s))
  BY <1>1
<1>4. Len(SubSeq(s, 1, 1)) = 1 /\ SubSeq(s, 1, 1)[1] = s[1]
  BY <1>2, ElemsCut
<1>5. Elems(SubSeq(s, 1, 1)) = {s[1]}
  BY <1>4 DEF Elems
<1>6. QED
  BY <1>2, <1>3, <1>5

-----------------------------------------------------------------------------
(* What the methods do to the object, as facts about any object *)

FifoType(S) == [queue : Seq(S), removed : Seq(S), dropped : SUBSET S]

\* From f to g, all but the first n items have been handed on to removed_.
CutBehind(f, g, n) ==
    /\ g.queue = SubSeq(f.queue, 1, n)
    /\ g.removed = f.removed \o SubSeq(f.queue, n + 1, Len(f.queue))
    /\ g.dropped = f.dropped

(***************************************************************************)
(* What clear() keeps is a prefix, and what it takes out goes to removed_. *)
(***************************************************************************)
LEMMA ClearCuts ==
    ASSUME NEW S, NEW f \in FifoType(S), NEW keep \in Nat
    PROVE  /\ Clear(f, keep) \in FifoType(S)
           /\ \E n \in 0..Len(f.queue) :
                /\ n <= keep
                /\ n = Len(f.queue) <=> ClearCount(f, keep) = 0
                /\ CutBehind(f, Clear(f, keep), n)
<1>1. f.queue \in Seq(S) /\ f.removed \in Seq(S) /\ Len(f.queue) \in Nat
  BY DEF FifoType
<1>2. CASE keep < Len(f.queue)
  <2>1. keep \in 0..Len(f.queue) /\ ClearCount(f, keep) # 0
    BY <1>1, <1>2 DEF ClearCount, Size
  <2>2. Clear(f, keep) = [f EXCEPT !.queue = SubSeq(f.queue, 1, keep),
                                   !.removed = @ \o SubSeq(f.queue, keep + 1, Len(f.queue))]
    BY <2>1 DEF Clear, Size
  <2>3. /\ SubSeq(f.queue, 1, keep) \in Seq(S)
        /\ SubSeq(f.queue, keep + 1, Len(f.queue)) \in Seq(S)
    BY <1>1, <2>1, ElemsCut
  <2>4. f.removed \o SubSeq(f.queue, keep + 1, Len(f.queue)) \in Seq(S)
    BY <1>1, <2>3
  <2>5. CutBehind(f, Clear(f, keep), keep)
    BY <2>2 DEF CutBehind, FifoType
  <2>6. Clear(f, keep) \in FifoType(S)
    BY <2>2, <2>3, <2>4 DEF FifoType
  <2>7. keep # Len(f.queue)
    BY <1>1, <1>2
  <2>8. QED
    BY <2>1, <2>5, <2>6, <2>7
<1>3. CASE ~(keep < Len(f.queue))
  <2>1. ClearCount(f, keep) = 0 /\ Len(f.queue) <= keep /\ Len(f.queue) \in 0..Len(f.queue)
    BY <1>1, <1>3 DEF ClearCount, Size
  <2>2. Clear(f, keep) = f
    BY <2>1 DEF Clear
  <2>3. SubSeq(f.queue, 1, Len(f.queue)) = f.queue
    BY <1>1
  <2>4. SubSeq(f.queue, Len(f.queue) + 1, Len(f.queue)) = <<>>
    BY <1>1
  <2>5. f.removed \o <<>> = f.removed
    BY <1>1
  <2>6. CutBehind(f, f, Len(f.queue))
    BY <2>3, <2>4, <2>5 DEF CutBehind
  <2>7. QED
    BY <2>1, <2>2, <2>6
<1>4. QED
  BY <1>2, <1>3
=============================================================================
