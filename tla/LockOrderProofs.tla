-------------------------- MODULE LockOrderProofs --------------------------
(***************************************************************************)
(* Threads whose lock programs keep to the discipline stated in module     *)
(* LockOrder never wait for each other in a circle, whatever their number, *)
(* the number of locks and calls, and the programs.                        *)
(***************************************************************************)
EXTENDS LockOrder, TLAPS

TypeOK ==
    /\ rest \in [Threads -> Seq(Steps)]
    /\ asked \subseteq CallLocks

\* What is left of a program keeps to the discipline of the whole one.
Disciplined ==
    /\ \A t \in Threads : Scoped(rest[t])
    /\ \A t \in Streaming : Ascending(rest[t])
    /\ Compatible(rest[MainLoop])

\* Nobody else knows a call object before its request has been sent.
CallsArePrivate ==
    /\ \A t \in Threads : Asks(rest[t]) \cap asked = {}
    /\ \A t \in Threads : Uses(rest[t]) \ Asks(rest[t]) \subseteq asked
    /\ \A t, u \in Threads : t # u => Asks(rest[t]) \cap Uses(rest[u]) = {}

Inv == TypeOK /\ Disciplined /\ CallsArePrivate /\ Exclusive

-----------------------------------------------------------------------------
(* What is true of a program is true of its tail *)

\* The steps of a tail.
LEMMA TailSteps ==
    ASSUME NEW p \in Seq(Steps), p # <<>>
    PROVE  /\ Tail(p) \in Seq(Steps)
           /\ Len(Tail(p)) = Len(p) - 1
           /\ \A i \in 1..Len(Tail(p)) : i + 1 \in 1..Len(p) /\ Tail(p)[i] = p[i + 1]
           /\ Head(p) = p[1] /\ Head(p) \in Steps /\ 1 \in 1..Len(p)
  OBVIOUS

\* Scopes and single requests remain after a step.
LEMMA TailScoped ==
    ASSUME NEW p \in Seq(Steps), p # <<>>, Scoped(p)
    PROVE  /\ Scoped(Tail(p))
           /\ Tail(p) # <<>> => Head(Tail(p)).held \subseteq
                (Head(p).held \cup IF Head(p).op = "lock" THEN {Head(p).lock} ELSE {})
<1> DEFINE q == Tail(p)
<1>1. /\ q \in Seq(Steps) /\ Len(q) = Len(p) - 1 /\ Len(p) \in Nat
      /\ \A i \in 1..Len(q) : i + 1 \in 1..Len(p) /\ q[i] = p[i + 1]
      /\ Head(p) = p[1] /\ 1 \in 1..Len(p)
  BY TailSteps
<1>2. \A i \in 1..Len(q) : \A j \in 1..Len(q) :
         j = i + 1 => q[j].held \subseteq
                        (q[i].held \cup IF q[i].op = "lock" THEN {q[i].lock} ELSE {})
  <2> SUFFICES ASSUME NEW i \in 1..Len(q), NEW j \in 1..Len(q), j = i + 1
               PROVE  q[j].held \subseteq
                        (q[i].held \cup IF q[i].op = "lock" THEN {q[i].lock} ELSE {})
    OBVIOUS
  <2>1. i + 1 \in 1..Len(p) /\ j + 1 \in 1..Len(p) /\ j + 1 = (i + 1) + 1
    BY <1>1
  <2>2. q[i] = p[i + 1] /\ q[j] = p[j + 1]
    BY <1>1
  <2> QED BY <2>1, <2>2 DEF Scoped
<1>3. \A i \in 1..Len(q) : q[i].op = "ask" =>
         /\ q[i].lock \in CallLocks
         /\ \A j \in 1..Len(q) : i < j => ~Asking(q, j, q[i].lock)
  <2> SUFFICES ASSUME NEW i \in 1..Len(q), q[i].op = "ask"
               PROVE  /\ q[i].lock \in CallLocks
                      /\ \A j \in 1..Len(q) : i < j => ~Asking(q, j, q[i].lock)
    OBVIOUS
  <2>1. i + 1 \in 1..Len(p) /\ q[i] = p[i + 1]
    BY <1>1
  <2>2. /\ p[i + 1].lock \in CallLocks
        /\ \A j \in 1..Len(p) : i + 1 < j => ~Asking(p, j, p[i + 1].lock)
    BY <2>1 DEF Scoped
  <2>3. ASSUME NEW j \in 1..Len(q), i < j PROVE ~Asking(q, j, q[i].lock)
    <3>1. j + 1 \in 1..Len(p) /\ q[j] = p[j + 1] /\ i + 1 < j + 1
      BY <1>1, <2>3
    <3> QED BY <3>1, <2>1, <2>2 DEF Asking
  <2> QED BY <2>1, <2>2, <2>3
<1>4. Scoped(q)
  BY <1>2, <1>3 DEF Scoped
<1>5. q # <<>> => Head(q).held \subseteq
                (p[1].held \cup IF p[1].op = "lock" THEN {p[1].lock} ELSE {})
  <2> SUFFICES ASSUME q # <<>> PROVE Head(q).held \subseteq
                (p[1].held \cup IF p[1].op = "lock" THEN {p[1].lock} ELSE {})
    OBVIOUS
  <2>1. Head(q) = q[1] /\ 1 \in 1..Len(q)
    BY <1>1
  <2>2. q[1] = p[2] /\ 2 \in 1..Len(p) /\ 2 = 1 + 1
    BY <1>1, <2>1
  <2> QED BY <1>1, <2>1, <2>2 DEF Scoped
<1> QED BY <1>1, <1>4, <1>5

\* A relocking step and the first use of a call are what they were.
LEMMA TailKinds ==
    ASSUME NEW p \in Seq(Steps), p # <<>>, NEW i \in 1..Len(Tail(p))
    PROVE  /\ Relock(p, i + 1) => Relock(Tail(p), i)
           /\ NewCall(p, i + 1) => NewCall(Tail(p), i)
<1> DEFINE q == Tail(p)
<1>1. /\ Len(q) = Len(p) - 1 /\ Len(p) \in Nat
      /\ \A k \in 1..Len(q) : k + 1 \in 1..Len(p) /\ q[k] = p[k + 1]
  BY TailSteps
<1>2. q[i] = p[i + 1]
  BY <1>1
<1>3. Relock(p, i + 1) => Relock(q, i)
  BY <1>2 DEF Relock
<1>4. ASSUME NewCall(p, i + 1) PROVE NewCall(q, i)
  <2>1. PICK j \in 1..Len(p) : i + 1 < j /\ Asking(p, j, p[i + 1].lock)
    BY <1>4 DEF NewCall
  <2>2. j - 1 \in 1..Len(q) /\ i < j - 1 /\ q[j - 1] = p[(j - 1) + 1] /\ (j - 1) + 1 = j
    BY <2>1, <1>1
  <2>3. Asking(q, j - 1, q[i].lock)
    BY <2>1, <2>2, <1>2 DEF Asking
  <2> QED BY <1>4, <1>2, <2>2, <2>3 DEF NewCall
<1> QED BY <1>3, <1>4

\* The order of the locks remains after a step.
LEMMA TailAscending ==
    ASSUME NEW p \in Seq(Steps), p # <<>>, Ascending(p)
    PROVE  Ascending(Tail(p))
<1> DEFINE q == Tail(p)
<1> SUFFICES ASSUME NEW i \in 1..Len(q), q[i].op = "lock"
             PROVE  \/ Relock(q, i)
                    \/ NewCall(q, i)
                    \/ /\ q[i].lock \notin CallLocks
                       /\ \A h \in q[i].held : h \in Outer /\ Rank[h] < Rank[q[i].lock]
                       /\ q[i].held # {} => q[i].lock \in Inner
  BY DEF Ascending
<1>1. i + 1 \in 1..Len(p) /\ q[i] = p[i + 1]
  BY TailSteps
<1>2. \/ Relock(p, i + 1)
      \/ NewCall(p, i + 1)
      \/ /\ p[i + 1].lock \notin CallLocks
         /\ \A h \in p[i + 1].held : h \in Outer /\ Rank[h] < Rank[p[i + 1].lock]
         /\ p[i + 1].held # {} => p[i + 1].lock \in Inner
  BY <1>1 DEF Ascending
<1> QED BY <1>1, <1>2, TailKinds

\* The compatibility of the main loop's locks remains after a step.
LEMMA TailCompatible ==
    ASSUME NEW p \in Seq(Steps), p # <<>>, Compatible(p)
    PROVE  Compatible(Tail(p))
<1> DEFINE q == Tail(p)
<1> SUFFICES ASSUME NEW i \in 1..Len(q), q[i].op = "lock"
             PROVE  \/ Relock(q, i)
                    \/ NewCall(q, i)
                    \/ /\ q[i].lock \notin q[i].held
                       /\ \A h \in q[i].held :
                            h \in Inner /\ q[i].lock \in Outer => Rank[h] < Rank[q[i].lock]
  BY DEF Compatible
<1>1. i + 1 \in 1..Len(p) /\ q[i] = p[i + 1]
  BY TailSteps
<1>2. \/ Relock(p, i + 1)
      \/ NewCall(p, i + 1)
      \/ /\ p[i + 1].lock \notin p[i + 1].held
         /\ \A h \in p[i + 1].held :
              h \in Inner /\ p[i + 1].lock \in Outer => Rank[h] < Rank[p[i + 1].lock]
  BY <1>1 DEF Compatible
<1> QED BY <1>1, <1>2, TailKinds

\* A step takes away the request it sends, and nothing else.
LEMMA TailCalls ==
    ASSUME NEW p \in Seq(Steps), p # <<>>
    PROVE  /\ Asks(Tail(p)) \subseteq Asks(p)
           /\ Uses(Tail(p)) \subseteq Uses(p)
           /\ Asks(p) \subseteq
                (Asks(Tail(p)) \cup IF Head(p).op = "ask" THEN {Head(p).lock} ELSE {})
           /\ Scoped(p) /\ Head(p).op = "ask" => /\ Head(p).lock \in Asks(p)
                                                 /\ Head(p).lock \notin Asks(Tail(p))
           /\ Asks(p) \subseteq Uses(p)
           /\ Head(p).held \cap CallLocks \subseteq Uses(p)
<1> DEFINE q == Tail(p)
<1>1. /\ Len(q) = Len(p) - 1 /\ Len(p) \in Nat
      /\ \A i \in 1..Len(q) : i + 1 \in 1..Len(p) /\ q[i] = p[i + 1]
      /\ Head(p) = p[1] /\ 1 \in 1..Len(p)
  BY TailSteps
<1>2. \A j \in 1..Len(p) : j = 1 \/ (j - 1 \in 1..Len(q) /\ q[j - 1] = p[j])
  <2> TAKE j \in 1..Len(p)
  <2>1. j # 1 => j - 1 \in 1..Len(q) /\ (j - 1) + 1 = j
    BY <1>1
  <2> QED BY <1>1, <2>1
<1>3. Asks(q) \subseteq Asks(p)
  BY <1>1 DEF Asks, Asking
<1>4. Uses(q) \subseteq Uses(p)
  BY <1>1 DEF Uses
<1>5. Asks(p) \subseteq (Asks(q) \cup IF p[1].op = "ask" THEN {p[1].lock} ELSE {})
  <2> SUFFICES ASSUME NEW c \in Asks(p)
               PROVE  c \in Asks(q) \/ (p[1].op = "ask" /\ c = p[1].lock)
    OBVIOUS
  <2>1. PICK j \in 1..Len(p) : Asking(p, j, c)
    BY DEF Asks
  <2> QED BY <1>2, <2>1 DEF Asks, Asking
<1>6. Scoped(p) /\ p[1].op = "ask" => p[1].lock \in Asks(p) /\ p[1].lock \notin Asks(q)
  <2> SUFFICES ASSUME Scoped(p), p[1].op = "ask"
               PROVE  p[1].lock \in Asks(p) /\ p[1].lock \notin Asks(q)
    OBVIOUS
  <2>1. p[1].lock \in CallLocks /\ \A j \in 1..Len(p) : 1 < j => ~Asking(p, j, p[1].lock)
    BY <1>1 DEF Scoped
  <2>2. p[1].lock \in Asks(p)
    BY <1>1, <2>1 DEF Asks, Asking
  <2>3. ASSUME NEW i \in 1..Len(q) PROVE ~Asking(q, i, p[1].lock)
    <3>1. i + 1 \in 1..Len(p) /\ 1 < i + 1 /\ q[i] = p[i + 1]
      BY <1>1
    <3> QED BY <3>1, <2>1 DEF Asking
  <2> QED BY <2>2, <2>3 DEF Asks
<1>7. Asks(p) \subseteq Uses(p)
  BY DEF Asks, Uses, Asking
<1>8. p[1].held \cap CallLocks \subseteq Uses(p)
  BY <1>1 DEF Uses
<1> QED BY <1>1, <1>3, <1>4, <1>5, <1>6, <1>7, <1>8

-----------------------------------------------------------------------------
(* The invariant is inductive *)

\* The step of one thread which goes on in its program.
Advance(t) ==
    /\ Busy(t)
    /\ rest' = [rest EXCEPT ![t] = Tail(@)]
    /\ asked' = asked \cup (IF Head(rest[t]).op = "ask" THEN {Head(rest[t]).lock} ELSE {})
    /\ Head(rest[t]).op = "lock" => \A u \in Threads : ~WaitsFor(t, u)

\* All threads are idle in the beginning.
LEMMA InitInv == Init => Inv
<1> SUFFICES ASSUME Init PROVE Inv
  OBVIOUS
<1>1. \A t \in Threads : rest[t] = <<>>
  BY DEF Init
<1>2. MainLoop \in Threads /\ Streaming \subseteq Threads
  BY DEF Threads
<1>3. Len(<<>>) = 0 /\ 1..0 = {} /\ <<>> \in Seq(Steps)
  OBVIOUS
<1>4. Scoped(<<>>) /\ Ascending(<<>>) /\ Compatible(<<>>)
  BY <1>3 DEF Scoped, Ascending, Compatible
<1>5. Asks(<<>>) = {} /\ Uses(<<>>) = {}
  BY <1>3 DEF Asks, Uses
<1>6. TypeOK
  BY <1>3 DEF Init, TypeOK
<1>7. Disciplined
  BY <1>1, <1>2, <1>4 DEF Disciplined
<1>8. CallsArePrivate
  BY <1>1, <1>5 DEF CallsArePrivate
<1>9. Exclusive
  BY <1>1 DEF Exclusive, Holds, Busy
<1> QED BY <1>6, <1>7, <1>8, <1>9 DEF Inv

\* A program begins without locks, and with call objects of its own.
LEMMA BeginInv ==
    ASSUME Inv, NEW t \in Threads, NEW p \in Programs[t], Begin(t, p)
    PROVE  Inv'
<1>1. p \in Seq(Steps)
  BY ProgramsAssumption
<1>2. /\ rest \in [Threads -> Seq(Steps)] /\ asked \subseteq CallLocks
      /\ rest' = [rest EXCEPT ![t] = p] /\ asked' = asked
  BY DEF Inv, TypeOK, Begin
<1>3. rest'[t] = p /\ \A u \in Threads : u # t => rest'[u] = rest[u]
  BY <1>2
<1>4. TypeOK'
  BY <1>1, <1>2 DEF TypeOK
<1>5. Disciplined'
  <2>1. /\ Scoped(p)
        /\ t \in Streaming => Ascending(p)
        /\ t = MainLoop => Compatible(p)
    BY DisciplineAssumption
  <2>2. Streaming \subseteq Threads /\ MainLoop \in Threads
    BY DEF Threads
  <2>3. /\ \A u \in Threads : Scoped(rest[u])
        /\ \A u \in Streaming : Ascending(rest[u])
        /\ Compatible(rest[MainLoop])
    BY DEF Inv, Disciplined
  <2>4. \A u \in Threads : Scoped(rest'[u])
    BY <1>3, <2>1, <2>3
  <2>5. \A u \in Streaming : Ascending(rest'[u])
    BY <1>3, <2>1, <2>2, <2>3
  <2>6. Compatible(rest'[MainLoop])
    BY <1>3, <2>1, <2>2, <2>3
  <2> QED BY <2>4, <2>5, <2>6 DEF Disciplined
<1>6. CallsArePrivate'
  <2>1. /\ Asks(p) \cap asked = {}
        /\ \A u \in Threads : Asks(p) \cap Asks(rest[u]) = {}
        /\ Uses(p) \ Asks(p) \subseteq asked
    BY DEF Begin
  <2>2. /\ \A u \in Threads : Asks(rest[u]) \cap asked = {}
        /\ \A u \in Threads : Uses(rest[u]) \ Asks(rest[u]) \subseteq asked
        /\ \A u, v \in Threads : u # v => Asks(rest[u]) \cap Uses(rest[v]) = {}
    BY DEF Inv, CallsArePrivate
  <2>3. \A u \in Threads : Asks(rest'[u]) \cap asked' = {}
    BY <1>2, <1>3, <2>1, <2>2
  <2>4. \A u \in Threads : Uses(rest'[u]) \ Asks(rest'[u]) \subseteq asked'
    BY <1>2, <1>3, <2>1, <2>2
  <2>5. \A u \in Threads : u # t => /\ Asks(p) \cap Uses(rest[u]) = {}
                                    /\ Asks(rest[u]) \cap Uses(p) = {}
    BY <2>1, <2>2
  <2>6. \A u, v \in Threads : u # v => Asks(rest'[u]) \cap Uses(rest'[v]) = {}
    BY <1>3, <2>2, <2>5
  <2> QED BY <2>3, <2>4, <2>6 DEF CallsArePrivate
<1>7. Exclusive'
  <2>1. p # <<>> => Head(p).held = {}
    BY <1>1, DisciplineAssumption
  <2>2. \A l \in Locks : ~Holds(t, l)'
    BY <1>3, <2>1 DEF Holds, Busy
  <2>3. \A u \in Threads : u # t => \A l \in Locks : Holds(u, l)' <=> Holds(u, l)
    BY <1>3 DEF Holds, Busy
  <2> QED BY <2>2, <2>3 DEF Inv, Exclusive
<1> QED BY <1>4, <1>5, <1>6, <1>7 DEF Inv

\* A thread which goes on keeps the discipline, and gains what it waited for.
LEMMA AdvanceInv ==
    ASSUME Inv, NEW t \in Threads, Advance(t)
    PROVE  Inv'
<1> DEFINE p == rest[t]
           asks == IF Head(p).op = "ask" THEN {Head(p).lock} ELSE {}
<1>1. /\ rest \in [Threads -> Seq(Steps)] /\ asked \subseteq CallLocks
      /\ p \in Seq(Steps) /\ p # <<>>
      /\ rest' = [rest EXCEPT ![t] = Tail(p)] /\ asked' = asked \cup asks
  BY DEF Inv, TypeOK, Advance, Busy
<1>2. rest'[t] = Tail(p) /\ \A u \in Threads : u # t => rest'[u] = rest[u]
  BY <1>1
<1>3. Streaming \subseteq Threads /\ MainLoop \in Threads
  BY DEF Threads
<1>4. /\ \A u \in Threads : Scoped(rest[u])
      /\ \A u \in Streaming : Ascending(rest[u])
      /\ Compatible(rest[MainLoop])
  BY DEF Inv, Disciplined
<1>5. Tail(p) \in Seq(Steps) /\ Head(p) \in Steps
  BY <1>1, TailSteps
<1>6. /\ Scoped(Tail(p))
      /\ Tail(p) # <<>> => Head(Tail(p)).held \subseteq
           (Head(p).held \cup IF Head(p).op = "lock" THEN {Head(p).lock} ELSE {})
  BY <1>1, <1>4, TailScoped
<1>7. /\ Asks(Tail(p)) \subseteq Asks(p)
      /\ Uses(Tail(p)) \subseteq Uses(p)
      /\ Asks(p) \subseteq Asks(Tail(p)) \cup asks
      /\ asks \subseteq Asks(p)
      /\ asks \cap Asks(Tail(p)) = {}
      /\ Asks(p) \subseteq Uses(p)
      /\ Asks(p) \subseteq CallLocks
  BY <1>1, <1>4, TailCalls DEF Asks
<1>8. TypeOK'
  BY <1>1, <1>5, <1>7 DEF TypeOK
<1>9. Disciplined'
  <2>1. \A u \in Threads : Scoped(rest'[u])
    BY <1>2, <1>4, <1>6
  <2>2. \A u \in Streaming : Ascending(rest'[u])
    <3> TAKE u \in Streaming
    <3>1. CASE u = t BY <3>1, <1>1, <1>2, <1>4, TailAscending
    <3>2. CASE u # t BY <3>2, <1>2, <1>3, <1>4
    <3> QED BY <3>1, <3>2
  <2>3. Compatible(rest'[MainLoop])
    <3>1. CASE MainLoop = t BY <3>1, <1>1, <1>2, <1>4, TailCompatible
    <3>2. CASE MainLoop # t BY <3>2, <1>2, <1>3, <1>4
    <3> QED BY <3>1, <3>2
  <2> QED BY <2>1, <2>2, <2>3 DEF Disciplined
<1>10. CallsArePrivate'
  <2>1. /\ \A u \in Threads : Asks(rest[u]) \cap asked = {}
        /\ \A u \in Threads : Uses(rest[u]) \ Asks(rest[u]) \subseteq asked
        /\ \A u, v \in Threads : u # v => Asks(rest[u]) \cap Uses(rest[v]) = {}
    BY DEF Inv, CallsArePrivate
  <2> HIDE DEF p, asks
  <2>2. p = rest[t]
    BY DEF p
  <2>3. \A u \in Threads : u # t => Asks(rest[u]) \cap asks = {}
    BY <1>7, <2>1, <2>2
  <2>4. \A u \in Threads : Asks(rest'[u]) \cap asked' = {}
    <3> TAKE u \in Threads
    <3>1. CASE u = t BY <3>1, <1>1, <1>2, <1>7, <2>1, <2>2
    <3>2. CASE u # t BY <3>2, <1>1, <1>2, <2>1, <2>3
    <3> QED BY <3>1, <3>2
  <2>5. \A u \in Threads : Uses(rest'[u]) \ Asks(rest'[u]) \subseteq asked'
    <3> TAKE u \in Threads
    <3>1. CASE u = t BY <3>1, <1>1, <1>2, <1>7, <2>1, <2>2
    <3>2. CASE u # t BY <3>2, <1>1, <1>2, <2>1
    <3> QED BY <3>1, <3>2
  <2>6. \A u, v \in Threads : u # v => Asks(rest'[u]) \cap Uses(rest'[v]) = {}
    <3> TAKE u, v \in Threads
    <3> HAVE u # v
    <3>1. Asks(rest'[u]) \subseteq Asks(rest[u])
      BY <1>2, <1>7, <2>2
    <3>2. Uses(rest'[v]) \subseteq Uses(rest[v])
      BY <1>2, <1>7, <2>2
    <3> QED BY <3>1, <3>2, <2>1
  <2> QED BY <2>4, <2>5, <2>6 DEF CallsArePrivate
<1>11. Exclusive'
  <2>1. \A u \in Threads : u # t => \A l \in Locks : Holds(u, l)' <=> Holds(u, l)
    BY <1>2 DEF Holds, Busy
  <2>2. \A l \in Locks : Holds(t, l)' => Holds(t, l) \/ (Head(p).op = "lock" /\ l = Head(p).lock)
    BY <1>1, <1>2, <1>6 DEF Holds, Busy
  <2>3. \A u \in Threads : Head(p).op = "lock" /\ u # t => ~Holds(u, Head(p).lock)
    BY <1>1 DEF Advance, WaitsFor, Busy
  <2>4. \A u, v \in Threads, l \in Locks : Holds(u, l) /\ Holds(v, l) => u = v
    BY DEF Inv, Exclusive
  <2> SUFFICES ASSUME NEW u \in Threads, NEW v \in Threads, NEW l \in Locks,
                      Holds(u, l)', Holds(v, l)', u # v
               PROVE  FALSE
    BY DEF Exclusive
  <2>5. CASE u = t BY <2>5, <2>1, <2>2, <2>3, <2>4
  <2>6. CASE v = t BY <2>6, <2>1, <2>2, <2>3, <2>4
  <2>7. CASE u # t /\ v # t BY <2>7, <2>1, <2>4
  <2> QED BY <2>5, <2>6, <2>7
<1> QED BY <1>8, <1>9, <1>10, <1>11 DEF Inv

\* Every step is the beginning of a program, an advance, or no step at all.
LEMMA NextInv == Inv /\ [Next]_vars => Inv'
<1> SUFFICES ASSUME Inv, [Next]_vars PROVE Inv'
  OBVIOUS
<1>1. CASE Next
  <2>1. PICK t \in Threads : \/ \E p \in Programs[t] : Begin(t, p)
                             \/ Acquire(t) \/ Release(t) \/ AskBroker(t)
    BY <1>1 DEF Next
  <2>2. CASE \E p \in Programs[t] : Begin(t, p)
    BY <2>2, BeginInv
  <2>3. CASE Acquire(t) \/ Release(t) \/ AskBroker(t)
    <3>1. Advance(t)
      BY <2>3 DEF Acquire, Release, AskBroker, Advance
    <3> QED BY <3>1, AdvanceInv
  <2> QED BY <2>1, <2>2, <2>3
<1>2. CASE UNCHANGED vars
  BY <1>2 DEF vars, Inv, TypeOK, Disciplined, CallsArePrivate, Exclusive, Holds, Busy
<1> QED BY <1>1, <1>2

-----------------------------------------------------------------------------
(* The argument against circles *)

Wants(t) == Head(rest[t]).lock

Has(t) == Head(rest[t]).held

\* Nobody holds what a thread acquires for the first time, or acquires again.
LEMMA RealWait ==
    ASSUME Inv, NEW t \in Threads, NEW u \in Threads, WaitsFor(t, u)
    PROVE  /\ t # u
           /\ Busy(u) /\ Wants(t) \in Has(u) /\ Wants(t) \in Locks
           /\ ~Relock(rest[t], 1) /\ ~NewCall(rest[t], 1)
           /\ rest[t][1] = Head(rest[t]) /\ rest[t][1].op = "lock" /\ 1 \in 1..Len(rest[t])
<1> DEFINE p == rest[t]
<1>1. /\ p \in Seq(Steps) /\ p # <<>> /\ rest[u] \in Seq(Steps)
      /\ Head(p).op = "lock" /\ Busy(u) /\ Head(p).lock \in Head(rest[u]).held
      /\ t # u \/ Head(p).lock \in CallLocks
  BY DEF Inv, TypeOK, WaitsFor, Holds, Busy
<1>2. Head(p) = p[1] /\ 1 \in 1..Len(p) /\ Head(p) \in Steps
  BY <1>1, TailSteps
<1>3. Head(p).lock \in Locks
  BY <1>2 DEF Steps
<1>4. ~NewCall(p, 1)
  <2> SUFFICES ASSUME NewCall(p, 1) PROVE FALSE
    OBVIOUS
  <2>1. p[1].lock \in Asks(p) /\ p[1].lock \notin p[1].held /\ p[1].lock \in CallLocks
    BY DEF NewCall, Asks
  <2>2. u # t
    BY <2>1, <1>1, <1>2
  <2>3. rest[u] # <<>>
    BY <1>1 DEF Busy
  <2>4. Head(rest[u]).held \cap CallLocks \subseteq Uses(rest[u])
    BY <1>1, <2>3, TailCalls
  <2>5. Asks(p) \cap Uses(rest[u]) = {}
    BY <2>2 DEF Inv, CallsArePrivate
  <2> QED BY <1>1, <1>2, <2>1, <2>4, <2>5
<1>5. t # u
  <2> SUFFICES ASSUME t = u PROVE FALSE
    OBVIOUS
  <2>1. p[1].lock \in CallLocks /\ p[1].lock \in p[1].held /\ ~Relock(p, 1)
    BY <1>1, <1>2 DEF Relock
  <2>2. (t \in Streaming => Ascending(p)) /\ (t = MainLoop => Compatible(p))
    BY DEF Inv, Disciplined
  <2>3. CASE t \in Streaming
    BY <2>1, <2>2, <2>3, <1>1, <1>2, <1>4 DEF Ascending
  <2>4. CASE t = MainLoop
    BY <2>1, <2>2, <2>4, <1>1, <1>2, <1>4 DEF Compatible
  <2> QED BY <2>3, <2>4 DEF Threads
<1>6. ~Relock(p, 1)
  <2> SUFFICES ASSUME Relock(p, 1) PROVE FALSE
    OBVIOUS
  <2>1. Holds(t, p[1].lock) /\ Holds(u, p[1].lock)
    BY <1>1, <1>2 DEF Relock, Holds, Busy
  <2> QED BY <2>1, <1>2, <1>3, <1>5 DEF Inv, Exclusive
<1> QED BY <1>1, <1>2, <1>3, <1>4, <1>5, <1>6 DEF Wants, Has

\* A streaming thread waits for a lock above all those it holds.
LEMMA StreamingWait ==
    ASSUME Inv, NEW t \in Streaming, NEW u \in Threads, WaitsFor(t, u)
    PROVE  /\ \A h \in Has(t) : h \in Outer /\ Rank[h] < Rank[Wants(t)]
           /\ Has(t) # {} => Wants(t) \in Inner
<1>1. t \in Threads
  BY DEF Threads
<1>2. Ascending(rest[t])
  BY DEF Inv, Disciplined
<1> QED BY <1>1, <1>2, RealWait DEF Ascending, Wants, Has

\* The main loop waits for a lock above those held by it which matter.
LEMMA MainLoopWait ==
    ASSUME Inv, NEW u \in Threads, WaitsFor(MainLoop, u)
    PROVE  \A h \in Has(MainLoop) :
             h \in Inner /\ Wants(MainLoop) \in Outer => Rank[h] < Rank[Wants(MainLoop)]
<1>1. MainLoop \in Threads
  BY DEF Threads
<1>2. Compatible(rest[MainLoop])
  BY DEF Inv, Disciplined
<1> QED BY <1>1, <1>2, RealWait DEF Compatible, Wants, Has

\* A nonempty set of ranks has a largest one.
LEMMA LargestRank ==
    ASSUME NEW R, R \subseteq 1..4, R # {}
    PROVE  \E m \in R : \A n \in R : n <= m
<1>1. \A n \in R : n = 1 \/ n = 2 \/ n = 3 \/ n = 4
  OBVIOUS
<1>2. CASE 4 \in R BY <1>1, <1>2
<1>3. CASE 4 \notin R /\ 3 \in R BY <1>1, <1>3
<1>4. CASE 4 \notin R /\ 3 \notin R /\ 2 \in R BY <1>1, <1>4
<1>5. CASE 4 \notin R /\ 3 \notin R /\ 2 \notin R
  <2>1. \A n \in R : n = 1
    BY <1>1, <1>5
  <2>2. PICK n \in R : TRUE
    OBVIOUS
  <2> QED BY <2>1, <2>2
<1> QED BY <1>2, <1>3, <1>4, <1>5

(***************************************************************************)
(* Among the streaming threads of a circle which hold a lock, take one     *)
(* which waits for a lock of the highest rank.  No streaming thread of the *)
(* circle can be the owner, since it would wait for a higher one.  If it   *)
(* is the main loop, then the main loop waits for a higher lock, too, and  *)
(* the streaming thread which holds that one for an even higher one.       *)
(***************************************************************************)
LEMMA InvNoCircle == Inv => NoCircularWait
<1> SUFFICES ASSUME Inv, NEW D \in SUBSET Threads, D # {},
                    \A t \in D : \E u \in D : WaitsFor(t, u)
             PROVE  FALSE
  BY DEF NoCircularWait
<1> DEFINE S == {t \in D \cap Streaming : Has(t) # {}}
           R == {Rank[Wants(t)] : t \in S}
<1>1. \A t \in Threads : t = MainLoop \/ t \in Streaming
  BY DEF Threads
<1>2. \A t \in D : Wants(t) \in Locks
  BY RealWait
<1>3. S # {}
  <2>1. PICK a \in D : TRUE
    OBVIOUS
  <2>2. PICK b \in D : WaitsFor(a, b)
    OBVIOUS
  <2>3. PICK c \in D : WaitsFor(b, c)
    OBVIOUS
  <2>4. a # b /\ Has(b) # {} /\ b # c /\ Has(c) # {}
    BY <2>2, <2>3, RealWait
  <2> QED BY <1>1, <2>4
<1>4. R \subseteq 1..4 /\ R # {}
  BY <1>2, <1>3, RankAssumption
<1>5. PICK m \in R : \A n \in R : n <= m
  BY <1>4, LargestRank
<1>6. PICK t \in S : m = Rank[Wants(t)]
  BY <1>5
<1>7. \A s \in S : Rank[Wants(s)] <= Rank[Wants(t)] /\ Rank[Wants(s)] \in 1..4
  BY <1>4, <1>5, <1>6
<1>8. PICK u \in D : WaitsFor(t, u)
  BY <1>6
<1>9. Wants(t) \in Has(u) /\ Wants(t) \in Inner /\ Wants(t) \in Locks
  BY <1>6, <1>8, RealWait, StreamingWait
<1>10. u \notin Streaming
  <2> SUFFICES ASSUME u \in Streaming PROVE FALSE
    OBVIOUS
  <2>1. u \in S
    BY <1>9
  <2>2. PICK v \in D : WaitsFor(u, v)
    OBVIOUS
  <2>3. Rank[Wants(t)] < Rank[Wants(u)]
    BY <2>2, <1>9, StreamingWait
  <2> QED BY <2>1, <2>3, <1>6, <1>7
<1>11. u = MainLoop
  BY <1>1, <1>10
<1>12. PICK v \in D : WaitsFor(MainLoop, v)
  BY <1>11
<1>13. v \in Streaming /\ Wants(MainLoop) \in Has(v) /\ Wants(MainLoop) \in Locks
  BY <1>1, <1>11, <1>12, RealWait
<1>14. v \in S
  BY <1>13
<1>15. PICK w \in D : WaitsFor(v, w)
  OBVIOUS
<1>16. Wants(MainLoop) \in Outer /\ Rank[Wants(MainLoop)] < Rank[Wants(v)]
  BY <1>13, <1>15, StreamingWait
<1>17. Rank[Wants(t)] < Rank[Wants(MainLoop)]
  BY <1>9, <1>11, <1>12, <1>16, MainLoopWait
<1>18. Rank[Wants(MainLoop)] \in 1..4
  BY <1>13, RankAssumption
<1> QED BY <1>6, <1>7, <1>14, <1>16, <1>17, <1>18

-----------------------------------------------------------------------------
\* Guards are mutually exclusive, and call objects private until asked for.
THEOREM SpecInv == Spec => []Inv
  BY InitInv, NextInv, PTL DEF Spec

(***************************************************************************)
(* No circular wait, for any number of threads, locks and calls, and for   *)
(* all lock programs which keep to the discipline.                         *)
(***************************************************************************)
THEOREM DeadlockFree == Spec => []NoCircularWait
  BY SpecInv, InvNoCircle, PTL

\* Two threads never are in guarded sections of the same data.
THEOREM GuardsExclude == Spec => []Exclusive
<1>1. Inv => Exclusive
  BY DEF Inv
<1> QED BY <1>1, SpecInv, PTL
=============================================================================
