------------------------- MODULE OneShotGetsProofs -------------------------
(***************************************************************************)
(* Proofs about OneShotGets, for any finite set of queries and any numbers *)
(* of gets, of changes of the data, of upsets and of responses under way.  *)
(*                                                                         *)
(* The first part is about types, requests and assertions; the second      *)
(* proves that what a get is given is right: the data as it was at some    *)
(* time, and where it is said to be synchronised, not from before the      *)
(* call, but for the case that FreshAnswer is about.                       *)
(***************************************************************************)
EXTENDS OneShotGets, FiniteSetTheorems, WellFoundedInduction, TLAPS

-----------------------------------------------------------------------------
(* Counting the messages of a kind *)

LEMMA ElementOf ==
  ASSUME NEW S, NEW s \in Seq(S), NEW i \in DOMAIN s
  PROVE  s[i] \in S
OBVIOUS

Positions(s, T) == {i \in DOMAIN s : s[i] \in T}

LEMMA PositionsFinite ==
  ASSUME NEW S, NEW s \in Seq(S), NEW T
  PROVE  IsFiniteSet(Positions(s, T)) /\ Cardinality(Positions(s, T)) \in Nat
<1>1. Positions(s, T) \subseteq 1..Len(s) /\ Len(s) \in Int
  BY DEF Positions
<1>2. IsFiniteSet(1..Len(s))
  BY <1>1, FS_Interval
<1> QED
  BY <1>1, <1>2, FS_Subset, FS_CardinalityType

LEMMA NoPositions ==
  ASSUME NEW T
  PROVE  Cardinality(Positions(<<>>, T)) = 0
<1>1. Positions(<<>>, T) = {}
  BY DEF Positions
<1> QED
  BY <1>1, FS_EmptySet

LEMMA PositionsAppend ==
  ASSUME NEW S, NEW s \in Seq(S), NEW e, NEW T
  PROVE  Cardinality(Positions(Append(s, e), T)) =
           Cardinality(Positions(s, T)) + IF e \in T THEN 1 ELSE 0
<1> DEFINE n == Len(s) + 1
<1>1. /\ n \notin Positions(s, T) /\ Len(s) \in Nat
      /\ Positions(Append(s, e), T) =
           IF e \in T THEN Positions(s, T) \cup {n} ELSE Positions(s, T)
  BY DEF Positions
<1> HIDE DEF n
<1>2. IsFiniteSet(Positions(s, T)) /\ Cardinality(Positions(s, T)) \in Nat
  BY PositionsFinite
<1>3. Cardinality(Positions(s, T) \cup {n}) = Cardinality(Positions(s, T)) + 1
  BY <1>1, <1>2, FS_AddElement
<1> QED
  BY <1>1, <1>2, <1>3

LEMMA PositionsTail ==
  ASSUME NEW S, NEW s \in Seq(S), s # <<>>, NEW T
  PROVE  Cardinality(Positions(s, T)) =
           Cardinality(Positions(Tail(s), T)) + IF Head(s) \in T THEN 1 ELSE 0
<1> DEFINE A == Positions(Tail(s), T)
           B == Positions(s, T) \ {1}
           f == [i \in A |-> i + 1]
<1>1. /\ Len(s) \in Nat \ {0} /\ DOMAIN s = 1..Len(s) /\ Head(s) = s[1]
      /\ Tail(s) \in Seq(S) /\ DOMAIN Tail(s) = 1..(Len(s) - 1)
      /\ \A i \in 1..(Len(s) - 1) : Tail(s)[i] = s[i + 1]
  OBVIOUS
<1>2. f \in Bijection(A, B)
  <2>1. \A i \in A : i \in Int /\ i + 1 \in B
    BY <1>1 DEF Positions
  <2>2. \A j \in B : j - 1 \in A /\ (j - 1) + 1 = j
    BY <1>1 DEF Positions
  <2> HIDE DEF A, B
  <2>3. f \in [A -> B]
    BY <2>1
  <2>4. \A i, k \in A : f[i] = f[k] => i = k
    BY <2>1
  <2>5. \A j \in B : \E i \in A : f[i] = j
    BY <2>2
  <2>6. DOMAIN f = A
    OBVIOUS
  <2> HIDE DEF f
  <2> QED
    BY <2>3, <2>4, <2>5, <2>6 DEF Bijection, Injection, Surjection, IsInjective
<1>3. IsFiniteSet(A) /\ IsFiniteSet(Positions(s, T)) /\ Cardinality(A) \in Nat
      /\ Cardinality(Positions(s, T)) \in Nat
  BY <1>1, PositionsFinite
<1>4. Cardinality(B) = Cardinality(A)
  <2> HIDE DEF A, B, f
  <2>1. ExistsBijection(A, B)
    BY <1>2 DEF ExistsBijection
  <2> QED
    BY <1>3, <2>1, FS_Bijection
<1>5. Cardinality(B) = IF 1 \in Positions(s, T) THEN Cardinality(Positions(s, T)) - 1
                                                ELSE Cardinality(Positions(s, T))
  BY <1>3, FS_RemoveElement
<1>6. 1 \in Positions(s, T) <=> Head(s) \in T
  BY <1>1 DEF Positions
<1> QED
  BY <1>3, <1>4, <1>5, <1>6

LEMMA PositionsOne ==
  ASSUME NEW s, NEW T, NEW k, Positions(s, T) = {k}
  PROVE  Cardinality(Positions(s, T)) = 1
BY FS_Singleton

\* Gets asked before have a first among them.
LEMMA MinOf ==
  ASSUME NEW T \in SUBSET Nat, T # {}
  PROVE  Min(T) \in T
<1>1. PICK x \in T : \A y \in T : ~(<<y, x>> \in OpToRel(<, Nat))
  BY NatLessThanWellFounded, WFMin
<1>2. \A u, v \in Nat : u < v => <<u, v>> \in OpToRel(<, Nat)
  BY DEF OpToRel
<1>3. \A y \in T : ~(y < x)
  BY <1>1, <1>2
<1>4. \A y \in T : x <= y
  BY <1>3
<1> QED
  BY <1>4 DEF Min

-----------------------------------------------------------------------------
(* The watch stream *)

RequestsFor(q) == {m \in Request : m.q = q}
AcksFor(q)     == {m \in Response : m.kind = "ack" /\ m.q = q}

\* A target's pending requests are those whose acknowledgement has not been read.
PendingRight(s) ==
  \A q \in Query :
    s.targets[q].pending = Cardinality(Positions(s.out, RequestsFor(q)))
                             + Cardinality(Positions(s.in, AcksFor(q)))

StreamInv(s) ==
  /\ s \in Stream
  /\ PendingRight(s)
  /\ s.state # "Open" => s.out = <<>> /\ s.in = <<>>

LEMMA PendingCounted ==
  ASSUME NEW s \in Stream, NEW q \in Query
  PROVE  /\ Positions(s.out, RequestsFor(q)) = {i \in DOMAIN s.out : s.out[i].q = q}
         /\ Positions(s.in, AcksFor(q)) =
              {i \in DOMAIN s.in : s.in[i].kind = "ack" /\ s.in[i].q = q}
<1>1. s.out \in Seq(Request) /\ s.in \in Seq(Response)
  BY DEF Stream
<1>2. \A i \in DOMAIN s.out : s.out[i] \in Request
  BY <1>1
<1>3. \A i \in DOMAIN s.in : s.in[i] \in Response
  BY <1>1
<1> QED
  BY <1>2, <1>3 DEF Positions, RequestsFor, AcksFor

LEMMA ClosedInv == StreamInv(Closed)
<1>1. 0 \in Version
  BY GetsAssumption DEF Version
<1>2. [q \in Query |-> NoTarget] \in [Query -> TargetState]
  BY <1>1 DEF NoTarget, TargetState
<1>3. [q \in Query |-> Unserved] \in
        [Query -> [phase : {"None", "Added", "Current"}, sent : Version, since : Version]]
  BY <1>1 DEF Unserved
<1>4. [q \in Query |-> {}] \in [Query -> SUBSET Commit]
  OBVIOUS
<1>5. <<>> \in Seq(Request) /\ <<>> \in Seq(Response)
  OBVIOUS
<1>6. Closed \in Stream
  BY <1>1, <1>2, <1>3, <1>4, <1>5 DEF Closed, Stream
<1>7. PendingRight(Closed)
  <2>1. \A q \in Query : Closed.targets[q].pending = 0
    BY DEF Closed, NoTarget
  <2>2. Closed.out = <<>> /\ Closed.in = <<>>
    BY DEF Closed
  <2> QED
    BY <2>1, <2>2, NoPositions DEF PendingRight
<1>8. Closed.out = <<>> /\ Closed.in = <<>>
  BY DEF Closed
<1> QED
  BY <1>6, <1>7, <1>8 DEF StreamInv

LEMMA ClosedWith ==
  ASSUME NEW st \in {"Initial", "Error"}, NEW h \in [Query -> Version],
         NEW c, c = [Closed EXCEPT !.state = st, !.held = h]
  PROVE  StreamInv(c) /\ c.state = st /\ c.idle = FALSE
<1>1. StreamInv(Closed) /\ Closed.out = <<>> /\ Closed.in = <<>> /\ Closed.idle = FALSE
  BY ClosedInv DEF Closed
<1> HIDE DEF Closed
<1> QED
  BY <1>1 DEF StreamInv, Stream, PendingRight

LEMMA CloseInv ==
  ASSUME NEW s, StreamInv(s), NEW graceful \in BOOLEAN
  PROVE  /\ StreamInv(Close(s, graceful))
         /\ ~IsStarted(Close(s, graceful)) /\ ~Close(s, graceful).idle
<1>1. s.held \in [Query -> Version]
  BY DEF StreamInv, Stream
<1>2. PICK st \in {"Initial", "Error"} :
        Close(s, graceful) = [Closed EXCEPT !.state = st, !.held = s.held]
  BY DEF Close
<1>3. /\ StreamInv(Close(s, graceful))
      /\ Close(s, graceful).state = st
      /\ Close(s, graceful).idle = FALSE
  BY <1>1, <1>2, ClosedWith
<1> QED
  BY <1>3 DEF IsStarted

LEMMA StartInv ==
  ASSUME NEW s, StreamInv(s), ~IsStarted(s)
  PROVE  /\ StreamInv(Start(s))
         /\ IsStarted(Start(s)) /\ Start(s).idle = s.idle
<1>1. s \in Stream /\ s.out = <<>> /\ s.in = <<>>
  BY DEF StreamInv, IsStarted
<1>2. /\ Start(s).state \in {"Starting", "Backoff"} /\ Start(s).idle = s.idle
      /\ Start(s).out = s.out /\ Start(s).in = s.in /\ Start(s).targets = s.targets
      /\ Start(s) \in Stream
  BY <1>1 DEF Start, Stream
<1>3. PendingRight(Start(s))
  BY <1>2 DEF StreamInv, PendingRight
<1> QED
  BY <1>1, <1>2, <1>3 DEF StreamInv, IsStarted

\* Sending one request for q.
LEMMA SendInv ==
  ASSUME NEW s, StreamInv(s), s.state = "Open", NEW q \in Query,
         NEW m \in Request, m.q = q, NEW idle \in BOOLEAN
  PROVE  StreamInv([s EXCEPT !.targets[q].pending = @ + 1, !.idle = idle, !.out = Append(@, m)])
<1> DEFINE t == [s EXCEPT !.targets[q].pending = @ + 1, !.idle = idle, !.out = Append(@, m)]
<1>1. s \in Stream
  BY DEF StreamInv
<1>2. s.targets \in [Query -> TargetState] /\ s.out \in Seq(Request)
  BY <1>1 DEF Stream
<1>3. /\ [s.targets EXCEPT ![q].pending = @ + 1] \in [Query -> TargetState]
      /\ Append(s.out, m) \in Seq(Request)
  BY <1>2 DEF TargetState
<1>4. /\ t.targets = [s.targets EXCEPT ![q].pending = @ + 1]
      /\ t.out = Append(s.out, m) /\ t.in = s.in /\ t.state = s.state
  BY <1>1 DEF Stream
<1>5. t = [s EXCEPT !.targets = t.targets, !.idle = idle, !.out = t.out]
  BY <1>1 DEF Stream
<1>6. t \in Stream
  <2> DEFINE ts == t.targets
             o  == t.out
  <2>1. ts \in [Query -> TargetState] /\ o \in Seq(Request)
    BY <1>3, <1>4
  <2>2. t = [s EXCEPT !.targets = ts, !.idle = idle, !.out = o]
    BY <1>5
  <2> HIDE DEF ts, o, t
  <2> QED
    BY <1>1, <2>1, <2>2 DEF Stream
<1> HIDE DEF t
<1>7. ASSUME NEW p \in Query
      PROVE  t.targets[p].pending = Cardinality(Positions(t.out, RequestsFor(p)))
                                      + Cardinality(Positions(t.in, AcksFor(p)))
  <2>1. s.targets[p].pending = Cardinality(Positions(s.out, RequestsFor(p)))
                                 + Cardinality(Positions(s.in, AcksFor(p)))
    BY DEF StreamInv, PendingRight
  <2>2. Cardinality(Positions(t.out, RequestsFor(p))) =
          Cardinality(Positions(s.out, RequestsFor(p))) + IF m \in RequestsFor(p) THEN 1 ELSE 0
    BY <1>2, <1>4, PositionsAppend
  <2>3. m \in RequestsFor(p) <=> p = q
    BY DEF RequestsFor
  <2>4. t.targets[p].pending = IF p = q THEN s.targets[p].pending + 1 ELSE s.targets[p].pending
    BY <1>2, <1>4 DEF TargetState
  <2>5. /\ Cardinality(Positions(s.out, RequestsFor(p))) \in Nat
        /\ Cardinality(Positions(s.in, AcksFor(p))) \in Nat
    <3>1. s.in \in Seq(Response)
      BY <1>1 DEF Stream
    <3> QED
      BY <1>2, <3>1, PositionsFinite
  <2> QED
    BY <1>4, <2>1, <2>2, <2>3, <2>4, <2>5
<1> QED
  BY <1>4, <1>6, <1>7 DEF StreamInv, PendingRight, t

LEMMA SendWatchInv ==
  ASSUME NEW s, StreamInv(s), s.state = "Open", NEW q \in Query
  PROVE  /\ StreamInv(SendWatch(s, q))
         /\ SendWatch(s, q).state = "Open" /\ ~SendWatch(s, q).idle
<1>1. [kind |-> "watch", q |-> q, token |-> s.held[q]] \in Request
  BY DEF StreamInv, Stream, Request
<1>2. StreamInv(SendWatch(s, q))
  BY <1>1, SendInv DEF SendWatch
<1>3. s \in Stream
  BY DEF StreamInv
<1> QED
  BY <1>2, <1>3 DEF SendWatch, Stream

LEMMA IdleInv ==
  ASSUME NEW s, StreamInv(s), NEW idle \in BOOLEAN
  PROVE  /\ StreamInv([s EXCEPT !.idle = idle])
         /\ [s EXCEPT !.idle = idle].state = s.state
         /\ [s EXCEPT !.idle = idle].idle = idle
BY DEF StreamInv, Stream, PendingRight

LEMMA SendUnwatchInv ==
  ASSUME NEW s, StreamInv(s), s.state = "Open", NEW q \in Query
  PROVE  StreamInv(SendUnwatch(s, q)) /\ SendUnwatch(s, q).state = "Open"
<1>1. [kind |-> "unwatch", q |-> q] \in Request
  BY DEF Request
<1>2. StreamInv(SendUnwatch(s, q))
  BY <1>1, SendInv DEF SendUnwatch
<1>3. s \in Stream
  BY DEF StreamInv
<1> QED
  BY <1>2, <1>3 DEF SendUnwatch, Stream

LEMMA StopListeningInv ==
  ASSUME NEW s, StreamInv(s), NEW q \in Query, NEW left \in BOOLEAN
  PROVE  /\ StreamInv(StopListening(s, q, left))
         /\ StopListening(s, q, left).state = s.state
         /\ StopListening(s, q, left).idle => s.idle \/ (s.state = "Open" /\ ~left)
<1>1. CASE s.state # "Open"
  BY <1>1 DEF StopListening
<1>2. CASE s.state = "Open"
  <2> DEFINE u == SendUnwatch(s, q)
  <2>1. StreamInv(u) /\ u.state = "Open"
    BY <1>2, SendUnwatchInv
  <2>2. (~left) \in BOOLEAN
    OBVIOUS
  <2>3. StopListening(s, q, left) = [u EXCEPT !.idle = ~left]
    BY <1>2 DEF StopListening
  <2> HIDE DEF u
  <2> QED
    BY <1>2, <2>1, <2>2, <2>3, IdleInv
<1> QED
  BY <1>1, <1>2

\* The stream opens: one request for every target.
LEMMA OpenInv ==
  ASSUME NEW s, StreamInv(s), s.state = "Starting", ~s.idle,
         NEW order \in SetToSeqs({q \in Query : Active(q)})
  PROVE  /\ StreamInv(Open(s, order))
         /\ Open(s, order).state = "Open" /\ ~Open(s, order).idle
<1> DEFINE A  == {q \in Query : Active(q)}
           n  == Cardinality(A)
           t  == Open(s, order)
           ts == [q \in Query |-> IF Active(q) THEN [s.targets[q] EXCEPT !.pending = @ + 1]
                                              ELSE s.targets[q]]
           o  == [i \in DOMAIN order |->
                    [kind |-> "watch", q |-> order[i], token |-> s.held[order[i]]]]
<1>1. s \in Stream /\ s.out = <<>> /\ s.in = <<>> /\ PendingRight(s)
  BY DEF StreamInv
<1>2. A \subseteq Query /\ IsFiniteSet(A) /\ n \in Nat
  BY GetsAssumption, FS_Subset, FS_CardinalityType
<1>3. /\ order \in [1..n -> A]
      /\ \A i, j \in 1..n : order[i] = order[j] => i = j
  BY DEF SetToSeqs
<1>4. \A q \in A : \E i \in 1..n : order[i] = q
  <2>1. IsFiniteSet(1..n) /\ Cardinality(1..n) = n
    BY <1>2, FS_Interval
  <2> HIDE DEF A
  <2>2. order \in Injection(1..n, A)
    BY <1>3 DEF Injection, IsInjective
  <2>3. order \in Surjection(1..n, A)
    BY <1>2, <2>1, <2>2, FS_Injection
  <2> QED
    BY <2>3 DEF Surjection
<1>5. ts \in [Query -> TargetState] /\ \A q \in Query : ts[q].pending = IF q \in A THEN 1 ELSE 0
  <2>1. ASSUME NEW q \in Query PROVE s.targets[q] \in TargetState /\ s.targets[q].pending = 0
    BY <1>1, NoPositions DEF PendingRight, Stream
  <2> QED
    BY <2>1 DEF TargetState
<1>6. o \in Seq(Request)
  <2>1. ASSUME NEW i \in 1..n
        PROVE  [kind |-> "watch", q |-> order[i], token |-> s.held[order[i]]] \in Request
    BY <1>1, <1>2, <1>3, <2>1 DEF Stream, Request
  <2> HIDE DEF n
  <2> QED
    BY <1>2, <1>3, <2>1
<1>7. /\ t.state = "Open" /\ t.idle = s.idle /\ t.out = o /\ t.in = <<>> /\ t.targets = ts
      /\ t = [s EXCEPT !.state = "Open", !.targets = ts, !.out = o]
  BY <1>1 DEF Open, Stream
<1> HIDE DEF ts, o
<1>8. t \in Stream
  <2> HIDE DEF t
  <2> QED
    BY <1>1, <1>5, <1>6, <1>7 DEF Stream
<1>9. ASSUME NEW q \in Query
      PROVE  Cardinality(Positions(o, RequestsFor(q))) = IF q \in A THEN 1 ELSE 0
  <2>1. DOMAIN o = 1..n
    BY <1>3 DEF o
  <2>2. ASSUME NEW i \in 1..n PROVE o[i] \in Request /\ o[i].q = order[i]
    <3>1. o[i] = [kind |-> "watch", q |-> order[i], token |-> s.held[order[i]]]
      BY <1>3, <2>2 DEF o
    <3>2. i \in DOMAIN o
      BY <2>1, <2>2
    <3>3. o[i] \in Request
      BY <1>6, <3>2, ElementOf
    <3> QED
      BY <3>1, <3>3
  <2> HIDE DEF n, A
  <2>3. CASE q \in A
    <3>1. PICK i \in 1..n : order[i] = q
      BY <1>4, <2>3
    <3>2. Positions(o, RequestsFor(q)) = {i}
      BY <1>3, <2>1, <2>2, <3>1 DEF Positions, RequestsFor
    <3> QED
      BY <2>3, <3>2, PositionsOne
  <2>4. CASE q \notin A
    <3>1. Positions(o, RequestsFor(q)) = {}
      BY <1>3, <2>1, <2>2, <2>4 DEF Positions, RequestsFor
    <3> QED
      BY <2>4, <3>1, FS_EmptySet
  <2> QED
    BY <2>3, <2>4
<1> HIDE DEF t, A
<1>10. PendingRight(t)
  BY <1>5, <1>7, <1>9, NoPositions DEF PendingRight
<1> QED
  BY <1>7, <1>8, <1>10 DEF StreamInv, t

\* The backend answers: a request leaves, a response is on its way.
LEMMA RespondInv ==
  ASSUME NEW s, StreamInv(s), NEW t \in Stream, t.targets = s.targets,
         t.state = s.state, s.state = "Open",
         NEW m \in Response, t.in = Append(s.in, m),
         \/ t.out = s.out /\ m.kind # "ack"
         \/ /\ s.out # <<>> /\ t.out = Tail(s.out)
            /\ m.kind = "ack" /\ m.q = Head(s.out).q
  PROVE  StreamInv(t)
<1>1. s.out \in Seq(Request) /\ s.in \in Seq(Response)
  BY DEF StreamInv, Stream
<1>2. ASSUME NEW q \in Query
      PROVE  t.targets[q].pending = Cardinality(Positions(t.out, RequestsFor(q)))
                                      + Cardinality(Positions(t.in, AcksFor(q)))
  <2> DEFINE outs == Cardinality(Positions(s.out, RequestsFor(q)))
             ins  == Cardinality(Positions(s.in, AcksFor(q)))
  <2>1. outs \in Nat /\ ins \in Nat /\ s.targets[q].pending = outs + ins
    BY <1>1, PositionsFinite DEF StreamInv, PendingRight
  <2>2. Cardinality(Positions(t.in, AcksFor(q))) = ins + IF m \in AcksFor(q) THEN 1 ELSE 0
    BY <1>1, PositionsAppend
  <2>3. CASE t.out = s.out /\ m.kind # "ack"
    BY <2>1, <2>2, <2>3 DEF AcksFor
  <2>4. CASE /\ s.out # <<>> /\ t.out = Tail(s.out)
             /\ m.kind = "ack" /\ m.q = Head(s.out).q
    <3>1. outs = Cardinality(Positions(t.out, RequestsFor(q)))
                   + IF Head(s.out) \in RequestsFor(q) THEN 1 ELSE 0
      BY <1>1, <2>4, PositionsTail
    <3>2. t.out \in Seq(Request) /\ Head(s.out) \in Request
      BY <1>1, <2>4
    <3>3. Cardinality(Positions(t.out, RequestsFor(q))) \in Nat
      BY <3>2, PositionsFinite
    <3>4. m \in AcksFor(q) <=> Head(s.out) \in RequestsFor(q)
      BY <2>4, <3>2 DEF AcksFor, RequestsFor
    <3> HIDE DEF outs, ins
    <3> QED
      BY <2>1, <2>2, <3>1, <3>3, <3>4
  <2> QED
    BY <2>3, <2>4
<1> QED
  BY <1>2 DEF StreamInv, PendingRight

\* The client reads a response, and counts it down if it is an acknowledgement.
LEMMA ReadInv ==
  ASSUME NEW s, StreamInv(s), s.in # <<>>, NEW t \in Stream,
         t.state = s.state, t.out = s.out, t.in = Tail(s.in),
         \A q \in Query :
           t.targets[q].pending = s.targets[q].pending
                                    - IF Head(s.in) \in AcksFor(q) THEN 1 ELSE 0
  PROVE  StreamInv(t)
<1>1. s.out \in Seq(Request) /\ s.in \in Seq(Response)
  BY DEF StreamInv, Stream
<1>2. ASSUME NEW q \in Query
      PROVE  t.targets[q].pending = Cardinality(Positions(t.out, RequestsFor(q)))
                                      + Cardinality(Positions(t.in, AcksFor(q)))
  <2> DEFINE outs == Cardinality(Positions(s.out, RequestsFor(q)))
             ins  == Cardinality(Positions(s.in, AcksFor(q)))
             rest == Cardinality(Positions(t.in, AcksFor(q)))
  <2>1. outs \in Nat /\ ins \in Nat /\ s.targets[q].pending = outs + ins
    BY <1>1, PositionsFinite DEF StreamInv, PendingRight
  <2>2. ins = rest + IF Head(s.in) \in AcksFor(q) THEN 1 ELSE 0
    BY <1>1, PositionsTail
  <2>3. rest \in Nat
    <3>1. t.in \in Seq(Response)
      BY <1>1
    <3> QED
      BY <3>1, PositionsFinite
  <2> HIDE DEF outs, ins, rest
  <2>4. t.targets[q].pending = outs + rest
    BY <2>1, <2>2, <2>3
  <2> QED
    BY <2>4 DEF outs, rest
<1>3. s.state = "Open"
  BY DEF StreamInv
<1> QED
  BY <1>2, <1>3 DEF StreamInv, PendingRight

\* A target whose acknowledgement arrives has a request pending.
LEMMA AckIsAwaited ==
  ASSUME NEW s, StreamInv(s), s.in # <<>>, NEW q \in Query, Head(s.in) \in AcksFor(q)
  PROVE  s.targets[q].pending > 0
<1>1. s.out \in Seq(Request) /\ s.in \in Seq(Response) /\ Tail(s.in) \in Seq(Response)
  BY DEF StreamInv, Stream
<1> DEFINE outs == Cardinality(Positions(s.out, RequestsFor(q)))
           ins  == Cardinality(Positions(s.in, AcksFor(q)))
           rest == Cardinality(Positions(Tail(s.in), AcksFor(q)))
<1>2. outs \in Nat /\ rest \in Nat /\ s.targets[q].pending = outs + ins
  BY <1>1, PositionsFinite DEF StreamInv, PendingRight
<1>3. ins = rest + 1
  BY <1>1, PositionsTail
<1> HIDE DEF outs, ins, rest
<1> QED
  BY <1>2, <1>3

-----------------------------------------------------------------------------
(* The inductive invariant *)

ViewRecord   == [current : BOOLEAN, data : SUBSET Commit]
OnlineRecord == [state : {"Unknown", "Online", "Offline"}, failed : BOOLEAN, timer : BOOLEAN]

OnlineInv(o, s, active) ==
  /\ o.timer => o.state = "Unknown" /\ IsStarted(s)
  /\ o.state = "Online" => ~o.failed
  /\ s.idle => s.state = "Open" /\ ~active

\* Listeners, tasks, events and answers are of gets that were asked.
GetsInv ==
  /\ Len(asked) <= MaxGets
  /\ \A q \in Query : \A g \in listeners[q] : g \in DOMAIN asked /\ asked[g] = q
  /\ \A i \in DOMAIN tasks : tasks[i].kind # "credential" => tasks[i].g \in DOMAIN asked
  /\ \A g \in Get : events[g] # <<>> \/ answers[g] # <<>> => g \in DOMAIN asked

IInv ==
  /\ TypeOK
  /\ StreamInv(stream)
  /\ OnlineInv(online, stream, AnyActive)
  /\ GetsInv
  /\ AnsweredOnce

LEMMA AssertionsFromInv == IInv => AssertionsHold
<1> SUFFICES ASSUME IInv PROVE AssertionsHold
  OBVIOUS
<1>1. stream \in Stream /\ PendingRight(stream) /\ OnlineInv(online, stream, AnyActive)
  BY DEF IInv, StreamInv
<1>2. \A q \in Query :
        stream.targets[q].pending =
          Cardinality({i \in DOMAIN stream.out : stream.out[i].q = q})
            + Cardinality({i \in DOMAIN stream.in : stream.in[i].kind = "ack"
                                                     /\ stream.in[i].q = q})
  BY <1>1, PendingCounted DEF PendingRight
<1> QED
  BY <1>1, <1>2 DEF AssertionsHold, OnlineInv

LEMMA InvInit == Init => IInv
<1> SUFFICES ASSUME Init PROVE IInv
  OBVIOUS
<1>1. 0 \in Version /\ 0 \in 0..MaxUpsets
  BY GetsAssumption DEF Version
<1>2. StreamInv(stream) /\ ~stream.idle
  BY ClosedInv DEF Init, Closed
<1>3. online \in OnlineRecord /\ ~online.timer /\ online.state = "Unknown"
  BY DEF Init, UpdateState, OnlineRecord
<1>4. GetsInv /\ AnsweredOnce
  BY GetsAssumption DEF Init, GetsInv, AnsweredOnce
<1>5. TypeOK
  <2>1. stream \in Stream
    BY <1>2 DEF StreamInv
  <2>2. view \in [Query -> ViewRecord]
    BY DEF Init, NoView, ViewRecord
  <2>3. events \in [Get -> Seq(Snapshot)] /\ answers \in [Get -> Seq(Snapshot)]
    BY DEF Init
  <2> QED
    BY <1>1, <1>3, <2>1, <2>2, <2>3 DEF Init, TypeOK, OnlineRecord, ViewRecord
<1> QED
  BY <1>2, <1>3, <1>4, <1>5 DEF IInv, OnlineInv

\* Snapshots for listeners of gets that were asked.
LEMMA PublishType ==
  ASSUME TypeOK, GetsInv, NEW vs \in [Query -> ViewRecord], NEW o \in OnlineRecord,
         Publish(vs, o)
  PROVE  /\ view' = vs /\ online' = o
         /\ events' \in [Get -> Seq(Snapshot)]
         /\ \A g \in Get : events'[g] # <<>> => g \in DOMAIN asked
<1>1. ASSUME NEW g \in Get
      PROVE  events'[g] \in Seq(Snapshot) /\ (events'[g] # <<>> => g \in DOMAIN asked)
  <2>1. events[g] \in Seq(Snapshot) /\ (events[g] # <<>> => g \in DOMAIN asked)
    BY DEF TypeOK, GetsInv
  <2>2. \/ events'[g] = events[g]
        \/ /\ \E q \in Query : g \in listeners[q]
           /\ events'[g] = Append(events[g], Event(vs[asked[g]]))
    BY DEF Publish
  <2>3. ASSUME NEW q \in Query, g \in listeners[q],
               events'[g] = Append(events[g], Event(vs[asked[g]]))
        PROVE  events'[g] \in Seq(Snapshot) /\ g \in DOMAIN asked
    <3>1. g \in DOMAIN asked /\ asked[g] = q
      BY <2>3 DEF GetsInv
    <3>2. Event(vs[q]) \in Snapshot
      BY DEF Event, ViewRecord, Snapshot
    <3> QED
      BY <2>1, <2>3, <3>1, <3>2
  <2> QED
    BY <2>1, <2>2, <2>3
<1>2. DOMAIN events' = Get /\ events' = [g \in Get |-> events'[g]]
  BY DEF Publish
<1> QED
  BY <1>1, <1>2 DEF Publish

LEMMA SetOnlineIs ==
  ASSUME TypeOK, NEW o, SetOnline(o)
  PROVE  \E vs \in [Query -> ViewRecord] : Publish(vs, o)
<1>1. view \in [Query -> ViewRecord]
  BY DEF TypeOK, ViewRecord
<1>2. [q \in Query |-> [view[q] EXCEPT !.current = FALSE]] \in [Query -> ViewRecord]
  BY <1>1 DEF ViewRecord
<1> QED
  BY <1>1, <1>2 DEF SetOnline

\* A step of the stream alone.
LEMMA StreamOnlyInv ==
  ASSUME IInv,
         UNCHANGED <<version, appVars, tasks, userVars, answers, diskVars, online, hasty, gone>>,
         upsets' \in 0..MaxUpsets, StreamInv(stream'),
         IsStarted(stream) => IsStarted(stream'),
         stream'.idle => stream.idle /\ stream'.state = "Open"
  PROVE  IInv'
<1>1. TypeOK'
  BY DEF IInv, TypeOK, StreamInv, appVars, userVars, diskVars
<1>2. OnlineInv(online, stream, AnyActive)'
  BY DEF IInv, OnlineInv, AnyActive, Active, userVars
<1>3. GetsInv' /\ AnsweredOnce'
  BY DEF IInv, GetsInv, AnsweredOnce, appVars, userVars
<1> QED
  BY <1>1, <1>2, <1>3 DEF IInv

\* A step of RemoteStore: stream, online state, views and perhaps the disk.
LEMMA RemoteInv ==
  ASSUME IInv,
         UNCHANGED <<version, appVars, listeners, answers, hasty, gone>>,
         upsets' \in 0..MaxUpsets,
         tasks' = tasks \/ (tasks # <<>> /\ tasks' = Tail(tasks)),
         cache' \in [Query -> SUBSET Commit], token' \in [Query -> Version],
         lastSnapshot' \in Version,
         NEW vs \in [Query -> ViewRecord], NEW o \in OnlineRecord, Publish(vs, o),
         StreamInv(stream'), OnlineInv(o, stream', AnyActive)
  PROVE  IInv'
<1>1. TypeOK /\ GetsInv /\ AnsweredOnce
  BY DEF IInv
<1>2. /\ view' = vs /\ online' = o /\ events' \in [Get -> Seq(Snapshot)]
      /\ \A g \in Get : events'[g] # <<>> => g \in DOMAIN asked
  BY <1>1, PublishType
<1>3. /\ tasks' \in Seq(Task)
      /\ \A i \in DOMAIN tasks' : tasks'[i].kind # "credential" => tasks'[i].g \in DOMAIN asked
  <2>1. tasks \in Seq(Task)
    BY <1>1 DEF TypeOK
  <2>2. \A i \in DOMAIN tasks : tasks[i].kind # "credential" => tasks[i].g \in DOMAIN asked
    BY <1>1 DEF GetsInv
  <2>3. CASE tasks # <<>> /\ tasks' = Tail(tasks)
    <3>1. tasks' \in Seq(Task)
      BY <2>1, <2>3
    <3>2. \A i \in DOMAIN tasks' : i + 1 \in DOMAIN tasks /\ tasks'[i] = tasks[i + 1]
      BY <2>1, <2>3
    <3> QED
      BY <2>2, <3>1, <3>2
  <2> QED
    BY <2>1, <2>2, <2>3
<1>4. TypeOK'
  <2>1. stream' \in Stream
    BY DEF StreamInv
  <2> QED
    BY <1>1, <1>2, <1>3, <2>1 DEF TypeOK, appVars, ViewRecord, OnlineRecord
<1>5. OnlineInv(online, stream, AnyActive)'
  BY <1>2 DEF OnlineInv, AnyActive, Active
<1>6. GetsInv'
  BY <1>1, <1>2, <1>3 DEF GetsInv, appVars, TypeOK
<1>7. AnsweredOnce'
  BY <1>1 DEF AnsweredOnce
<1> QED
  BY <1>4, <1>5, <1>6, <1>7 DEF IInv

-----------------------------------------------------------------------------
(* The app, Firebase Auth, and the end of the process *)

\* The front of the worker queue.
LEMMA FrontTask ==
  ASSUME IInv, tasks # <<>>
  PROVE  /\ Head(tasks) \in Task /\ Tail(tasks) \in Seq(Task)
         /\ Head(tasks).kind # "credential" =>
              /\ Head(tasks).g \in Get /\ Head(tasks).g \in DOMAIN asked
              /\ asked[Head(tasks).g] \in Query
         /\ \A i \in DOMAIN Tail(tasks) : Tail(tasks)[i].kind # "credential" =>
              Tail(tasks)[i].g \in DOMAIN asked
<1>1. tasks \in Seq(Task) /\ asked \in Seq(Query)
  BY DEF IInv, TypeOK
<1>2. /\ Head(tasks) = tasks[1] /\ 1 \in DOMAIN tasks /\ Tail(tasks) \in Seq(Task)
      /\ \A i \in DOMAIN Tail(tasks) : i + 1 \in DOMAIN tasks /\ Tail(tasks)[i] = tasks[i + 1]
  BY <1>1
<1>3. \A i \in DOMAIN tasks : tasks[i].kind # "credential" => tasks[i].g \in DOMAIN asked
  BY DEF IInv, GetsInv
<1>4. Head(tasks) \in Task
  BY <1>1, <1>2, ElementOf
<1>5. Head(tasks).kind # "credential" => Head(tasks).g \in Get
  BY <1>4 DEF Task
<1>6. \A g \in DOMAIN asked : asked[g] \in Query
  BY <1>1, ElementOf
<1> QED
  BY <1>2, <1>3, <1>4, <1>5, <1>6

LEMMA EnqueueTask ==
  ASSUME NEW s \in Seq(Task), NEW e \in Task
  PROVE  /\ Append(s, e) \in Seq(Task)
         /\ \A i \in DOMAIN Append(s, e) :
              (i \in DOMAIN s /\ Append(s, e)[i] = s[i]) \/ Append(s, e)[i] = e
OBVIOUS

LEMMA AskInv ==
  ASSUME IInv, NEW q \in Query, Ask(q)
  PROVE  IInv'
<1> DEFINE others == {g \in Unanswered : asked[g] = q}
           v == IF others = {} THEN version ELSE floor[Min(others)]
           e == [kind |-> "listen", g |-> Len(asked) + 1]
<1>0. TypeOK /\ GetsInv /\ Len(asked) < MaxGets
  BY DEF IInv, Ask
<1>1. /\ asked \in Seq(Query) /\ floor \in Seq(Version) /\ Len(asked) = Len(floor)
      /\ tasks \in Seq(Task) /\ version \in Version /\ MaxGets \in Nat
  BY <1>0, GetsAssumption DEF TypeOK
<1>2. v \in Version
  <2>1. others \subseteq DOMAIN asked /\ DOMAIN asked = DOMAIN floor /\ DOMAIN asked \subseteq Nat
    BY <1>1 DEF Unanswered
  <2> HIDE DEF others
  <2>2. CASE others # {}
    <3>1. Min(others) \in DOMAIN floor
      BY <2>1, <2>2, MinOf
    <3>2. floor[Min(others)] \in Version
      BY <1>1, <3>1, ElementOf
    <3> QED
      BY <2>2, <3>2
  <2> QED
    BY <1>1, <2>2
<1>3. e \in Task /\ e.g = Len(asked) + 1
  BY <1>0, <1>1 DEF Task, Get
<1>4. /\ asked' = Append(asked, q) /\ floor' = Append(floor, v) /\ tasks' = Append(tasks, e)
      /\ UNCHANGED <<version, userVars, answers, diskVars, online, stream, upsets, hasty, gone>>
  BY DEF Ask
<1> HIDE DEF v, e
<1>5. /\ asked' \in Seq(Query) /\ floor' \in Seq(Version) /\ Len(asked') = Len(floor')
      /\ \A g \in DOMAIN asked : g \in DOMAIN asked' /\ asked'[g] = asked[g]
      /\ Len(asked) + 1 \in DOMAIN asked'
  BY <1>1, <1>2, <1>4
<1>6. /\ tasks' \in Seq(Task)
      /\ \A i \in DOMAIN tasks' : tasks'[i].kind # "credential" => tasks'[i].g \in DOMAIN asked'
  <2>1. \A i \in DOMAIN tasks : tasks[i].kind # "credential" => tasks[i].g \in DOMAIN asked
    BY <1>0 DEF GetsInv
  <2>2. /\ tasks' \in Seq(Task)
        /\ \A i \in DOMAIN tasks' : (i \in DOMAIN tasks /\ tasks'[i] = tasks[i]) \/ tasks'[i] = e
    BY <1>1, <1>3, <1>4, EnqueueTask
  <2> QED
    BY <1>3, <1>5, <2>1, <2>2
<1>7. TypeOK'
  BY <1>0, <1>4, <1>5, <1>6 DEF TypeOK, userVars, diskVars
<1>8. GetsInv'
  <2>1. Len(asked') <= MaxGets
    BY <1>0, <1>1, <1>4
  <2> QED
    BY <1>0, <1>4, <1>5, <1>6, <2>1 DEF GetsInv, userVars
<1> QED
  BY <1>4, <1>7, <1>8 DEF IInv, OnlineInv, AnyActive, Active, AnsweredOnce, userVars

LEMMA DeliverInv ==
  ASSUME IInv, NEW g \in Get, Deliver(g)
  PROVE  IInv'
<1> DEFINE e == [kind |-> "unlisten", g |-> g]
<1>0. TypeOK /\ GetsInv /\ AnsweredOnce /\ events[g] # <<>>
  BY DEF IInv, Deliver
<1>1. /\ events \in [Get -> Seq(Snapshot)] /\ answers \in [Get -> Seq(Snapshot)]
      /\ tasks \in Seq(Task) /\ g \in DOMAIN asked /\ e \in Task
  BY <1>0 DEF TypeOK, GetsInv, Task
<1>2. /\ events' \in [Get -> Seq(Snapshot)]
      /\ \A h \in Get : events'[h] # <<>> => events[h] # <<>>
  <2>1. events[g] \in Seq(Snapshot) /\ Tail(events[g]) \in Seq(Snapshot)
    BY <1>0, <1>1
  <2> QED
    BY <1>0, <1>1, <2>1 DEF Deliver
<1>3. /\ answers' \in [Get -> Seq(Snapshot)]
      /\ \A h \in Get : answers'[h] # <<>> => answers[h] # <<>> \/ h = g
      /\ AnsweredOnce'
  <2>1. Head(events[g]) \in Snapshot
    <3>1. events[g] \in Seq(Snapshot) /\ events[g] # <<>>
      BY <1>0, <1>1
    <3> QED
      BY <3>1
  <2>2. <<Head(events[g])>> \in Seq(Snapshot) /\ Len(<<Head(events[g])>>) = 1
    BY <2>1
  <2>3. answers' = answers \/ answers' = [answers EXCEPT ![g] = <<Head(events[g])>>]
    BY DEF Deliver
  <2> DEFINE a == <<Head(events[g])>>
  <2> HIDE DEF a
  <2>4. answers' \in [Get -> Seq(Snapshot)]
    BY <1>1, <2>2, <2>3 DEF a
  <2>5. \A h \in Get : answers'[h] = answers[h] \/ (h = g /\ Len(answers'[h]) = 1)
    BY <1>1, <2>2, <2>3 DEF a
  <2>6. ASSUME NEW h \in Get PROVE Len(answers'[h]) <= 1
    <3>1. CASE answers'[h] = answers[h]
      BY <1>0, <2>6, <3>1 DEF AnsweredOnce
    <3>2. CASE Len(answers'[h]) = 1
      BY <3>2
    <3> QED
      BY <2>5, <2>6, <3>1, <3>2
  <2>7. AnsweredOnce'
    BY <2>6 DEF AnsweredOnce
  <2> QED
    BY <2>4, <2>5, <2>7
<1>4. /\ tasks' \in Seq(Task)
      /\ \A i \in DOMAIN tasks' : tasks'[i].kind # "credential" => tasks'[i].g \in DOMAIN asked
  <2>1. \A i \in DOMAIN tasks : tasks[i].kind # "credential" => tasks[i].g \in DOMAIN asked
    BY <1>0 DEF GetsInv
  <2>2. tasks' = tasks \/ tasks' = Append(tasks, e)
    BY DEF Deliver
  <2>3. e.g = g
    OBVIOUS
  <2> HIDE DEF e
  <2> QED
    BY <1>1, <2>1, <2>2, <2>3, EnqueueTask
<1>5. TypeOK'
  BY <1>0, <1>2, <1>3, <1>4 DEF TypeOK, Deliver, appVars, diskVars
<1>6. GetsInv'
  BY <1>0, <1>1, <1>2, <1>3, <1>4 DEF GetsInv, Deliver, appVars
<1>7. OnlineInv(online, stream, AnyActive)' /\ StreamInv(stream)'
  BY DEF IInv, Deliver, OnlineInv, AnyActive, Active
<1> QED
  BY <1>3, <1>5, <1>6, <1>7 DEF IInv

LEMMA UpsetType ==
  ASSUME TypeOK, Upset
  PROVE  upsets' \in 0..MaxUpsets
BY GetsAssumption DEF TypeOK, Upset

LEMMA CredentialChangesInv ==
  ASSUME IInv, CredentialChanges
  PROVE  IInv'
<1> DEFINE e == [kind |-> "credential"]
<1>0. TypeOK /\ GetsInv /\ upsets' \in 0..MaxUpsets
  BY UpsetType DEF IInv, CredentialChanges
<1>1. tasks \in Seq(Task) /\ e \in Task /\ e.kind = "credential"
  BY <1>0 DEF TypeOK, Task
<1>2. tasks' = Append(tasks, e)
  BY DEF CredentialChanges
<1> HIDE DEF e
<1>3. /\ tasks' \in Seq(Task)
      /\ \A i \in DOMAIN tasks' : (i \in DOMAIN tasks /\ tasks'[i] = tasks[i]) \/ tasks'[i] = e
  BY <1>1, <1>2, EnqueueTask
<1>4. TypeOK'
  BY <1>0, <1>3 DEF TypeOK, CredentialChanges, appVars, userVars, diskVars
<1>5. GetsInv'
  BY <1>0, <1>1, <1>3 DEF GetsInv, CredentialChanges, appVars, userVars
<1>6. OnlineInv(online, stream, AnyActive)' /\ StreamInv(stream)' /\ AnsweredOnce'
  BY DEF IInv, CredentialChanges, OnlineInv, AnyActive, Active, AnsweredOnce, userVars
<1> QED
  BY <1>4, <1>5, <1>6 DEF IInv

LEMMA RestartInv ==
  ASSUME IInv, Restart
  PROVE  IInv'
<1>0. TypeOK /\ GetsInv /\ AnsweredOnce /\ upsets' \in 0..MaxUpsets
  BY UpsetType DEF IInv, Restart
<1>1. StreamInv(stream)' /\ ~stream'.idle /\ stream' \in Stream
  BY ClosedInv DEF Restart, Closed, StreamInv
<1>2. online' \in OnlineRecord /\ ~online'.timer /\ online'.state = "Unknown"
  BY DEF Restart, UpdateState, OnlineRecord
<1>3. /\ view' \in [Query -> ViewRecord] /\ events' \in [Get -> Seq(Snapshot)]
      /\ listeners' \in [Query -> SUBSET Get] /\ tasks' \in Seq(Task)
  BY DEF Restart, NoView, ViewRecord
<1>4. gone' \subseteq Get
  <2>1. Unanswered \subseteq Get
    <3>1. \A g \in DOMAIN asked : g \in 1..Len(asked)
      BY <1>0 DEF TypeOK
    <3>2. Len(asked) <= MaxGets
      BY <1>0 DEF GetsInv
    <3> QED
      BY <1>0, <3>1, <3>2, GetsAssumption DEF Unanswered, Get, TypeOK
  <2> QED
    BY <1>0, <2>1 DEF Restart, TypeOK
<1>5. TypeOK'
  BY <1>0, <1>1, <1>2, <1>3, <1>4 DEF TypeOK, Restart, appVars, diskVars, ViewRecord, OnlineRecord
<1>6. GetsInv'
  BY <1>0 DEF GetsInv, Restart, appVars
<1>7. AnsweredOnce'
  BY <1>0 DEF AnsweredOnce, Restart
<1> QED
  BY <1>1, <1>2, <1>5, <1>6, <1>7 DEF IInv, OnlineInv

LEMMA CommitsInv ==
  ASSUME IInv, Commits
  PROVE  IInv'
<1>1. TypeOK /\ GetsInv /\ version' \in Version
  BY GetsAssumption DEF IInv, TypeOK, Commits, Version
<1>2. TypeOK'
  BY <1>1 DEF TypeOK, Commits, appVars, userVars, diskVars
<1>3. GetsInv'
  BY <1>1 DEF GetsInv, Commits, appVars, userVars
<1> QED
  BY <1>2, <1>3 DEF IInv, Commits, OnlineInv, AnyActive, Active, AnsweredOnce, userVars

-----------------------------------------------------------------------------
(* Operations of the worker queue *)

OnlineOK(o) ==
  /\ o \in OnlineRecord
  /\ o.timer => o.state = "Unknown"
  /\ o.state = "Online" => ~o.failed

LEMMA StreamStartedOK ==
  ASSUME NEW o, OnlineOK(o)
  PROVE  OnlineOK(StreamStarted(o))
BY DEF OnlineOK, OnlineRecord, StreamStarted

LEMMA UpdateStateOK ==
  ASSUME NEW st \in {"Unknown", "Online", "Offline"}
  PROVE  /\ OnlineOK(UpdateState(st)) /\ UpdateState(st).timer = FALSE
BY DEF OnlineOK, OnlineRecord, UpdateState

LEMMA StreamFailedOK ==
  ASSUME NEW o, OnlineOK(o)
  PROVE  OnlineOK(StreamFailed(o)) /\ StreamFailed(o).timer = FALSE
BY DEF OnlineOK, OnlineRecord, StreamFailed

LEMMA OnlineNow ==
  ASSUME IInv
  PROVE  OnlineOK(online) /\ stream \in Stream /\ StreamInv(stream)
BY DEF IInv, TypeOK, OnlineOK, OnlineInv, OnlineRecord

\* A stream that is not idle asks little of the online state.
LEMMA OnlineInvFrom ==
  ASSUME NEW o, OnlineOK(o), NEW s, s.idle = FALSE, NEW active,
         o.timer = FALSE \/ IsStarted(s)
  PROVE  OnlineInv(o, s, active)
BY DEF OnlineInv, OnlineOK

LEMMA HeldInv ==
  ASSUME NEW s, StreamInv(s), NEW q \in Query, NEW v \in Version
  PROVE  /\ StreamInv([s EXCEPT !.held[q] = v])
         /\ [s EXCEPT !.held[q] = v].state = s.state
         /\ [s EXCEPT !.held[q] = v].idle = s.idle
<1> DEFINE t == [s EXCEPT !.held[q] = v]
           h == [s.held EXCEPT ![q] = v]
<1>1. s \in Stream /\ h \in [Query -> Version]
  BY DEF StreamInv, Stream
<1>2. t = [s EXCEPT !.held = h]
  BY <1>1 DEF Stream
<1> HIDE DEF t, h
<1>3. /\ t \in Stream /\ t.state = s.state /\ t.idle = s.idle /\ t.out = s.out /\ t.in = s.in
      /\ t.targets = s.targets
  BY <1>1, <1>2 DEF Stream
<1>4. StreamInv(t) /\ t.state = s.state /\ t.idle = s.idle
  BY <1>3 DEF StreamInv, PendingRight
<1> QED
  BY <1>4 DEF t

LEMMA ListenInv ==
  ASSUME IInv, NEW q \in Query
  PROVE  StreamInv(Listen(q)) /\ IsStarted(Listen(q)) /\ Listen(q).idle = FALSE
<1> DEFINE s == [stream EXCEPT !.held[q] = token[q]]
<1>1. token[q] \in Version /\ stream \in Stream /\ StreamInv(stream)
  BY OnlineNow DEF IInv, TypeOK
<1>2. StreamInv(s) /\ s.state = stream.state /\ s.idle = stream.idle
  BY <1>1, HeldInv
<1>3. s.idle = FALSE \/ s.state = "Open"
  BY <1>1, <1>2 DEF IInv, OnlineInv, Stream
<1>4. Listen(q) = CASE ~IsStarted(s)    -> Start(s)
                    [] s.state = "Open" -> SendWatch(s, q)
                    [] OTHER            -> s
  BY DEF Listen
<1> HIDE DEF s
<1>5. CASE ~IsStarted(s)
  <2>1. StreamInv(Start(s)) /\ IsStarted(Start(s)) /\ Start(s).idle = s.idle
    BY <1>2, <1>5, StartInv
  <2>2. Listen(q) = Start(s) /\ s.idle = FALSE
    BY <1>3, <1>4, <1>5 DEF IsStarted
  <2> QED
    BY <2>1, <2>2
<1>6. CASE s.state = "Open"
  <2>1. /\ StreamInv(SendWatch(s, q)) /\ SendWatch(s, q).state = "Open"
        /\ ~SendWatch(s, q).idle
    BY <1>2, <1>6, SendWatchInv
  <2>2. Listen(q) = SendWatch(s, q)
    BY <1>4, <1>6 DEF IsStarted
  <2> QED
    BY <2>1, <2>2 DEF IsStarted, StreamInv, Stream
<1>7. CASE IsStarted(s) /\ s.state # "Open"
  <2>1. Listen(q) = s /\ s.idle = FALSE
    BY <1>3, <1>4, <1>7
  <2> QED
    BY <1>2, <1>7, <2>1
<1> QED
  BY <1>5, <1>6, <1>7

LEMMA RunListenInv ==
  ASSUME IInv, RunListen
  PROVE  IInv'
<1> DEFINE g == Head(tasks).g
           q == asked[g]
           v == IF Active(q) THEN view[q] ELSE [current |-> FALSE, data |-> cache[q]]
<1>0. TypeOK /\ GetsInv /\ AnsweredOnce /\ tasks # <<>> /\ Head(tasks).kind = "listen"
  BY DEF IInv, RunListen, IsNext
<1>1. /\ g \in Get /\ g \in DOMAIN asked /\ q \in Query /\ tasks' = Tail(tasks)
      /\ tasks' \in Seq(Task)
      /\ \A i \in DOMAIN tasks' : tasks'[i].kind # "credential" => tasks'[i].g \in DOMAIN asked
  BY <1>0, FrontTask DEF RunListen
<1>2. /\ listeners' = [listeners EXCEPT ![q] = @ \cup {g}]
      /\ view' = [view EXCEPT ![q] = v]
      /\ events' = events \/ events' = [events EXCEPT ![g] = Append(@, Event(v))]
      /\ IF Active(q) THEN UNCHANGED <<stream, online>>
         ELSE /\ stream' = Listen(q)
              /\ online' = IF IsStarted(stream) THEN online ELSE StreamStarted(online)
      /\ hasty' \in {hasty, hasty \cup {g}}
      /\ UNCHANGED <<version, appVars, answers, diskVars, upsets, gone>>
  BY DEF RunListen
<1>3. v \in ViewRecord
  BY <1>0, <1>1 DEF TypeOK, ViewRecord
<1>4. Event(v) \in Snapshot
  BY <1>3 DEF Event, ViewRecord, Snapshot
<1> HIDE DEF g, q, v
<1>5. /\ events' \in [Get -> Seq(Snapshot)]
      /\ \A h \in Get : events'[h] # <<>> => events[h] # <<>> \/ h = g
  <2>1. events[g] \in Seq(Snapshot) /\ Append(events[g], Event(v)) \in Seq(Snapshot)
    BY <1>0, <1>1, <1>4 DEF TypeOK
  <2> QED
    BY <1>0, <1>1, <1>2, <2>1 DEF TypeOK
<1>6. view' \in [Query -> ViewRecord] /\ listeners' \in [Query -> SUBSET Get]
      /\ hasty' \subseteq Get
  BY <1>0, <1>1, <1>2, <1>3 DEF TypeOK, ViewRecord
<1>7. /\ OnlineOK(online') /\ StreamInv(stream') /\ stream'.idle = FALSE
      /\ online'.timer = FALSE \/ IsStarted(stream')
  <2>1. CASE Active(q)
    <3>1. stream' = stream /\ online' = online
      BY <1>2, <2>1
    <3>2. stream.idle = FALSE /\ (online.timer = FALSE \/ IsStarted(stream))
      BY <1>1, <2>1, OnlineNow DEF IInv, OnlineInv, AnyActive, OnlineOK, OnlineRecord, Stream
    <3> QED
      BY <3>1, <3>2, OnlineNow
  <2>2. CASE ~Active(q)
    <3>1. StreamInv(stream') /\ IsStarted(stream') /\ stream'.idle = FALSE
      BY <1>1, <1>2, <2>2, ListenInv
    <3>2. OnlineOK(online')
      BY <1>2, <2>2, OnlineNow, StreamStartedOK
    <3> QED
      BY <3>1, <3>2
  <2> QED
    BY <2>1, <2>2
<1>8. OnlineInv(online, stream, AnyActive)'
  BY <1>7, OnlineInvFrom
<1>9. TypeOK'
  <2>1. stream' \in Stream /\ online' \in OnlineRecord
    BY <1>7 DEF StreamInv, OnlineOK
  <2> QED
    BY <1>0, <1>1, <1>2, <1>5, <1>6, <2>1
    DEF TypeOK, appVars, diskVars, ViewRecord, OnlineRecord
<1>10. GetsInv'
  <2>1. asked' = asked /\ answers' = answers
    BY <1>2 DEF appVars
  <2>2. ASSUME NEW p \in Query, NEW h \in listeners'[p]
        PROVE  h \in DOMAIN asked /\ asked[h] = p
    <3>1. h \in listeners[p] \/ (p = q /\ h = g)
      BY <1>0, <1>1, <1>2, <2>2 DEF TypeOK
    <3>2. asked[g] = q
      BY DEF q
    <3> QED
      BY <1>0, <1>1, <3>1, <3>2 DEF GetsInv
  <2> QED
    BY <1>0, <1>1, <1>5, <2>1, <2>2 DEF GetsInv
<1>11. AnsweredOnce'
  BY <1>0, <1>2 DEF AnsweredOnce
<1> QED
  BY <1>7, <1>8, <1>9, <1>10, <1>11 DEF IInv

LEMMA RunUnlistenInv ==
  ASSUME IInv, RunUnlisten
  PROVE  IInv'
<1> DEFINE g    == Head(tasks).g
           q    == asked[g]
           last == listeners[q] = {g}
           left == \E p \in Query \ {q} : Active(p)
<1>0. TypeOK /\ GetsInv /\ AnsweredOnce /\ tasks # <<>> /\ Head(tasks).kind = "unlisten"
  BY DEF IInv, RunUnlisten, IsNext
<1>1. /\ g \in Get /\ q \in Query /\ tasks' = Tail(tasks)
      /\ tasks' \in Seq(Task)
      /\ \A i \in DOMAIN tasks' : tasks'[i].kind # "credential" => tasks'[i].g \in DOMAIN asked
  BY <1>0, FrontTask DEF RunUnlisten
<1>2. /\ listeners' = [listeners EXCEPT ![q] = @ \ {g}]
      /\ IF last
           THEN /\ view' = [view EXCEPT ![q] = NoView]
                /\ token' = [token EXCEPT ![q] = stream.held[q]]
                /\ stream' = StopListening(stream, q, left)
                /\ online' = IF left \/ stream.state = "Open" THEN online
                             ELSE UpdateState("Unknown")
           ELSE UNCHANGED <<view, token, stream, online>>
      /\ UNCHANGED <<version, appVars, events, answers, cache, lastSnapshot, upsets, hasty, gone>>
  BY DEF RunUnlisten
<1>3. left \in BOOLEAN /\ last \in BOOLEAN /\ (last => Active(q))
  BY DEF Active
<1>4. \A p \in Query : listeners'[p] \subseteq listeners[p] /\ (p # q => listeners'[p] = listeners[p])
  BY <1>0, <1>1, <1>2 DEF TypeOK
<1>5. last => (AnyActive' <=> left)
  BY <1>0, <1>1, <1>2 DEF AnyActive, Active, TypeOK
<1> HIDE DEF g, q, last, left
<1>6. /\ view' \in [Query -> ViewRecord] /\ token' \in [Query -> Version]
      /\ listeners' \in [Query -> SUBSET Get]
  <2>1. stream.held[q] \in Version /\ NoView \in ViewRecord
    BY <1>1, OnlineNow DEF Stream, NoView, ViewRecord
  <2> QED
    BY <1>0, <1>1, <1>2, <2>1 DEF TypeOK, ViewRecord
<1>7. /\ OnlineOK(online') /\ StreamInv(stream')
      /\ OnlineInv(online', stream', AnyActive')
  <2>1. CASE ~last
    <3>1. stream' = stream /\ online' = online
      BY <1>2, <2>1
    <3>2. AnyActive' => AnyActive
      BY <1>4 DEF AnyActive, Active
    <3> QED
      BY <3>1, <3>2, OnlineNow DEF IInv, OnlineInv
  <2>2. CASE last
    <3>1. /\ StreamInv(stream') /\ stream'.state = stream.state
          /\ stream'.idle => stream.idle \/ (stream.state = "Open" /\ ~left)
      BY <1>1, <1>2, <1>3, <2>2, OnlineNow, StopListeningInv
    <3>2. ~stream.idle
      BY <1>1, <1>3, <2>2 DEF IInv, OnlineInv, AnyActive
    <3>3. OnlineOK(online') /\ (online' = online \/ online'.timer = FALSE)
      BY <1>2, <2>2, OnlineNow, UpdateStateOK
    <3>4. online.timer => IsStarted(stream)
      BY DEF IInv, OnlineInv
    <3>5. online'.timer => IsStarted(stream')
      BY <3>1, <3>3, <3>4 DEF IsStarted
    <3>6. stream'.idle => stream'.state = "Open" /\ ~AnyActive'
      BY <1>5, <2>2, <3>1, <3>2
    <3> QED
      BY <3>1, <3>3, <3>5, <3>6 DEF OnlineInv, OnlineOK
  <2> QED
    BY <1>3, <2>1, <2>2
<1>8. TypeOK'
  <2>1. stream' \in Stream /\ online' \in OnlineRecord
    BY <1>7 DEF StreamInv, OnlineOK
  <2> QED
    BY <1>0, <1>1, <1>2, <1>6, <2>1 DEF TypeOK, appVars, ViewRecord, OnlineRecord
<1>9. GetsInv'
  BY <1>0, <1>1, <1>2, <1>4 DEF GetsInv, appVars
<1>10. AnsweredOnce'
  BY <1>0, <1>2 DEF AnsweredOnce
<1> QED
  BY <1>7, <1>8, <1>9, <1>10 DEF IInv

\* A stream that was closed starts again while there is a listener.
LEMMA RestartedInv ==
  ASSUME NEW s, StreamInv(s), ~IsStarted(s), s.idle = FALSE,
         NEW t, t = IF AnyActive THEN Start(s) ELSE s
  PROVE  StreamInv(t) /\ t.idle = FALSE /\ (AnyActive => IsStarted(t))
BY StartInv

LEMMA ClosedStream ==
  ASSUME IInv, NEW graceful \in BOOLEAN, NEW s, s = Close(stream, graceful)
  PROVE  StreamInv(s) /\ ~IsStarted(s) /\ s.idle = FALSE
<1>1. StreamInv(s) /\ ~IsStarted(s) /\ ~s.idle
  BY OnlineNow, CloseInv
<1> QED
  BY <1>1 DEF StreamInv, Stream

\* RemoteInv for steps that only change the state of the stream and online.
LEMMA ConnectionInv ==
  ASSUME IInv,
         UNCHANGED <<version, appVars, listeners, answers, diskVars, hasty, gone>>,
         upsets' \in 0..MaxUpsets,
         tasks' = tasks \/ (tasks # <<>> /\ tasks' = Tail(tasks)),
         NEW o, SetOnline(o), OnlineOK(o),
         StreamInv(stream'), OnlineInv(o, stream', AnyActive)
  PROVE  IInv'
<1>1. /\ cache' \in [Query -> SUBSET Commit] /\ token' \in [Query -> Version]
      /\ lastSnapshot' \in Version /\ TypeOK
  BY DEF IInv, TypeOK, diskVars
<1>2. PICK vs \in [Query -> ViewRecord] : Publish(vs, o)
  BY <1>1, SetOnlineIs
<1>3. o \in OnlineRecord
  BY DEF OnlineOK
<1> QED
  BY <1>1, <1>2, <1>3, RemoteInv

LEMMA RunCredentialInv ==
  ASSUME IInv, RunCredential
  PROVE  IInv'
<1> DEFINE s == IF IsStarted(stream) THEN Close(stream, TRUE) ELSE stream
           u == UpdateState("Unknown")
           o == IF AnyActive THEN StreamStarted(u) ELSE u
<1>1. /\ tasks # <<>> /\ tasks' = Tail(tasks)
      /\ stream' = IF AnyActive THEN Start(s) ELSE s
      /\ SetOnline(o)
      /\ UNCHANGED <<version, appVars, listeners, answers, diskVars, upsets, hasty, gone>>
  BY DEF RunCredential, IsNext
<1>2. StreamInv(s) /\ ~IsStarted(s) /\ s.idle = FALSE
  <2>1. CASE IsStarted(stream)
    BY <2>1, ClosedStream
  <2>2. CASE ~IsStarted(stream)
    BY <2>2, OnlineNow DEF IInv, OnlineInv, IsStarted, Stream
  <2> QED
    BY <2>1, <2>2
<1>3. OnlineOK(u) /\ u.timer = FALSE
  BY UpdateStateOK
<1> HIDE DEF s, u
<1>4. OnlineOK(o)
  BY <1>3, StreamStartedOK
<1>5. StreamInv(stream') /\ stream'.idle = FALSE /\ (AnyActive => IsStarted(stream'))
  BY <1>1, <1>2, RestartedInv
<1>6. o.timer = FALSE \/ IsStarted(stream')
  BY <1>3, <1>5
<1> HIDE DEF o
<1>7. OnlineInv(o, stream', AnyActive)
  BY <1>4, <1>5, <1>6, OnlineInvFrom
<1>8. upsets' \in 0..MaxUpsets
  BY <1>1 DEF IInv, TypeOK
<1> QED
  BY <1>1, <1>4, <1>5, <1>7, <1>8, ConnectionInv

-----------------------------------------------------------------------------
(* The watch stream: its state *)

LEMMA FailInv ==
  ASSUME IInv, Fail, upsets' \in 0..MaxUpsets, RemoteOnly
  PROVE  IInv'
<1> DEFINE s == Close(stream, FALSE)
           o == IF AnyActive THEN StreamStarted(StreamFailed(online))
                ELSE UpdateState("Unknown")
<1>1. /\ stream' = IF AnyActive THEN Start(s) ELSE s
      /\ SetOnline(o)
      /\ UNCHANGED <<version, appVars, listeners, answers, diskVars, hasty, gone>>
      /\ tasks' = tasks
  BY DEF Fail, RemoteOnly
<1>2. StreamInv(s) /\ ~IsStarted(s) /\ s.idle = FALSE
  BY ClosedStream
<1> HIDE DEF s
<1>3. StreamInv(stream') /\ stream'.idle = FALSE /\ (AnyActive => IsStarted(stream'))
  BY <1>1, <1>2, RestartedInv
<1>4. OnlineOK(o) /\ (o.timer = FALSE \/ IsStarted(stream'))
  BY <1>3, OnlineNow, StreamFailedOK, StreamStartedOK, UpdateStateOK
<1> HIDE DEF o
<1>5. OnlineInv(o, stream', AnyActive)
  BY <1>3, <1>4, OnlineInvFrom
<1> QED
  BY <1>1, <1>3, <1>4, <1>5, ConnectionInv

LEMMA FailuresInv ==
  ASSUME IInv, TokenFails \/ StreamFails
  PROVE  IInv'
<1>1. Fail /\ RemoteOnly
  BY DEF TokenFails, StreamFails
<1>2. upsets' \in 0..MaxUpsets
  BY UpsetType DEF IInv, TypeOK, TokenFails, StreamFails
<1> QED
  BY <1>1, <1>2, FailInv

LEMMA TokenArrivesInv ==
  ASSUME IInv, TokenArrives
  PROVE  IInv'
<1>1. PICK order \in SetToSeqs({q \in Query : Active(q)}) : stream' = Open(stream, order)
  BY DEF TokenArrives
<1>2. stream.state = "Starting" /\ ~stream.idle
  BY DEF TokenArrives, IInv, OnlineInv
<1>3. StreamInv(stream') /\ stream'.state = "Open" /\ ~stream'.idle
  BY <1>1, <1>2, OnlineNow, OpenInv
<1>4. /\ UNCHANGED <<version, appVars, tasks, userVars, answers, diskVars, online, hasty, gone>>
      /\ upsets' \in 0..MaxUpsets
  BY DEF TokenArrives, IInv, TypeOK
<1> QED
  BY <1>3, <1>4, StreamOnlyInv DEF IsStarted

LEMMA BackoffElapsesInv ==
  ASSUME IInv, BackoffElapses
  PROVE  IInv'
<1>1. stream.state = "Backoff" /\ ~stream.idle /\ StreamInv(stream)
  BY DEF BackoffElapses, IInv, OnlineInv
<1>2. StreamInv(stream') /\ stream'.state = "Starting" /\ stream'.idle = stream.idle
  <2>1. /\ stream' \in Stream /\ stream'.state = "Starting" /\ stream'.idle = stream.idle
        /\ stream'.out = stream.out /\ stream'.in = stream.in
        /\ stream'.targets = stream.targets
    BY <1>1 DEF BackoffElapses, StreamInv, Stream
  <2> QED
    BY <1>1, <2>1 DEF StreamInv, PendingRight
<1>3. /\ UNCHANGED <<version, appVars, tasks, userVars, answers, diskVars, online, hasty, gone>>
      /\ upsets' \in 0..MaxUpsets
  BY DEF BackoffElapses, IInv, TypeOK
<1> QED
  BY <1>1, <1>2, <1>3, StreamOnlyInv DEF IsStarted

LEMMA TimersInv ==
  ASSUME IInv, IdleTimerFires \/ OnlineTimerFires
  PROVE  IInv'
<1>1. /\ UNCHANGED <<version, appVars, listeners, answers, diskVars, hasty, gone>>
      /\ tasks' = tasks /\ upsets' \in 0..MaxUpsets
  BY DEF IdleTimerFires, OnlineTimerFires, RemoteOnly, IInv, TypeOK
<1>2. CASE IdleTimerFires
  <2>1. stream' = Close(stream, TRUE) /\ SetOnline(UpdateState("Unknown"))
    BY <1>2 DEF IdleTimerFires
  <2>2. StreamInv(stream') /\ stream'.idle = FALSE
    BY <2>1, ClosedStream
  <2>3. OnlineOK(UpdateState("Unknown")) /\ UpdateState("Unknown").timer = FALSE
    BY UpdateStateOK
  <2>4. OnlineInv(UpdateState("Unknown"), stream', AnyActive)
    BY <2>2, <2>3, OnlineInvFrom
  <2> QED
    BY <1>1, <2>1, <2>2, <2>3, <2>4, ConnectionInv
<1>3. CASE OnlineTimerFires
  <2> DEFINE o == [online EXCEPT !.state = "Offline", !.timer = FALSE]
  <2>1. SetOnline(o) /\ stream' = stream
    BY <1>3 DEF OnlineTimerFires
  <2>2. OnlineOK(o) /\ o.timer = FALSE
    BY OnlineNow DEF OnlineOK, OnlineRecord
  <2> HIDE DEF o
  <2>3. OnlineInv(o, stream', AnyActive)
    BY <2>1, <2>2 DEF IInv, OnlineInv, OnlineOK
  <2>4. StreamInv(stream')
    BY <2>1, OnlineNow
  <2> QED
    BY <1>1, <2>1, <2>2, <2>3, <2>4, ConnectionInv
<1> QED
  BY <1>2, <1>3

-----------------------------------------------------------------------------
(* The watch stream: responses *)

\* What every response does to the stream and to the online state.
LEMMA ReadStream ==
  ASSUME IInv, stream.in # <<>>,
         NEW ts \in [Query -> TargetState], NEW ds \in [Query -> SUBSET Commit],
         NEW h \in [Query -> Version],
         \A q \in Query :
           ts[q].pending = stream.targets[q].pending
                             - IF Head(stream.in) \in AcksFor(q) THEN 1 ELSE 0,
         NEW t, t = [stream EXCEPT !.in = Tail(@), !.targets = ts, !.docs = ds, !.held = h]
  PROVE  /\ StreamInv(t)
         /\ OnlineOK(UpdateState("Online"))
         /\ OnlineInv(UpdateState("Online"), t, AnyActive)
<1> DEFINE o == UpdateState("Online")
<1>1. stream \in Stream /\ StreamInv(stream)
  BY OnlineNow
<1>2. Tail(stream.in) \in Seq(Response)
  BY <1>1 DEF Stream
<1>3. /\ t \in Stream /\ t.state = stream.state /\ t.idle = stream.idle
      /\ t.out = stream.out /\ t.in = Tail(stream.in) /\ t.targets = ts
  BY <1>1, <1>2 DEF Stream
<1>4. StreamInv(t)
  BY <1>1, <1>3, ReadInv
<1>5. OnlineOK(o) /\ o.timer = FALSE
  BY UpdateStateOK
<1> HIDE DEF o
<1>6. OnlineInv(o, t, AnyActive)
  BY <1>3, <1>5 DEF IInv, OnlineInv, OnlineOK
<1> QED
  BY <1>4, <1>5, <1>6 DEF o

LEMMA ReadIs ==
  ASSUME IInv, NEW kind, Read(kind)
  PROVE  /\ stream.in # <<>> /\ Head(stream.in) \in Response /\ Head(stream.in).kind = kind
         /\ UNCHANGED <<version, appVars, tasks, listeners, answers, upsets, hasty, gone>>
         /\ upsets' \in 0..MaxUpsets
         /\ stream \in Stream /\ stream.targets \in [Query -> TargetState]
         /\ stream.docs \in [Query -> SUBSET Commit] /\ stream.held \in [Query -> Version]
<1>1. stream \in Stream /\ upsets \in 0..MaxUpsets
  BY OnlineNow DEF IInv, TypeOK
<1>2. stream.in \in Seq(Response)
  BY <1>1 DEF Stream
<1>3. stream.in # <<>> => Head(stream.in) \in Response
  BY <1>2
<1> QED
  BY <1>1, <1>3 DEF Read, Stream

LEMMA AfterAckCounts ==
  ASSUME NEW t \in TargetState, t.pending > 0, NEW removed \in BOOLEAN
  PROVE  AfterAck(t, removed) \in TargetState /\ AfterAck(t, removed).pending = t.pending - 1
<1>1. 0 \in Version
  BY GetsAssumption DEF Version
<1> DEFINE u == [t EXCEPT !.pending = @ - 1]
           c == [u EXCEPT !.dirty = FALSE]
<1>2. u \in TargetState /\ u.pending = t.pending - 1
  BY DEF TargetState
<1>3. NoTarget \in TargetState /\ NoTarget.pending = 0
  BY <1>1 DEF NoTarget, TargetState
<1>4. c \in TargetState /\ c.pending = u.pending
  BY <1>2 DEF TargetState
<1>5. AfterAck(t, removed) = IF u.pending # 0 THEN u ELSE IF removed THEN NoTarget ELSE c
  BY DEF AfterAck
<1> HIDE DEF u, c
<1> QED
  BY <1>2, <1>3, <1>4, <1>5

LEMMA ReadAckInv ==
  ASSUME IInv, ReadAck
  PROVE  IInv'
<1> DEFINE m  == Head(stream.in)
           ts == [stream.targets EXCEPT ![m.q] = AfterAck(@, m.removed)]
<1>1. Read("ack")
  BY DEF ReadAck
<1>2. /\ stream.in # <<>> /\ m \in Response /\ m.kind = "ack"
      /\ UNCHANGED <<version, appVars, tasks, listeners, answers, upsets, hasty, gone>>
      /\ upsets' \in 0..MaxUpsets
      /\ stream \in Stream /\ stream.targets \in [Query -> TargetState]
      /\ stream.docs \in [Query -> SUBSET Commit] /\ stream.held \in [Query -> Version]
  BY <1>1, ReadIs
<1>3. m.q \in Query /\ m.removed \in BOOLEAN /\ \A q \in Query : m \in AcksFor(q) <=> q = m.q
  BY <1>2 DEF Response, AcksFor
<1>4. stream.targets[m.q].pending > 0
  BY <1>2, <1>3, OnlineNow, AckIsAwaited
<1>5. /\ AfterAck(stream.targets[m.q], m.removed) \in TargetState
      /\ AfterAck(stream.targets[m.q], m.removed).pending = stream.targets[m.q].pending - 1
  BY <1>2, <1>3, <1>4, AfterAckCounts
<1>6. /\ ts \in [Query -> TargetState]
      /\ \A q \in Query :
           ts[q].pending = stream.targets[q].pending - IF m \in AcksFor(q) THEN 1 ELSE 0
  <2>1. ts \in [Query -> TargetState]
    BY <1>2, <1>3, <1>5
  <2>2. ASSUME NEW q \in Query
        PROVE  ts[q].pending = stream.targets[q].pending - IF m \in AcksFor(q) THEN 1 ELSE 0
    <3>1. CASE q = m.q
      <4>1. ts[q] = AfterAck(stream.targets[m.q], m.removed)
        BY <1>2, <1>3, <3>1
      <4> QED
        BY <1>3, <1>5, <3>1, <4>1
    <3>2. CASE q # m.q
      <4>1. ts[q] = stream.targets[q] /\ stream.targets[q].pending \in Nat
        BY <1>2, <2>2, <3>2 DEF TargetState
      <4> QED
        BY <1>3, <2>2, <3>2, <4>1
    <3> QED
      BY <3>1, <3>2
  <2> QED
    BY <2>1, <2>2
<1>7. /\ stream' = [stream EXCEPT !.in = Tail(@), !.targets = ts, !.docs = stream.docs,
                                  !.held = stream.held]
      /\ SetOnline(UpdateState("Online")) /\ UNCHANGED diskVars
  BY <1>2 DEF ReadAck, Stream
<1> HIDE DEF ts
<1>8. /\ StreamInv(stream') /\ OnlineOK(UpdateState("Online"))
      /\ OnlineInv(UpdateState("Online"), stream', AnyActive)
  BY <1>2, <1>6, <1>7, ReadStream
<1> QED
  BY <1>2, <1>7, <1>8, ConnectionInv

\* Documents and current flags leave the counts alone.
LEMMA ReadDocsInv ==
  ASSUME IInv, ReadDocs
  PROVE  IInv'
<1> DEFINE m  == Head(stream.in)
           ts == IF IsActiveTarget(m.q) THEN [stream.targets EXCEPT ![m.q].dirty = TRUE]
                                        ELSE stream.targets
           ds == IF IsActiveTarget(m.q) THEN [stream.docs EXCEPT ![m.q] = @ \cup m.changes]
                                        ELSE stream.docs
<1>1. Read("docs")
  BY DEF ReadDocs
<1>2. /\ stream.in # <<>> /\ m \in Response /\ m.kind = "docs"
      /\ UNCHANGED <<version, appVars, tasks, listeners, answers, upsets, hasty, gone>>
      /\ upsets' \in 0..MaxUpsets
      /\ stream \in Stream /\ stream.targets \in [Query -> TargetState]
      /\ stream.docs \in [Query -> SUBSET Commit] /\ stream.held \in [Query -> Version]
  BY <1>1, ReadIs
<1>3. m.q \in Query /\ m.changes \in SUBSET Commit /\ \A q \in Query : m \notin AcksFor(q)
  BY <1>2 DEF Response, AcksFor
<1>4. /\ ts \in [Query -> TargetState]
      /\ \A q \in Query : ts[q].pending = stream.targets[q].pending
  BY <1>2, <1>3 DEF TargetState
<1>5. ds \in [Query -> SUBSET Commit]
  BY <1>2, <1>3
<1>6. /\ stream' = [stream EXCEPT !.in = Tail(@), !.targets = ts, !.docs = ds,
                                  !.held = stream.held]
      /\ SetOnline(UpdateState("Online")) /\ UNCHANGED diskVars
  BY <1>2 DEF ReadDocs, Stream
<1> HIDE DEF ts, ds
<1>7. \A q \in Query :
        ts[q].pending = stream.targets[q].pending - IF m \in AcksFor(q) THEN 1 ELSE 0
  BY <1>2, <1>3, <1>4 DEF TargetState
<1>8. /\ StreamInv(stream') /\ OnlineOK(UpdateState("Online"))
      /\ OnlineInv(UpdateState("Online"), stream', AnyActive)
  BY <1>2, <1>4, <1>5, <1>6, <1>7, ReadStream
<1> QED
  BY <1>2, <1>6, <1>8, ConnectionInv

LEMMA ReadCurrentInv ==
  ASSUME IInv, ReadCurrent
  PROVE  IInv'
<1> DEFINE m  == Head(stream.in)
           ts == IF IsActiveTarget(m.q)
                   THEN [stream.targets EXCEPT ![m.q] = [@ EXCEPT !.current = TRUE, !.dirty = TRUE,
                                                                  !.token = m.token]]
                   ELSE stream.targets
<1>1. Read("current")
  BY DEF ReadCurrent
<1>2. /\ stream.in # <<>> /\ m \in Response /\ m.kind = "current"
      /\ UNCHANGED <<version, appVars, tasks, listeners, answers, upsets, hasty, gone>>
      /\ upsets' \in 0..MaxUpsets
      /\ stream \in Stream /\ stream.targets \in [Query -> TargetState]
      /\ stream.docs \in [Query -> SUBSET Commit] /\ stream.held \in [Query -> Version]
  BY <1>1, ReadIs
<1>3. m.q \in Query /\ m.token \in Version /\ \A q \in Query : m \notin AcksFor(q)
  BY <1>2 DEF Response, AcksFor
<1>4. /\ ts \in [Query -> TargetState]
      /\ \A q \in Query : ts[q].pending = stream.targets[q].pending
  BY <1>2, <1>3 DEF TargetState
<1>5. /\ stream' = [stream EXCEPT !.in = Tail(@), !.targets = ts, !.docs = stream.docs,
                                  !.held = stream.held]
      /\ SetOnline(UpdateState("Online")) /\ UNCHANGED diskVars
  BY <1>2 DEF ReadCurrent, Stream
<1> HIDE DEF ts
<1>6. \A q \in Query :
        ts[q].pending = stream.targets[q].pending - IF m \in AcksFor(q) THEN 1 ELSE 0
  BY <1>2, <1>3, <1>4 DEF TargetState
<1>7. /\ StreamInv(stream') /\ OnlineOK(UpdateState("Online"))
      /\ OnlineInv(UpdateState("Online"), stream', AnyActive)
  BY <1>2, <1>4, <1>5, <1>6, ReadStream
<1> QED
  BY <1>2, <1>5, <1>7, ConnectionInv

LEMMA WithTokenType ==
  ASSUME IInv, NEW r \in Version
  PROVE  /\ WithToken(r) \in [Query -> TargetState]
         /\ \A q \in Query : WithToken(r)[q].pending = stream.targets[q].pending
<1>1. stream.targets \in [Query -> TargetState]
  BY OnlineNow DEF Stream
<1> QED
  BY <1>1 DEF WithToken, TargetState

LEMMA ReadSnapshotInv ==
  ASSUME IInv, ReadSnapshot
  PROVE  IInv'
<1> DEFINE m   == Head(stream.in)
           r   == m.at
           ts  == WithToken(r)
           new == ToRaise(ts)
           us  == [q \in Query |-> IF q \in new THEN [ts[q] EXCEPT !.dirty = FALSE] ELSE ts[q]]
           ds  == [q \in Query |-> {}]
           h   == [q \in Query |-> IF q \in new THEN ts[q].token ELSE stream.held[q]]
<1>1. Read("snapshot") /\ TypeOK
  BY DEF ReadSnapshot, IInv
<1>2. /\ stream.in # <<>> /\ m \in Response /\ m.kind = "snapshot"
      /\ UNCHANGED <<version, appVars, tasks, listeners, answers, upsets, hasty, gone>>
      /\ upsets' \in 0..MaxUpsets
      /\ stream \in Stream /\ stream.targets \in [Query -> TargetState]
      /\ stream.docs \in [Query -> SUBSET Commit] /\ stream.held \in [Query -> Version]
  BY <1>1, ReadIs
<1>3. r \in Version /\ \A q \in Query : m \notin AcksFor(q)
  BY <1>2 DEF Response, AcksFor
<1>4. /\ ts \in [Query -> TargetState]
      /\ \A q \in Query : ts[q].pending = stream.targets[q].pending
  BY <1>3, WithTokenType
<1>5. CASE r < lastSnapshot
  <2>1. /\ stream' = [stream EXCEPT !.in = Tail(@), !.targets = ts, !.docs = stream.docs,
                                    !.held = stream.held]
        /\ SetOnline(UpdateState("Online")) /\ UNCHANGED diskVars
    BY <1>2, <1>5 DEF ReadSnapshot, Stream
  <2> HIDE DEF ts
  <2>2. \A q \in Query :
          ts[q].pending = stream.targets[q].pending - IF m \in AcksFor(q) THEN 1 ELSE 0
    BY <1>2, <1>3, <1>4 DEF TargetState
  <2>3. /\ StreamInv(stream') /\ OnlineOK(UpdateState("Online"))
        /\ OnlineInv(UpdateState("Online"), stream', AnyActive)
    BY <1>2, <1>4, <2>1, <2>2, ReadStream
  <2> QED
    BY <1>2, <2>1, <2>3, ConnectionInv
<1>6. CASE ~(r < lastSnapshot)
  <2>1. /\ stream' = [stream EXCEPT !.in = Tail(@), !.targets = us, !.docs = ds, !.held = h]
        /\ ApplyRemoteEvent(ts, new, r)
        /\ Publish(NewViews(ts, new), UpdateState("Online"))
    BY <1>2, <1>6 DEF ReadSnapshot, Stream
  <2> HIDE DEF ts, new
  <2>2. /\ us \in [Query -> TargetState] /\ h \in [Query -> Version]
        /\ \A q \in Query : us[q].pending = ts[q].pending
    BY <1>2, <1>4 DEF TargetState
  <2>3. ds \in [Query -> SUBSET Commit]
    OBVIOUS
  <2> HIDE DEF us, ds, h
  <2>4. \A q \in Query :
          us[q].pending = stream.targets[q].pending - IF m \in AcksFor(q) THEN 1 ELSE 0
    BY <1>2, <1>3, <1>4, <2>2 DEF TargetState
  <2>5. /\ StreamInv(stream') /\ OnlineOK(UpdateState("Online"))
        /\ OnlineInv(UpdateState("Online"), stream', AnyActive)
    BY <1>2, <2>1, <2>2, <2>3, <2>4, ReadStream
  <2>6. cache' \in [Query -> SUBSET Commit] /\ lastSnapshot' \in Version
    BY <1>1, <1>2, <1>3, <2>1 DEF ApplyRemoteEvent, TypeOK
  <2>7. token' \in [Query -> Version]
    <3>1. PICK kept \in SUBSET new :
            token' = [q \in Query |-> IF q \in kept THEN ts[q].token ELSE token[q]]
      BY <2>1 DEF ApplyRemoteEvent
    <3> QED
      BY <1>1, <1>4, <3>1 DEF TypeOK, TargetState
  <2>8. NewViews(ts, new) \in [Query -> ViewRecord]
    BY <1>1, <1>2, <1>4 DEF NewViews, ViewRecord, TypeOK, TargetState
  <2>9. UpdateState("Online") \in OnlineRecord
    BY <2>5 DEF OnlineOK
  <2> QED
    BY <1>2, <2>1, <2>5, <2>6, <2>7, <2>8, <2>9, RemoteInv
<1> QED
  BY <1>5, <1>6

-----------------------------------------------------------------------------
(* gRPC and the backend *)

ServedState == [phase : {"None", "Added", "Current"}, sent : Version, since : Version]

\* The stream after a response, whatever the backend has noted of it.
LEMMA AnswerStream ==
  ASSUME IInv, stream.state = "Open", NEW m \in Response,
         NEW o \in Seq(Request),
         \/ o = stream.out /\ m.kind # "ack"
         \/ /\ stream.out # <<>> /\ o = Tail(stream.out)
            /\ m.kind = "ack" /\ m.q = Head(stream.out).q,
         NEW sv \in [Query -> ServedState], NEW due \in BOOLEAN, NEW at \in Version,
         stream' = [stream EXCEPT !.in = Append(@, m), !.out = o, !.served = sv,
                                  !.due = due, !.at = at],
         BackendOnly
  PROVE  IInv'
<1>1. stream \in Stream /\ StreamInv(stream)
  BY OnlineNow
<1>2. Append(stream.in, m) \in Seq(Response)
  BY <1>1 DEF Stream
<1>3. /\ stream' \in Stream /\ stream'.state = stream.state /\ stream'.idle = stream.idle
      /\ stream'.out = o /\ stream'.in = Append(stream.in, m)
      /\ stream'.targets = stream.targets
  BY <1>1, <1>2 DEF Stream, ServedState
<1>4. StreamInv(stream')
  BY <1>1, <1>3, RespondInv
<1>5. /\ UNCHANGED <<version, appVars, tasks, userVars, answers, diskVars, online, hasty, gone>>
      /\ upsets' \in 0..MaxUpsets
  BY DEF BackendOnly, IInv, TypeOK
<1> QED
  BY <1>3, <1>4, <1>5, StreamOnlyInv DEF IsStarted

LEMMA BackendNow ==
  ASSUME IInv, Connected
  PROVE  /\ stream \in Stream /\ stream.state = "Open"
         /\ stream.out \in Seq(Request) /\ stream.served \in [Query -> ServedState]
         /\ stream.due \in BOOLEAN /\ stream.at \in Version
         /\ version \in Version /\ MaxCommits \in Nat
BY OnlineNow, GetsAssumption DEF Connected, Stream, ServedState, IInv, TypeOK

LEMMA ServeInv ==
  ASSUME IInv, Serve
  PROVE  IInv'
<1> DEFINE m  == Head(stream.out)
           removed == m.kind = "unwatch"
           target == IF removed THEN Unserved
                     ELSE [phase |-> "Added", sent |-> m.token, since |-> version]
           a  == [kind |-> "ack", q |-> m.q, removed |-> removed]
           o  == Tail(stream.out)
           sv == [stream.served EXCEPT ![m.q] = target]
<1>1. stream.out # <<>> /\ Connected /\ BackendOnly
  BY DEF Serve
<1>2. /\ stream \in Stream /\ stream.state = "Open"
      /\ stream.out \in Seq(Request) /\ stream.served \in [Query -> ServedState]
      /\ stream.at \in Version /\ version \in Version
  BY <1>1, BackendNow
<1>3. m \in Request /\ o \in Seq(Request)
  BY <1>1, <1>2
<1>4. /\ m.q \in Query
      /\ removed \/ m.token \in Version
      /\ 0 \in Version
  BY <1>3, GetsAssumption DEF Request, Version
<1>5. a \in Response /\ a.kind = "ack" /\ a.q = m.q
  BY <1>4 DEF Response
<1>6. sv \in [Query -> ServedState]
  BY <1>2, <1>4 DEF ServedState, Unserved
<1>7. stream' = [stream EXCEPT !.in = Append(@, a), !.out = o, !.served = sv, !.due = TRUE,
                               !.at = stream.at]
  BY <1>2 DEF Serve, Answers, Stream
<1> HIDE DEF a, sv, o
<1>8. o = Tail(stream.out)
  BY DEF o
<1> QED
  BY <1>1, <1>2, <1>3, <1>5, <1>6, <1>7, <1>8, AnswerStream

LEMMA SendDocsInv ==
  ASSUME IInv, NEW q \in Query, SendDocs(q)
  PROVE  IInv'
<1>1. Connected /\ BackendOnly
  BY DEF SendDocs
<1>2. /\ stream \in Stream /\ stream.state = "Open"
      /\ stream.out \in Seq(Request) /\ stream.served \in [Query -> ServedState]
      /\ stream.at \in Version /\ version \in Version /\ MaxCommits \in Nat
  BY <1>1, BackendNow
<1>3. stream.served[q] \in ServedState
  BY <1>2
<1>4. PICK v \in (stream.served[q].sent + 1)..version :
        stream' = [Answers([kind |-> "docs", q |-> q,
                            changes |-> (stream.served[q].sent + 1)..v])
                     EXCEPT !.served[q].sent = v]
  BY DEF SendDocs
<1> DEFINE m  == [kind |-> "docs", q |-> q, changes |-> (stream.served[q].sent + 1)..v]
           sv == [stream.served EXCEPT ![q].sent = v]
<1>5. stream.served[q].sent \in Nat /\ v \in Version
  BY <1>2, <1>3 DEF ServedState, Version
<1>6. (stream.served[q].sent + 1)..v \subseteq Commit
  BY <1>2, <1>5 DEF Commit, Version
<1>7. m \in Response /\ m.kind # "ack"
  BY <1>6 DEF Response
<1>8. sv \in [Query -> ServedState]
  BY <1>2, <1>3, <1>5 DEF ServedState
<1>9. stream' = [stream EXCEPT !.in = Append(@, m), !.out = stream.out, !.served = sv,
                               !.due = TRUE, !.at = stream.at]
  BY <1>2, <1>4 DEF Answers, Stream
<1> HIDE DEF m, sv
<1> QED
  BY <1>1, <1>2, <1>7, <1>8, <1>9, AnswerStream

LEMMA SendCurrentInv ==
  ASSUME IInv, NEW q \in Query, SendCurrent(q)
  PROVE  IInv'
<1> DEFINE m  == [kind |-> "current", q |-> q, token |-> stream.served[q].sent]
           sv == [stream.served EXCEPT ![q].phase = "Current"]
<1>1. Connected /\ BackendOnly
  BY DEF SendCurrent
<1>2. /\ stream \in Stream /\ stream.state = "Open"
      /\ stream.out \in Seq(Request) /\ stream.served \in [Query -> ServedState]
      /\ stream.at \in Version
  BY <1>1, BackendNow
<1>3. m \in Response /\ m.kind # "ack"
  BY <1>2 DEF Response, ServedState
<1>4. sv \in [Query -> ServedState]
  BY <1>2 DEF ServedState
<1>5. stream' = [stream EXCEPT !.in = Append(@, m), !.out = stream.out, !.served = sv,
                               !.due = TRUE, !.at = stream.at]
  BY <1>2 DEF SendCurrent, Answers, Stream
<1> HIDE DEF m, sv
<1> QED
  BY <1>1, <1>2, <1>3, <1>4, <1>5, AnswerStream

LEMMA SendSnapshotInv ==
  ASSUME IInv, SendSnapshot
  PROVE  IInv'
<1> DEFINE sent == {stream.served[q].sent : q \in {p \in Query : stream.served[p].phase # "None"}}
<1>1. Connected /\ BackendOnly
  BY DEF SendSnapshot
<1>2. /\ stream \in Stream /\ stream.state = "Open"
      /\ stream.out \in Seq(Request) /\ stream.served \in [Query -> ServedState]
  BY <1>1, BackendNow
<1>3. PICK r \in sent :
        stream' = [Answers([kind |-> "snapshot", at |-> r]) EXCEPT !.due = FALSE, !.at = r]
  BY DEF SendSnapshot
<1> DEFINE m == [kind |-> "snapshot", at |-> r]
<1>4. r \in Version
  BY <1>2 DEF ServedState
<1>5. m \in Response /\ m.kind # "ack"
  BY <1>4 DEF Response
<1>6. stream' = [stream EXCEPT !.in = Append(@, m), !.out = stream.out,
                               !.served = stream.served, !.due = FALSE, !.at = r]
  BY <1>2, <1>3 DEF Answers, Stream
<1> HIDE DEF m, sent
<1> QED
  BY <1>1, <1>2, <1>4, <1>5, <1>6, AnswerStream

LEMMA CallBreaksInv ==
  ASSUME IInv, CallBreaks
  PROVE  IInv'
<1>1. StreamInv(stream) /\ stream \in Stream /\ stream' = [stream EXCEPT !.broken = TRUE]
  BY OnlineNow DEF CallBreaks
<1>2. /\ stream' \in Stream /\ stream'.state = stream.state /\ stream'.idle = stream.idle
      /\ stream'.out = stream.out /\ stream'.in = stream.in
      /\ stream'.targets = stream.targets
  BY <1>1 DEF Stream
<1>3. StreamInv(stream')
  BY <1>1, <1>2 DEF StreamInv, PendingRight
<1>4. /\ UNCHANGED <<version, appVars, tasks, userVars, answers, diskVars, online, hasty, gone>>
      /\ stream.state = "Open" /\ upsets' \in 0..MaxUpsets
  BY UpsetType DEF CallBreaks, IInv
<1> QED
  BY <1>2, <1>3, <1>4, StreamOnlyInv DEF IsStarted

-----------------------------------------------------------------------------
(* Every step *)

LEMMA InvNext == IInv /\ [Next]_vars => IInv'
<1> SUFFICES ASSUME IInv, [Next]_vars PROVE IInv'
  OBVIOUS
<1>1. ASSUME NEW q \in Query, Ask(q) PROVE IInv'
  BY <1>1, AskInv
<1>2. ASSUME NEW g \in Get, Deliver(g) PROVE IInv'
  BY <1>2, DeliverInv
<1>3. CASE CredentialChanges \/ Restart \/ Commits
  BY <1>3, CredentialChangesInv, RestartInv, CommitsInv
<1>4. CASE RunTask
  BY <1>4, RunListenInv, RunUnlistenInv, RunCredentialInv DEF RunTask
<1>5. CASE TokenArrives \/ TokenFails \/ BackoffElapses \/ StreamFails
  BY <1>5, TokenArrivesInv, FailuresInv, BackoffElapsesInv
<1>6. CASE IdleTimerFires \/ OnlineTimerFires
  BY <1>6, TimersInv
<1>7. CASE ReadResponse
  BY <1>7, ReadAckInv, ReadDocsInv, ReadCurrentInv, ReadSnapshotInv DEF ReadResponse
<1>8. CASE Serve \/ SendSnapshot \/ CallBreaks
  BY <1>8, ServeInv, SendSnapshotInv, CallBreaksInv
<1>9. ASSUME NEW q \in Query, SendDocs(q) \/ SendCurrent(q) PROVE IInv'
  BY <1>9, SendDocsInv, SendCurrentInv
<1>10. CASE UNCHANGED vars
  <2>1. /\ UNCHANGED <<version, appVars, tasks, userVars, answers, diskVars, online, hasty, gone>>
        /\ stream' = stream /\ upsets' = upsets
    BY <1>10 DEF vars
  <2>2. stream'.idle => stream'.state = "Open"
    BY <2>1 DEF IInv, OnlineInv
  <2>3. StreamInv(stream') /\ upsets' \in 0..MaxUpsets
    BY <2>1, OnlineNow DEF IInv, TypeOK
  <2> QED
    BY <2>1, <2>2, <2>3, StreamOnlyInv
<1> QED
  BY <1>1, <1>2, <1>3, <1>4, <1>5, <1>6, <1>7, <1>8, <1>9, <1>10 DEF Next, Respond

LEMMA InvAlways == Spec => []IInv
BY InvInit, InvNext, PTL DEF Spec

\* The state keeps its shape: in particular no target ever has fewer than no
\* request pending (TargetState::RecordTargetResponse).
THEOREM TypeCorrect == Spec => []TypeOK
<1>1. IInv => TypeOK
  BY DEF IInv
<1> QED
  BY <1>1, InvAlways, PTL

\* A target's pending requests are those whose acknowledgement has not been
\* read, and what OnlineStateTracker and OnWatchStreamClose assert holds, however
\* calls fail, credentials change, the app restarts and queries are repeated.
THEOREM AssertionsAlwaysHold == Spec => []AssertionsHold
BY AssertionsFromInv, InvAlways, PTL

\* No callback runs twice: a listener is muted before its callback is run
\* (Query::GetDocuments, AsyncEventListener::Mute).
THEOREM CalledBackOnce == Spec => []AnsweredOnce
<1>1. IInv => AnsweredOnce
  BY DEF IInv
<1> QED
  BY <1>1, InvAlways, PTL

-----------------------------------------------------------------------------
(* What the stream has brought, and will bring, of a query's data *)

\* A state of the data: no change without those before it.
IsState(S) == \A x \in S : \A y \in 1..x : y \in S

Served(s, q)  == s.served[q].phase # "None"
Settled(s, q) == \A i \in DOMAIN s.out : s.out[i].q # q

\* The last request for q on its way, or else what the backend does, is to serve
\* q or not.
Wanted(s, q, wanted) ==
  /\ Settled(s, q) => (Served(s, q) <=> wanted)
  /\ \A i \in DOMAIN s.out :
       s.out[i].q = q /\ (\A j \in DOMAIN s.out : j > i => s.out[j].q # q)
         => (s.out[i].kind = "watch" <=> wanted)

\* The response at i comes after every acknowledgement for q.
Fresh(s, q, i) == \A j \in DOMAIN s.in : j >= i => s.in[j] \notin AcksFor(q)

Carries(s, q, i, x) ==
  s.in[i].kind = "docs" /\ s.in[i].q = q /\ x \in s.in[i].changes /\ Fresh(s, q, i)

\* Changes 1..n of q, when responses 1..i have been read and c was in the cache.
Covered(s, q, c, n, i) ==
  \A x \in 1..n : x \in c \cup s.docs[q] \/ \E j \in DOMAIN s.in : j <= i /\ Carries(s, q, j, x)

\* What a response says q is complete up to.
Claims(m, q) ==
  CASE m.kind = "docs" /\ m.q = q    -> m.changes
    [] m.kind = "current" /\ m.q = q -> {m.token}
    [] m.kind = "snapshot"           -> {m.at}
    [] OTHER                         -> {}

Complete(s, q, c) ==
  /\ \A i \in DOMAIN s.in : Fresh(s, q, i) =>
       \A n \in Claims(s.in[i], q) : Covered(s, q, c, n, i)
  /\ Covered(s, q, c, s.served[q].sent, Len(s.in))

\* c is in the cache and active says whether q has listeners.
DataInv(s, q, c, active) ==
  /\ IsState(c) /\ IsState(c \cup s.docs[q])
  /\ 1..s.held[q] \subseteq c
  /\ 1..s.targets[q].token \subseteq c \cup s.docs[q]
  /\ \A i \in DOMAIN s.out :
       s.out[i].kind = "watch" /\ s.out[i].q = q => 1..s.out[i].token \subseteq c
  /\ IF s.state = "Open" THEN Wanted(s, q, active) ELSE ~Served(s, q)
  /\ Settled(s, q) /\ Served(s, q) => Complete(s, q, c)

StateInv ==
  /\ \A q \in Query : /\ DataInv(stream, q, cache[q], Active(q))
                      /\ 1..token[q] \subseteq cache[q]
                      /\ Active(q) => view[q].data = cache[q]
  /\ \A g \in Get : /\ \A i \in DOMAIN events[g] : IsState(events[g][i].data)
                    /\ \A i \in DOMAIN answers[g] : IsState(answers[g][i].data)

-----------------------------------------------------------------------------
(* Gets and the worker queue *)

IsListen(i, g)   == tasks[i].kind = "listen" /\ tasks[i].g = g
IsUnlisten(i, g) == tasks[i].kind = "unlisten" /\ tasks[i].g = g

\* When the listen at i is run, a get that may not be older still listens.
Joins(i, g) ==
  \E m \in DOMAIN asked :
    /\ asked[m] = asked[g] /\ floor[m] = floor[g]
    /\ m \in listeners[asked[g]] \/ \E j \in DOMAIN tasks : j < i /\ IsListen(j, m)
    /\ \A j \in DOMAIN tasks : j < i => ~IsUnlisten(j, m)

\* When the listen at i is run, nothing listens to its query.
Alone(i, g) ==
  /\ \A h \in listeners[asked[g]] : \E j \in DOMAIN tasks : j < i /\ IsUnlisten(j, h)
  /\ \A j \in DOMAIN tasks : j < i /\ tasks[j].kind = "listen" => asked[tasks[j].g] # asked[g]

TasksInv ==
  /\ gone \subseteq DOMAIN asked
  /\ \A g \in DOMAIN asked : floor[g] <= version
  /\ \A i \in DOMAIN tasks : \A g \in DOMAIN asked : IsListen(i, g) =>
       /\ g \in Unanswered /\ events[g] = <<>> /\ g \notin listeners[asked[g]]
       /\ \A j \in DOMAIN tasks : IsListen(j, g) => j = i
       /\ Joins(i, g) \/ Alone(i, g)
  /\ \A i \in DOMAIN tasks : \A g \in DOMAIN asked : IsUnlisten(i, g) => answers[g] # <<>>
  /\ \A q \in Query : \A g \in listeners[q] :
       /\ g \notin gone
       /\ answers[g] # <<>> => \E i \in DOMAIN tasks : IsUnlisten(i, g)
  /\ \A g \in Unanswered :
       g \in listeners[asked[g]] \/ \E i \in DOMAIN tasks : IsListen(i, g)

-----------------------------------------------------------------------------
(* What is synchronised *)

\* What the gets that listen to q are owed: data not older than these versions.
Owed(q) == {floor[g] : g \in listeners[q] \ hasty}

\* A target that is current, of a query with the cache c and listeners if active.
Known(s, q, c, active, owed) ==
  s.targets[q].current =>
    /\ \A n \in owed : 1..n \subseteq c \cup s.docs[q]
    /\ active \/ s.targets[q].pending > 0
    /\ s.state = "Open"

\* The last acknowledgement for q tells whether the backend serves q.
Told(s, q) ==
  \A i \in DOMAIN s.in : s.in[i] \in AcksFor(q) /\ Fresh(s, q, i + 1) =>
    (s.in[i].removed <=> ~Served(s, q))

\* The backend was asked late enough, and says current late enough.
InTime(s, q, owed) ==
  \A n \in owed :
    /\ n <= s.served[q].since
    /\ \A i \in DOMAIN s.in :
         Fresh(s, q, i) /\ s.in[i].kind = "current" /\ s.in[i].q = q => n <= s.in[i].token

Answering(s, q, owed) ==
  Settled(s, q) => Told(s, q) /\ (Served(s, q) => InTime(s, q, owed))

FreshInv ==
  /\ \A q \in Query :
       /\ Known(stream, q, cache[q], Active(q), Owed(q))
       /\ Answering(stream, q, Owed(q))
       /\ Active(q) /\ view[q].current => \A n \in Owed(q) : 1..n \subseteq cache[q]
  /\ \A g \in Get \ hasty :
       /\ \A i \in DOMAIN events[g] : events[g][i].synced => 1..floor[g] \subseteq events[g][i].data
       /\ \A i \in DOMAIN answers[g] : answers[g][i].synced => 1..floor[g] \subseteq answers[g][i].data

-----------------------------------------------------------------------------
(* Steps of the stream, seen from one query *)

LEMMA NoDataLost ==
  ASSUME NEW s, NEW t, NEW q \in Query, NEW c, NEW n, NEW i,
         t.in = s.in, t.docs[q] = s.docs[q], Covered(s, q, c, n, i)
  PROVE  Covered(t, q, c, n, i)
<1>1. \A j \in DOMAIN s.in : Fresh(t, q, j) <=> Fresh(s, q, j)
  BY DEF Fresh
<1>2. \A j \in DOMAIN s.in, x \in 1..n : Carries(t, q, j, x) <=> Carries(s, q, j, x)
  BY <1>1 DEF Carries
<1> QED
  BY <1>2 DEF Covered

LEMMA SameComplete ==
  ASSUME NEW s, NEW t, NEW q \in Query, NEW c,
         t.in = s.in, t.docs[q] = s.docs[q], t.served[q].sent = s.served[q].sent,
         Complete(s, q, c)
  PROVE  Complete(t, q, c)
<1>1. \A i \in DOMAIN s.in : Fresh(t, q, i) <=> Fresh(s, q, i)
  BY DEF Fresh
<1>2. ASSUME NEW i \in DOMAIN t.in, Fresh(t, q, i), NEW n \in Claims(t.in[i], q)
      PROVE  Covered(t, q, c, n, i)
  <2>1. Covered(s, q, c, n, i)
    BY <1>1, <1>2 DEF Complete
  <2> QED
    BY <2>1, NoDataLost
<1>3. Covered(t, q, c, t.served[q].sent, Len(t.in))
  <2>1. Covered(s, q, c, t.served[q].sent, Len(t.in))
    BY DEF Complete
  <2> QED
    BY <2>1, NoDataLost
<1> QED
  BY <1>2, <1>3 DEF Complete

\* Steps that concern neither requests nor responses.
LEMMA SameData ==
  ASSUME NEW s, NEW t, NEW q \in Query, NEW c, NEW active, NEW wanted,
         DataInv(s, q, c, active),
         t.in = s.in, t.out = s.out, t.docs[q] = s.docs[q], t.served[q] = s.served[q],
         t.targets[q].token = s.targets[q].token, 1..t.held[q] \subseteq c,
         t.state = "Open" <=> s.state = "Open",
         t.state = "Open" => wanted = active
  PROVE  DataInv(t, q, c, wanted)
<1>1. Settled(t, q) <=> Settled(s, q)
  BY DEF Settled
<1>2. Served(t, q) <=> Served(s, q)
  BY DEF Served
<1>3. t.state = "Open" => Wanted(t, q, wanted)
  BY <1>1, <1>2 DEF DataInv, Wanted
<1>4. t.state # "Open" => ~Served(t, q)
  BY <1>2 DEF DataInv
<1>5. Settled(t, q) /\ Served(t, q) => Complete(t, q, c)
  BY <1>1, <1>2, SameComplete DEF DataInv
<1>6. \A i \in DOMAIN t.out :
        t.out[i].kind = "watch" /\ t.out[i].q = q => 1..t.out[i].token \subseteq c
  BY DEF DataInv
<1> QED
  BY <1>3, <1>4, <1>5, <1>6 DEF DataInv

LEMMA ClosedData ==
  ASSUME NEW t, NEW q \in Query, NEW c, IsState(c), NEW active,
         t.docs[q] = {}, t.served[q] = Unserved, t.targets[q] = NoTarget,
         t.out = <<>>, t.state # "Open", 1..t.held[q] \subseteq c
  PROVE  DataInv(t, q, c, active)
<1>1. ~Served(t, q)
  BY DEF Served, Unserved
<1>2. 1..t.targets[q].token = {}
  BY DEF NoTarget
<1>3. c \cup t.docs[q] = c
  OBVIOUS
<1>4. \A i \in DOMAIN t.out : FALSE
  OBVIOUS
<1> QED
  BY <1>1, <1>2, <1>3, <1>4 DEF DataInv

LEMMA CloseData ==
  ASSUME NEW s, NEW q \in Query, NEW c, NEW active, NEW wanted, NEW graceful \in BOOLEAN,
         DataInv(s, q, c, active)
  PROVE  DataInv(Close(s, graceful), q, c, wanted)
<1> DEFINE t == Close(s, graceful)
<1>1. /\ t.docs[q] = {} /\ t.served[q] = Unserved /\ t.targets[q] = NoTarget
      /\ t.out = <<>> /\ t.state # "Open" /\ t.held = s.held
  BY DEF Close, Closed
<1> HIDE DEF t
<1>2. IsState(c) /\ 1..t.held[q] \subseteq c
  BY <1>1 DEF DataInv
<1>3. DataInv(t, q, c, wanted)
  BY <1>1, <1>2, ClosedData
<1> QED
  BY <1>3 DEF t

LEMMA StartData ==
  ASSUME NEW s, s \in Stream, ~IsStarted(s), NEW q \in Query, NEW c, NEW active, NEW wanted,
         DataInv(s, q, c, active)
  PROVE  DataInv(Start(s), q, c, wanted)
<1> DEFINE t == Start(s)
<1>1. /\ t.in = s.in /\ t.out = s.out /\ t.docs = s.docs /\ t.served = s.served
      /\ t.targets = s.targets /\ t.held = s.held
      /\ t.state # "Open" /\ s.state # "Open"
  BY DEF Start, Stream, IsStarted
<1> HIDE DEF t
<1>2. 1..t.held[q] \subseteq c
  BY <1>1 DEF DataInv
<1>3. DataInv(t, q, c, wanted)
  BY <1>1, <1>2, SameData
<1> QED
  BY <1>3 DEF t

\* A request for p is sent.
LEMMA RequestData ==
  ASSUME NEW s, s \in Stream, s.state = "Open", NEW q \in Query, NEW c, NEW active,
         DataInv(s, q, c, active),
         NEW t, t.in = s.in, t.docs[q] = s.docs[q], t.served[q] = s.served[q],
         t.targets[q].token = s.targets[q].token, t.held[q] = s.held[q], t.state = "Open",
         NEW m \in Request, t.out = Append(s.out, m),
         m.kind = "watch" /\ m.q = q => 1..m.token \subseteq c,
         NEW wanted, m.q = q => (wanted <=> m.kind = "watch"), m.q # q => wanted = active
  PROVE  DataInv(t, q, c, wanted)
<1>1. s.out \in Seq(Request)
  BY DEF Stream
<1>2. /\ DOMAIN t.out = 1..(Len(s.out) + 1) /\ Len(s.out) \in Nat /\ DOMAIN s.out = 1..Len(s.out)
      /\ \A i \in DOMAIN s.out : t.out[i] = s.out[i]
      /\ t.out[Len(s.out) + 1] = m
  BY <1>1
<1>3. Settled(t, q) <=> Settled(s, q) /\ m.q # q
  BY <1>2 DEF Settled
<1>4. Served(t, q) <=> Served(s, q)
  BY DEF Served
<1>5. Wanted(s, q, active)
  BY DEF DataInv
<1>6. Wanted(t, q, wanted)
  <2>1. Settled(t, q) => (Served(t, q) <=> wanted)
    BY <1>3, <1>4, <1>5 DEF Wanted
  <2>2. ASSUME NEW i \in DOMAIN t.out, t.out[i].q = q,
               \A j \in DOMAIN t.out : j > i => t.out[j].q # q
        PROVE  t.out[i].kind = "watch" <=> wanted
    <3>1. CASE m.q = q
      <4>1. i = Len(s.out) + 1
        BY <1>2, <2>2, <3>1
      <4> QED
        BY <1>2, <3>1, <4>1
    <3>2. CASE m.q # q
      <4>1. i \in DOMAIN s.out
        BY <1>2, <2>2, <3>2
      <4>2. \A j \in DOMAIN s.out : j > i => s.out[j].q # q
        BY <1>2, <2>2
      <4>3. s.out[i].q = q /\ s.out[i] = t.out[i]
        BY <1>2, <2>2, <4>1
      <4> QED
        BY <1>5, <3>2, <4>1, <4>2, <4>3 DEF Wanted
    <3> QED
      BY <3>1, <3>2
  <2> QED
    BY <2>1, <2>2 DEF Wanted
<1>7. \A i \in DOMAIN t.out :
        t.out[i].kind = "watch" /\ t.out[i].q = q => 1..t.out[i].token \subseteq c
  <2>1. ASSUME NEW i \in DOMAIN t.out, t.out[i].kind = "watch", t.out[i].q = q
        PROVE  1..t.out[i].token \subseteq c
    <3>1. CASE i = Len(s.out) + 1
      BY <1>2, <2>1, <3>1
    <3>2. CASE i \in DOMAIN s.out
      BY <1>2, <2>1, <3>2 DEF DataInv
    <3> QED
      BY <1>2, <3>1, <3>2
  <2> QED
    BY <2>1
<1>8. Settled(t, q) /\ Served(t, q) => Complete(t, q, c)
  BY <1>3, <1>4, SameComplete DEF DataInv
<1> QED
  BY <1>6, <1>7, <1>8 DEF DataInv

LEMMA SendWatchData ==
  ASSUME NEW s, s \in Stream, s.state = "Open", NEW p \in Query, NEW q \in Query, NEW c,
         NEW active, DataInv(s, q, c, active),
         NEW wanted, wanted = IF p = q THEN TRUE ELSE active
  PROVE  DataInv(SendWatch(s, p), q, c, wanted)
<1> DEFINE t == SendWatch(s, p)
           m == [kind |-> "watch", q |-> p, token |-> s.held[p]]
<1>1. m \in Request /\ m.kind = "watch" /\ m.q = p /\ m.token = s.held[p]
  BY DEF Stream, Request
<1>2. /\ t.in = s.in /\ t.docs = s.docs /\ t.served = s.served /\ t.held = s.held
      /\ t.state = s.state /\ t.out = Append(s.out, m)
      /\ t.targets[q].token = s.targets[q].token
  BY DEF SendWatch, Stream, TargetState
<1> HIDE DEF t, m
<1>3. m.kind = "watch" /\ m.q = q => 1..m.token \subseteq c
  BY <1>1 DEF DataInv
<1>4. DataInv(t, q, c, wanted)
  BY <1>1, <1>2, <1>3, RequestData
<1> QED
  BY <1>4 DEF t

LEMMA StopListeningData ==
  ASSUME NEW s, s \in Stream, NEW p \in Query, NEW q \in Query, NEW c,
         NEW active, DataInv(s, q, c, active), NEW left \in BOOLEAN,
         NEW wanted, wanted = IF p = q THEN FALSE ELSE active
  PROVE  DataInv(StopListening(s, p, left), q, c, wanted)
<1> DEFINE t == StopListening(s, p, left)
           m == [kind |-> "unwatch", q |-> p]
<1>1. CASE s.state # "Open"
  <2>1. t = s
    BY <1>1 DEF StopListening
  <2> HIDE DEF t
  <2>2. 1..s.held[q] \subseteq c
    BY DEF DataInv
  <2>3. DataInv(t, q, c, wanted)
    BY <1>1, <2>1, <2>2, SameData
  <2> QED
    BY <2>3 DEF t
<1>2. CASE s.state = "Open"
  <2>1. m \in Request /\ m.kind = "unwatch" /\ m.q = p
    BY DEF Request
  <2>2. /\ t.in = s.in /\ t.docs = s.docs /\ t.served = s.served /\ t.held = s.held
        /\ t.state = s.state /\ t.out = Append(s.out, m)
        /\ t.targets[q].token = s.targets[q].token
    BY <1>2 DEF StopListening, SendUnwatch, Stream, TargetState
  <2> HIDE DEF t, m
  <2>3. (m.q = q => (wanted <=> m.kind = "watch")) /\ (m.q # q => wanted = active)
    BY <2>1
  <2>4. m.kind = "watch" /\ m.q = q => 1..m.token \subseteq c
    BY <2>1
  <2>7. s.state = "Open" /\ t.in = s.in /\ t.out = Append(s.out, m) /\ m \in Request
        /\ t.targets[q].token = s.targets[q].token
    BY <1>2, <2>1, <2>2
  <2>5. /\ t.docs[q] = s.docs[q] /\ t.served[q] = s.served[q] /\ t.held[q] = s.held[q]
        /\ t.state = "Open"
    BY <1>2, <2>2
  <2>6. DataInv(t, q, c, wanted)
    BY <2>3, <2>4, <2>5, <2>7, RequestData
  <2> QED
    BY <2>6 DEF t
<1> QED
  BY <1>1, <1>2

LEMMA HeldData ==
  ASSUME NEW s, s \in Stream, NEW p \in Query, NEW q \in Query, NEW c, NEW active,
         DataInv(s, q, c, active), NEW v, p = q => 1..v \subseteq c
  PROVE  DataInv([s EXCEPT !.held[p] = v], q, c, active)
<1> DEFINE t == [s EXCEPT !.held[p] = v]
<1>1. /\ t.in = s.in /\ t.docs = s.docs /\ t.served = s.served /\ t.out = s.out
      /\ t.state = s.state /\ t.targets = s.targets
      /\ t.held[q] = IF p = q THEN v ELSE s.held[q]
  BY DEF Stream
<1> HIDE DEF t
<1>2. 1..t.held[q] \subseteq c
  BY <1>1 DEF DataInv
<1>3. DataInv(t, q, c, active)
  BY <1>1, <1>2, SameData
<1> QED
  BY <1>3 DEF t

LEMMA ListenData ==
  ASSUME IInv, StateInv, NEW p \in Query, NEW q \in Query,
         NEW wanted, wanted = IF p = q THEN TRUE ELSE Active(q)
  PROVE  DataInv(Listen(p), q, cache[q], wanted)
<1> DEFINE s == [stream EXCEPT !.held[p] = token[p]]
           c == cache[q]
<1>1. stream \in Stream /\ StreamInv(stream) /\ DataInv(stream, q, c, Active(q))
  BY OnlineNow DEF StateInv
<1>2. token[p] \in Version /\ 1..token[p] \subseteq cache[p]
  BY DEF IInv, TypeOK, StateInv
<1>3. StreamInv(s)
  BY <1>1, <1>2, HeldInv
<1>4. p = q => 1..token[p] \subseteq c
  BY <1>2
<1> HIDE DEF c
<1>5. DataInv(s, q, c, Active(q))
  BY <1>1, <1>4, HeldData
<1>6. Listen(p) = CASE ~IsStarted(s)    -> Start(s)
                    [] s.state = "Open" -> SendWatch(s, p)
                    [] OTHER            -> s
  BY DEF Listen
<1>7. s \in Stream
  BY <1>3 DEF StreamInv
<1> HIDE DEF s
<1>8. CASE ~IsStarted(s)
  <2>1. Listen(p) = Start(s)
    BY <1>6, <1>8 DEF IsStarted
  <2>2. DataInv(Start(s), q, c, wanted)
    BY <1>5, <1>7, <1>8, StartData
  <2> QED
    BY <2>1, <2>2 DEF c
<1>9. CASE s.state = "Open"
  <2>1. Listen(p) = SendWatch(s, p)
    BY <1>6, <1>9 DEF IsStarted
  <2> QED
    BY <1>5, <1>7, <1>9, <2>1, SendWatchData DEF c
<1>10. CASE IsStarted(s) /\ s.state # "Open"
  <2>1. Listen(p) = s
    BY <1>6, <1>10
  <2>2. 1..s.held[q] \subseteq c
    BY <1>5 DEF DataInv
  <2>3. DataInv(s, q, c, wanted)
    BY <1>5, <1>10, <2>2, SameData
  <2> QED
    BY <2>1, <2>3 DEF c
<1> QED
  BY <1>8, <1>9, <1>10

LEMMA OpenData ==
  ASSUME NEW s, StreamInv(s), s.state = "Starting",
         NEW order \in SetToSeqs({p \in Query : Active(p)}),
         NEW q \in Query, NEW c, DataInv(s, q, c, Active(q))
  PROVE  DataInv(Open(s, order), q, c, Active(q))
<1> DEFINE A == {p \in Query : Active(p)}
           n == Cardinality(A)
           t == Open(s, order)
<1>1. s \in Stream /\ s.in = <<>>
  BY DEF StreamInv
<1>2. A \subseteq Query /\ IsFiniteSet(A) /\ n \in Nat
  BY GetsAssumption, FS_Subset, FS_CardinalityType
<1>3. /\ order \in [1..n -> A]
      /\ \A i, j \in 1..n : order[i] = order[j] => i = j
  BY DEF SetToSeqs
<1>4. \A p \in A : \E i \in 1..n : order[i] = p
  <2>1. IsFiniteSet(1..n) /\ Cardinality(1..n) = n
    BY <1>2, FS_Interval
  <2> HIDE DEF A
  <2>2. order \in Injection(1..n, A)
    BY <1>3 DEF Injection, IsInjective
  <2>3. order \in Surjection(1..n, A)
    BY <1>2, <2>1, <2>2, FS_Injection
  <2> QED
    BY <2>3 DEF Surjection
<1>5. /\ t.in = <<>> /\ t.docs = s.docs /\ t.served = s.served /\ t.held = s.held
      /\ t.state = "Open" /\ t.targets[q].token = s.targets[q].token
  BY <1>1 DEF Open, Stream, TargetState
<1>6. /\ DOMAIN t.out = 1..n
      /\ \A i \in 1..n : t.out[i] = [kind |-> "watch", q |-> order[i], token |-> s.held[order[i]]]
  <2>1. t.out = [i \in DOMAIN order |->
                   [kind |-> "watch", q |-> order[i], token |-> s.held[order[i]]]]
    BY <1>1 DEF Open, Stream
  <2> HIDE DEF t, n
  <2> QED
    BY <1>3, <2>1
<1>7. \A p \in Query : p \in A <=> Active(p)
  OBVIOUS
<1> HIDE DEF t, n, A
<1>14. \A i \in DOMAIN t.out :
         t.out[i].kind = "watch" /\ t.out[i].q = order[i] /\ t.out[i].token = s.held[order[i]]
  <2>1. ASSUME NEW i \in DOMAIN t.out
        PROVE  t.out[i].kind = "watch" /\ t.out[i].q = order[i] /\ t.out[i].token = s.held[order[i]]
    <3>1. t.out[i] = [kind |-> "watch", q |-> order[i], token |-> s.held[order[i]]]
      BY <1>6, <2>1
    <3> QED
      BY <3>1
  <2> QED
    BY <2>1
<1>15. \A i \in DOMAIN t.out : order[i] \in A
  BY <1>3, <1>6
<1>8. Settled(t, q) <=> ~Active(q)
  BY <1>4, <1>6, <1>7, <1>14, <1>15 DEF Settled
<1>9. ~Served(t, q)
  BY <1>5 DEF DataInv, Served
<1>10. \A i \in DOMAIN t.out : t.out[i].q = q => t.out[i].kind = "watch" /\ Active(q)
  BY <1>7, <1>14, <1>15
<1>11. Wanted(t, q, Active(q))
  BY <1>8, <1>9, <1>10 DEF Wanted
<1>12. \A i \in DOMAIN t.out :
         t.out[i].kind = "watch" /\ t.out[i].q = q => 1..t.out[i].token \subseteq c
  BY <1>14 DEF DataInv
<1>13. DataInv(t, q, c, Active(q))
  BY <1>5, <1>9, <1>11, <1>12 DEF DataInv
<1> QED
  BY <1>13 DEF t

-----------------------------------------------------------------------------
(* Requests served, responses sent and read, seen from one query *)

LEMMA Appended ==
  ASSUME NEW S, NEW a \in Seq(S), NEW m
  PROVE  /\ Len(a) \in Nat /\ DOMAIN a = 1..Len(a)
         /\ Len(Append(a, m)) = Len(a) + 1 /\ DOMAIN Append(a, m) = 1..(Len(a) + 1)
         /\ \A i \in DOMAIN a : Append(a, m)[i] = a[i]
         /\ Append(a, m)[Len(a) + 1] = m
OBVIOUS

LEMMA Shifted ==
  ASSUME NEW S, NEW a \in Seq(S), a # <<>>
  PROVE  /\ Len(a) \in Nat \ {0} /\ DOMAIN a = 1..Len(a) /\ Head(a) = a[1]
         /\ Len(Tail(a)) = Len(a) - 1 /\ DOMAIN Tail(a) = 1..(Len(a) - 1)
         /\ \A i \in DOMAIN Tail(a) : Tail(a)[i] = a[i + 1]
OBVIOUS

\* A response other than an acknowledgement for q is sent.
LEMMA SentFresh ==
  ASSUME NEW s, NEW t, NEW q \in Query, s.in \in Seq(Response),
         NEW m, m \notin AcksFor(q), t.in = Append(s.in, m)
  PROVE  /\ \A i \in DOMAIN s.in : Fresh(t, q, i) <=> Fresh(s, q, i)
         /\ Fresh(t, q, Len(s.in) + 1)
         /\ \A i \in DOMAIN s.in : \A x : Carries(t, q, i, x) <=> Carries(s, q, i, x)
<1>1. /\ Len(s.in) \in Nat /\ DOMAIN s.in = 1..Len(s.in)
      /\ DOMAIN t.in = 1..(Len(s.in) + 1)
      /\ \A i \in DOMAIN s.in : t.in[i] = s.in[i]
      /\ t.in[Len(s.in) + 1] = m
  BY Appended
<1>2. \A i \in DOMAIN s.in : Fresh(t, q, i) <=> Fresh(s, q, i)
  BY <1>1 DEF Fresh
<1>3. Fresh(t, q, Len(s.in) + 1)
  BY <1>1 DEF Fresh
<1> QED
  BY <1>1, <1>2, <1>3 DEF Carries

LEMMA SentCovered ==
  ASSUME NEW s, NEW t, NEW q \in Query, s.in \in Seq(Response), NEW c,
         NEW m, m \notin AcksFor(q), t.in = Append(s.in, m), t.docs[q] = s.docs[q],
         NEW n, NEW i \in Int, Covered(s, q, c, n, i),
         NEW k \in Int, i <= k
  PROVE  Covered(t, q, c, n, k)
<1>1. DOMAIN s.in \subseteq DOMAIN t.in /\ DOMAIN s.in \subseteq Int
  BY Appended
<1>2. \A j \in DOMAIN s.in : \A x : Carries(t, q, j, x) <=> Carries(s, q, j, x)
  BY SentFresh
<1>3. \A j \in DOMAIN s.in : j <= i => j <= k
  BY <1>1
<1> QED
  BY <1>1, <1>2, <1>3 DEF Covered

LEMMA SentComplete ==
  ASSUME NEW s, NEW t, NEW q \in Query, s.in \in Seq(Response), NEW c,
         NEW m, m \notin AcksFor(q), t.in = Append(s.in, m), t.docs[q] = s.docs[q],
         Complete(s, q, c),
         \A n \in Claims(m, q) : Covered(t, q, c, n, Len(s.in) + 1),
         Covered(t, q, c, t.served[q].sent, Len(s.in) + 1)
  PROVE  Complete(t, q, c)
<1>1. /\ Len(s.in) \in Nat /\ DOMAIN s.in = 1..Len(s.in)
      /\ Len(t.in) = Len(s.in) + 1 /\ DOMAIN t.in = 1..(Len(s.in) + 1)
      /\ \A i \in DOMAIN s.in : t.in[i] = s.in[i]
      /\ t.in[Len(s.in) + 1] = m
  BY Appended
<1>2. \A i \in DOMAIN s.in : Fresh(t, q, i) <=> Fresh(s, q, i)
  BY SentFresh
<1>3. ASSUME NEW i \in DOMAIN t.in, Fresh(t, q, i), NEW n \in Claims(t.in[i], q)
      PROVE  Covered(t, q, c, n, i)
  <2>1. CASE i \in DOMAIN s.in
    <3>1. Covered(s, q, c, n, i) /\ i \in Int /\ i <= i
      BY <1>1, <1>2, <1>3, <2>1 DEF Complete
    <3> QED
      BY <3>1, SentCovered
  <2>2. CASE i = Len(s.in) + 1
    BY <1>1, <1>3, <2>2
  <2> QED
    BY <1>1, <2>1, <2>2
<1> QED
  BY <1>1, <1>3 DEF Complete

\* The backend takes a request and acknowledges it.
LEMMA ServeData ==
  ASSUME NEW s, s \in Stream, s.state = "Open", s.out # <<>>,
         NEW q \in Query, NEW c, NEW active, DataInv(s, q, c, active),
         NEW a \in Response, a.kind = "ack", a.q = Head(s.out).q,
         NEW t, t.state = "Open", t.out = Tail(s.out), t.in = Append(s.in, a),
         t.docs[q] = s.docs[q], t.held[q] = s.held[q],
         t.targets[q].token = s.targets[q].token,
         IF Head(s.out).q = q
           THEN /\ Served(t, q) <=> Head(s.out).kind = "watch"
                /\ Head(s.out).kind = "watch" => t.served[q].sent = Head(s.out).token
           ELSE t.served[q] = s.served[q]
  PROVE  DataInv(t, q, c, active)
<1>1. s.out \in Seq(Request) /\ s.in \in Seq(Response)
  BY DEF Stream
<1>2. /\ Len(s.out) \in Nat \ {0} /\ DOMAIN s.out = 1..Len(s.out) /\ Head(s.out) = s.out[1]
      /\ DOMAIN t.out = 1..(Len(s.out) - 1)
      /\ \A i \in DOMAIN t.out : t.out[i] = s.out[i + 1]
  BY <1>1, Shifted
<1>3. Wanted(s, q, active)
  BY DEF DataInv
<1>4. \A i \in DOMAIN t.out :
        t.out[i].q = q /\ (\A j \in DOMAIN t.out : j > i => t.out[j].q # q)
          => (t.out[i].kind = "watch" <=> active)
  <2>1. ASSUME NEW i \in DOMAIN t.out, t.out[i].q = q,
               \A j \in DOMAIN t.out : j > i => t.out[j].q # q
        PROVE  t.out[i].kind = "watch" <=> active
    <3>1. i + 1 \in DOMAIN s.out /\ s.out[i + 1] = t.out[i] /\ i \in Nat
      BY <1>2, <2>1
    <3>2. ASSUME NEW k \in DOMAIN s.out, k > i + 1 PROVE s.out[k].q # q
      <4>1. k - 1 \in DOMAIN t.out /\ k - 1 > i /\ (k - 1) + 1 = k
        BY <1>2, <3>1, <3>2
      <4> QED
        BY <1>2, <2>1, <4>1
    <3> QED
      BY <1>3, <2>1, <3>1, <3>2 DEF Wanted
  <2> QED
    BY <2>1
<1>5. \A i \in DOMAIN t.out :
        t.out[i].kind = "watch" /\ t.out[i].q = q => 1..t.out[i].token \subseteq c
  <2>1. ASSUME NEW i \in DOMAIN t.out, t.out[i].kind = "watch", t.out[i].q = q
        PROVE  1..t.out[i].token \subseteq c
    <3>1. i + 1 \in DOMAIN s.out /\ s.out[i + 1] = t.out[i]
      BY <1>2, <2>1
    <3> QED
      BY <2>1, <3>1 DEF DataInv
  <2> QED
    BY <2>1
<1>6. CASE Head(s.out).q = q
  <2>1. Settled(t, q) => (Served(t, q) <=> active)
    <3>1. ASSUME Settled(t, q) PROVE \A k \in DOMAIN s.out : k > 1 => s.out[k].q # q
      <4>1. ASSUME NEW k \in DOMAIN s.out, k > 1 PROVE s.out[k].q # q
        <5>1. k - 1 \in DOMAIN t.out /\ (k - 1) + 1 = k
          BY <1>2, <4>1
        <5> QED
          BY <1>2, <3>1, <5>1 DEF Settled
      <4> QED
        BY <4>1
    <3>2. 1 \in DOMAIN s.out
      BY <1>2
    <3> QED
      BY <1>2, <1>3, <1>6, <3>1, <3>2 DEF Wanted
  <2>2. \A i \in DOMAIN t.in : ~Fresh(t, q, i)
    <3>1. a \in AcksFor(q)
      BY <1>6 DEF AcksFor
    <3>2. /\ Len(s.in) \in Nat /\ DOMAIN t.in = 1..(Len(s.in) + 1)
          /\ t.in[Len(s.in) + 1] = a
      BY <1>1, Appended
    <3> QED
      BY <3>1, <3>2 DEF Fresh
  <2>3. Served(t, q) => Covered(t, q, c, t.served[q].sent, Len(t.in))
    <3>1. Served(t, q) => 1..t.served[q].sent \subseteq c
      <4>1. 1 \in DOMAIN s.out
        BY <1>2
      <4> QED
        BY <1>2, <1>6, <4>1 DEF DataInv
    <3> QED
      BY <3>1 DEF Covered
  <2>4. Wanted(t, q, active)
    BY <1>4, <2>1 DEF Wanted
  <2>5. Served(t, q) => Complete(t, q, c)
    BY <2>2, <2>3 DEF Complete
  <2> QED
    BY <1>5, <2>4, <2>5 DEF DataInv
<1>7. CASE Head(s.out).q # q
  <2>1. Settled(t, q) <=> Settled(s, q)
    <3>1. ASSUME Settled(t, q), NEW k \in DOMAIN s.out PROVE s.out[k].q # q
      <4>1. CASE k = 1
        BY <1>2, <1>7, <4>1
      <4>2. CASE k # 1
        <5>1. k - 1 \in DOMAIN t.out /\ (k - 1) + 1 = k
          BY <1>2, <3>1, <4>2
        <5> QED
          BY <1>2, <3>1, <5>1 DEF Settled
      <4> QED
        BY <4>1, <4>2
    <3>2. ASSUME Settled(s, q), NEW k \in DOMAIN t.out PROVE t.out[k].q # q
      <4>1. k + 1 \in DOMAIN s.out
        BY <1>2, <3>2
      <4> QED
        BY <1>2, <3>2, <4>1 DEF Settled
    <3> QED
      BY <3>1, <3>2 DEF Settled
  <2>2. Served(t, q) <=> Served(s, q)
    BY <1>7 DEF Served
  <2>3. Wanted(t, q, active)
    BY <1>3, <1>4, <2>1, <2>2 DEF Wanted
  <2>4. a \notin AcksFor(q) /\ Claims(a, q) = {}
    BY <1>7 DEF AcksFor, Claims
  <2>5. Len(s.in) \in Int /\ Len(s.in) + 1 \in Int /\ Len(s.in) <= Len(s.in) + 1
    BY <1>1
  <2>6. Complete(s, q, c) => Complete(t, q, c)
    <3>1. Complete(s, q, c) => Covered(t, q, c, t.served[q].sent, Len(s.in) + 1)
      <4>1. Complete(s, q, c) => Covered(s, q, c, t.served[q].sent, Len(s.in))
        BY <1>7 DEF Complete
      <4> DEFINE n == t.served[q].sent
                 k == Len(s.in)
      <4>2. k \in Int /\ k + 1 \in Int /\ k <= k + 1
        BY <2>5
      <4> HIDE DEF n, k
      <4>3. Covered(s, q, c, n, k) => Covered(t, q, c, n, k + 1)
        BY <1>1, <2>4, <4>2, SentCovered
      <4> QED
        BY <4>1, <4>3 DEF n, k
    <3> QED
      BY <1>1, <2>4, <3>1, SentComplete
  <2> QED
    BY <1>5, <2>1, <2>2, <2>3, <2>6 DEF DataInv
<1> QED
  BY <1>6, <1>7

\* The backend sends a response that is no acknowledgement.
LEMMA RespondData ==
  ASSUME NEW s, s \in Stream, s.state = "Open",
         NEW q \in Query, NEW c, NEW active, DataInv(s, q, c, active),
         NEW m \in Response, m.kind # "ack",
         NEW t, t.state = "Open", t.out = s.out, t.in = Append(s.in, m),
         t.docs[q] = s.docs[q], t.held[q] = s.held[q],
         t.targets[q].token = s.targets[q].token,
         Served(t, q) <=> Served(s, q),
         Settled(s, q) /\ Served(s, q) =>
           /\ \A n \in Claims(m, q) : Covered(t, q, c, n, Len(s.in) + 1)
           /\ Covered(t, q, c, t.served[q].sent, Len(s.in) + 1)
  PROVE  DataInv(t, q, c, active)
<1>1. s.in \in Seq(Response) /\ m \notin AcksFor(q)
  BY DEF Stream, AcksFor
<1>2. Settled(t, q) <=> Settled(s, q)
  BY DEF Settled
<1>3. Wanted(t, q, active)
  BY <1>2 DEF DataInv, Wanted
<1>4. Settled(s, q) /\ Served(s, q) => Complete(t, q, c)
  BY <1>1, SentComplete DEF DataInv
<1>5. \A i \in DOMAIN t.out :
        t.out[i].kind = "watch" /\ t.out[i].q = q => 1..t.out[i].token \subseteq c
  BY DEF DataInv
<1> QED
  BY <1>2, <1>3, <1>4, <1>5 DEF DataInv

\* The client reads a response: what it learns is in its cache d or in docs.
LEMMA ReadData ==
  ASSUME NEW s, s \in Stream, s.state = "Open", s.in # <<>>,
         NEW q \in Query, NEW c, NEW active, DataInv(s, q, c, active),
         NEW t, t.state = "Open", t.out = s.out, t.in = Tail(s.in), t.served[q] = s.served[q],
         NEW d, c \subseteq d, c \cup s.docs[q] \subseteq d \cup t.docs[q],
         IsState(d), IsState(d \cup t.docs[q]),
         1..t.held[q] \subseteq d, 1..t.targets[q].token \subseteq d \cup t.docs[q],
         Settled(s, q) /\ Served(s, q) =>
           \A x : Carries(s, q, 1, x) => x \in d \cup t.docs[q]
  PROVE  DataInv(t, q, d, active)
<1>1. s.in \in Seq(Response)
  BY DEF Stream
<1>2. /\ Len(s.in) \in Nat \ {0} /\ DOMAIN s.in = 1..Len(s.in)
      /\ Len(t.in) = Len(s.in) - 1 /\ DOMAIN t.in = 1..(Len(s.in) - 1)
      /\ \A i \in DOMAIN t.in : t.in[i] = s.in[i + 1]
  BY <1>1, Shifted
<1>3. ASSUME NEW i \in DOMAIN t.in
      PROVE  /\ i + 1 \in DOMAIN s.in /\ t.in[i] = s.in[i + 1]
             /\ Fresh(t, q, i) <=> Fresh(s, q, i + 1)
             /\ \A x : Carries(t, q, i, x) <=> Carries(s, q, i + 1, x)
  <2>1. i + 1 \in DOMAIN s.in /\ t.in[i] = s.in[i + 1] /\ i \in Nat
    BY <1>2, <1>3
  <2>2. ASSUME Fresh(t, q, i), NEW k \in DOMAIN s.in, k >= i + 1 PROVE s.in[k] \notin AcksFor(q)
    <3>1. k - 1 \in DOMAIN t.in /\ k - 1 >= i /\ (k - 1) + 1 = k
      BY <1>2, <2>1, <2>2
    <3> QED
      BY <1>2, <2>2, <3>1 DEF Fresh
  <2>3. ASSUME Fresh(s, q, i + 1), NEW k \in DOMAIN t.in, k >= i PROVE t.in[k] \notin AcksFor(q)
    <3>1. k + 1 \in DOMAIN s.in /\ k + 1 >= i + 1
      BY <1>2, <2>1, <2>3
    <3> QED
      BY <1>2, <2>3, <3>1 DEF Fresh
  <2>4. Fresh(t, q, i) <=> Fresh(s, q, i + 1)
    BY <2>2, <2>3 DEF Fresh
  <2> QED
    BY <2>1, <2>4 DEF Carries
<1>4. Settled(t, q) <=> Settled(s, q)
  BY DEF Settled
<1>5. Served(t, q) <=> Served(s, q)
  BY DEF Served
<1>6. Wanted(t, q, active)
  BY <1>4, <1>5 DEF DataInv, Wanted
<1>7. \A i \in DOMAIN t.out :
        t.out[i].kind = "watch" /\ t.out[i].q = q => 1..t.out[i].token \subseteq d
  BY DEF DataInv
<1>8. ASSUME Settled(s, q), Served(s, q), NEW n, NEW i \in Int, Covered(s, q, c, n, i + 1)
      PROVE  Covered(t, q, d, n, i)
  <2>1. ASSUME NEW x \in 1..n
        PROVE  x \in d \cup t.docs[q] \/ \E j \in DOMAIN t.in : j <= i /\ Carries(t, q, j, x)
    <3>1. CASE x \in c \cup s.docs[q]
      BY <3>1
    <3>2. ASSUME NEW j \in DOMAIN s.in, j <= i + 1, Carries(s, q, j, x)
          PROVE  x \in d \cup t.docs[q] \/ \E k \in DOMAIN t.in : k <= i /\ Carries(t, q, k, x)
      <4>1. CASE j = 1
        BY <1>8, <3>2, <4>1
      <4>2. CASE j # 1
        <5>1. j - 1 \in DOMAIN t.in /\ j - 1 <= i /\ (j - 1) + 1 = j
          BY <1>2, <3>2, <4>2
        <5>2. Carries(t, q, j - 1, x)
          BY <1>3, <3>2, <5>1
        <5> QED
          BY <5>1, <5>2
      <4> QED
        BY <4>1, <4>2
    <3> QED
      BY <1>8, <2>1, <3>1, <3>2 DEF Covered
  <2> QED
    BY <2>1 DEF Covered
<1>9. ASSUME Settled(s, q), Served(s, q) PROVE Complete(t, q, d)
  <2>1. Complete(s, q, c)
    BY <1>9 DEF DataInv
  <2>2. ASSUME NEW i \in DOMAIN t.in, Fresh(t, q, i), NEW n \in Claims(t.in[i], q)
        PROVE  Covered(t, q, d, n, i)
    <3>1. i + 1 \in DOMAIN s.in /\ t.in[i] = s.in[i + 1] /\ Fresh(s, q, i + 1) /\ i \in Int
      BY <1>2, <1>3, <2>2
    <3>2. Covered(s, q, c, n, i + 1)
      BY <2>1, <2>2, <3>1 DEF Complete
    <3> QED
      BY <1>8, <1>9, <3>1, <3>2
  <2>3. Covered(t, q, d, t.served[q].sent, Len(t.in))
    <3>1. Covered(s, q, c, t.served[q].sent, Len(t.in) + 1) /\ Len(t.in) \in Int
      BY <1>2, <2>1 DEF Complete
    <3> QED
      BY <1>8, <1>9, <3>1
  <2> QED
    BY <2>2, <2>3 DEF Complete
<1> QED
  BY <1>4, <1>5, <1>6, <1>7, <1>9 DEF DataInv

-----------------------------------------------------------------------------
(* No change is given without those before it: every step *)

LEMMA EmptyIsState == IsState({})
BY DEF IsState

LEMMA InitStates == Init => StateInv
<1> SUFFICES ASSUME Init PROVE StateInv
  OBVIOUS
<1>1. ASSUME NEW q \in Query PROVE DataInv(stream, q, cache[q], Active(q))
  <2>1. /\ stream.docs[q] = {} /\ stream.served[q] = Unserved /\ stream.targets[q] = NoTarget
        /\ stream.out = <<>> /\ stream.state # "Open" /\ stream.held[q] = 0
    BY DEF Init, Closed
  <2>2. cache[q] = {} /\ 1..0 = {}
    BY DEF Init
  <2> QED
    BY <2>1, <2>2, EmptyIsState, ClosedData
<1>2. ASSUME NEW q \in Query PROVE 1..token[q] \subseteq cache[q] /\ ~Active(q)
  BY DEF Init, Active
<1>3. \A g \in Get : events[g] = <<>> /\ answers[g] = <<>>
  BY DEF Init
<1> QED
  BY <1>1, <1>2, <1>3 DEF StateInv

LEMMA AppendedStates ==
  ASSUME NEW es \in Seq(Snapshot), \A i \in DOMAIN es : IsState(es[i].data),
         NEW e, IsState(e.data)
  PROVE  \A i \in DOMAIN Append(es, e) : IsState(Append(es, e)[i].data)
<1>1. ASSUME NEW i \in DOMAIN Append(es, e)
      PROVE  (i \in DOMAIN es /\ Append(es, e)[i] = es[i]) \/ Append(es, e)[i] = e
  OBVIOUS
<1> QED
  BY <1>1

LEMMA PublishedStates ==
  ASSUME IInv, StateInv, NEW vs \in [Query -> ViewRecord], NEW o, Publish(vs, o),
         \A q \in Query : Active(q) => IsState(vs[q].data)
  PROVE  \A g \in Get : \A i \in DOMAIN events'[g] : IsState(events'[g][i].data)
<1> SUFFICES ASSUME NEW g \in Get
             PROVE  \A i \in DOMAIN events'[g] : IsState(events'[g][i].data)
  OBVIOUS
<1>1. events[g] \in Seq(Snapshot) /\ \A i \in DOMAIN events[g] : IsState(events[g][i].data)
  BY DEF IInv, TypeOK, StateInv
<1>2. \/ events'[g] = events[g]
      \/ /\ \E q \in Query : g \in listeners[q]
         /\ events'[g] = Append(events[g], Event(vs[asked[g]]))
  BY DEF Publish
<1>3. ASSUME NEW q \in Query, g \in listeners[q] PROVE IsState(Event(vs[asked[g]]).data)
  <2>1. asked[g] = q /\ Active(q)
    BY <1>3 DEF IInv, GetsInv, Active
  <2> QED
    BY <2>1 DEF Event
<1> QED
  BY <1>1, <1>2, <1>3, AppendedStates

LEMMA SetOnlineKeeps ==
  ASSUME TypeOK, NEW o, SetOnline(o)
  PROVE  \E vs \in [Query -> ViewRecord] :
           /\ Publish(vs, o)
           /\ \A q \in Query : /\ vs[q].data = view[q].data
                               /\ vs[q].current => view[q].current
<1>1. view \in [Query -> ViewRecord]
  BY DEF TypeOK, ViewRecord
<1> DEFINE ws == [q \in Query |-> [view[q] EXCEPT !.current = FALSE]]
<1>2. /\ ws \in [Query -> ViewRecord]
      /\ \A q \in Query : ws[q].data = view[q].data /\ ~ws[q].current
  BY <1>1 DEF ViewRecord
<1>3. Publish(view, o) \/ Publish(ws, o)
  BY DEF SetOnline
<1> HIDE DEF ws
<1> QED
  BY <1>1, <1>2, <1>3

\* A step of RemoteStore.
LEMMA StatesAfter ==
  ASSUME IInv, StateInv, UNCHANGED <<listeners, answers>>,
         NEW vs \in [Query -> ViewRecord], NEW o, Publish(vs, o),
         \A q \in Query : /\ DataInv(stream', q, cache'[q], Active(q))
                          /\ 1..token'[q] \subseteq cache'[q]
                          /\ Active(q) => vs[q].data = cache'[q]
  PROVE  StateInv'
<1>1. \A q \in Query : Active(q) => IsState(vs[q].data)
  BY DEF DataInv
<1>2. \A g \in Get : \A i \in DOMAIN events'[g] : IsState(events'[g][i].data)
  BY <1>1, PublishedStates
<1>3. \A g \in Get : \A i \in DOMAIN answers'[g] : IsState(answers'[g][i].data)
  BY DEF StateInv
<1>4. view' = vs /\ \A q \in Query : Active(q)' <=> Active(q)
  BY DEF Publish, Active
<1>5. ASSUME NEW q \in Query
      PROVE  /\ DataInv(stream', q, cache'[q], Active(q)')
             /\ 1..token'[q] \subseteq cache'[q]
             /\ Active(q)' => view'[q].data = cache'[q]
  <2>1. Active(q)' = Active(q)
    BY DEF Active
  <2> QED
    BY <1>4, <2>1
<1> QED
  BY <1>2, <1>3, <1>5 DEF StateInv

\* One that leaves the disk alone.
LEMMA ConnectionStates ==
  ASSUME IInv, StateInv, UNCHANGED <<listeners, answers, diskVars>>, NEW o, SetOnline(o),
         \A q \in Query : DataInv(stream', q, cache[q], Active(q))
  PROVE  StateInv'
<1>1. PICK vs \in [Query -> ViewRecord] :
        /\ Publish(vs, o)
        /\ \A q \in Query : vs[q].data = view[q].data
  BY SetOnlineKeeps DEF IInv
<1>2. ASSUME NEW q \in Query
      PROVE  /\ DataInv(stream', q, cache'[q], Active(q))
             /\ 1..token'[q] \subseteq cache'[q]
             /\ Active(q) => vs[q].data = cache'[q]
  BY <1>1 DEF StateInv, diskVars
<1> QED
  BY <1>1, <1>2, StatesAfter

LEMMA StreamOnlyStates ==
  ASSUME StateInv, UNCHANGED <<userVars, answers, diskVars>>,
         \A q \in Query : DataInv(stream', q, cache[q], Active(q))
  PROVE  StateInv'
<1>1. ASSUME NEW q \in Query
      PROVE  /\ DataInv(stream', q, cache'[q], Active(q)')
             /\ 1..token'[q] \subseteq cache'[q]
             /\ Active(q)' => view'[q].data = cache'[q]
  <2>1. Active(q)' = Active(q) /\ cache' = cache
    BY DEF Active, userVars, diskVars
  <2> QED
    BY <2>1 DEF StateInv, userVars, diskVars
<1> QED
  BY <1>1 DEF StateInv, userVars

LEMMA AppStates ==
  ASSUME IInv, StateInv, [Next]_vars,
         \/ \E q \in Query : Ask(q)
         \/ CredentialChanges \/ Commits \/ UNCHANGED vars
  PROVE  StateInv'
<1>1. UNCHANGED <<userVars, answers, diskVars, stream>>
  BY DEF Ask, CredentialChanges, Commits, vars
<1>2. \A q \in Query : DataInv(stream', q, cache[q], Active(q))
  BY <1>1 DEF StateInv
<1> QED
  BY <1>1, <1>2, StreamOnlyStates

LEMMA DeliverStates ==
  ASSUME IInv, StateInv, NEW g \in Get, Deliver(g)
  PROVE  StateInv'
<1>1. /\ events[g] # <<>> /\ events[g] \in Seq(Snapshot)
      /\ events \in [Get -> Seq(Snapshot)] /\ answers \in [Get -> Seq(Snapshot)]
      /\ \A i \in DOMAIN events[g] : IsState(events[g][i].data)
  BY DEF Deliver, IInv, TypeOK, StateInv
<1>2. /\ Head(events[g]) = events[g][1] /\ 1 \in DOMAIN events[g]
      /\ \A i \in DOMAIN Tail(events[g]) :
           i + 1 \in DOMAIN events[g] /\ Tail(events[g])[i] = events[g][i + 1]
  BY <1>1
<1>3. ASSUME NEW h \in Get PROVE \A i \in DOMAIN events'[h] : IsState(events'[h][i].data)
  <2>1. events'[h] = IF h = g THEN Tail(events[g]) ELSE events[h]
    BY <1>1 DEF Deliver
  <2> QED
    BY <1>1, <1>2, <2>1 DEF StateInv
<1>4. ASSUME NEW h \in Get PROVE \A i \in DOMAIN answers'[h] : IsState(answers'[h][i].data)
  <2>1. \/ answers'[h] = answers[h]
        \/ answers'[h] = <<Head(events[g])>>
    BY <1>1 DEF Deliver
  <2>2. IsState(Head(events[g]).data)
    BY <1>1, <1>2
  <2> DEFINE e == Head(events[g])
  <2> HIDE DEF e
  <2>3. \A i \in DOMAIN <<e>> : <<e>>[i] = e
    OBVIOUS
  <2> QED
    BY <2>1, <2>2, <2>3 DEF StateInv, e
<1>5. UNCHANGED <<listeners, view, diskVars, stream>>
  BY DEF Deliver
<1>6. ASSUME NEW q \in Query
      PROVE  /\ DataInv(stream', q, cache'[q], Active(q)')
             /\ 1..token'[q] \subseteq cache'[q]
             /\ Active(q)' => view'[q].data = cache'[q]
  <2>1. Active(q)' = Active(q) /\ cache' = cache /\ token' = token
    BY <1>5 DEF Active, diskVars
  <2> QED
    BY <1>5, <2>1 DEF StateInv
<1> QED
  BY <1>3, <1>4, <1>6 DEF StateInv

LEMMA RestartStates ==
  ASSUME IInv, StateInv, Restart
  PROVE  StateInv'
<1>1. ASSUME NEW q \in Query
      PROVE  /\ DataInv(stream', q, cache'[q], Active(q)')
             /\ 1..token'[q] \subseteq cache'[q]
             /\ ~Active(q)'
  <2>1. cache' = cache /\ token' = token /\ stream' = Closed /\ ~Active(q)'
    BY DEF Restart, diskVars, Active
  <2>2. IsState(cache[q]) /\ 1..token[q] \subseteq cache[q]
    BY DEF StateInv, DataInv
  <2>3. /\ Closed.docs[q] = {} /\ Closed.served[q] = Unserved /\ Closed.targets[q] = NoTarget
        /\ Closed.out = <<>> /\ Closed.state # "Open" /\ Closed.held[q] = 0
    BY DEF Closed
  <2>4. 1..Closed.held[q] \subseteq cache[q]
    BY <2>3
  <2>5. DataInv(Closed, q, cache[q], Active(q)')
    BY <2>2, <2>3, <2>4, ClosedData
  <2> QED
    BY <2>1, <2>2, <2>5
<1>2. \A g \in Get : events'[g] = <<>> /\ answers' = answers
  BY DEF Restart
<1> QED
  BY <1>1, <1>2 DEF StateInv

LEMMA RunListenStates ==
  ASSUME IInv, StateInv, RunListen
  PROVE  StateInv'
<1> DEFINE g == Head(tasks).g
           p == asked[g]
           v == IF Active(p) THEN view[p] ELSE [current |-> FALSE, data |-> cache[p]]
<1>0. TypeOK /\ tasks # <<>> /\ Head(tasks).kind = "listen"
  BY DEF IInv, RunListen, IsNext
<1>1. g \in Get /\ p \in Query
  BY <1>0, FrontTask
<1>2. /\ listeners' = [listeners EXCEPT ![p] = @ \cup {g}]
      /\ view' = [view EXCEPT ![p] = v]
      /\ events' = events \/ events' = [events EXCEPT ![g] = Append(@, Event(v))]
      /\ IF Active(p) THEN stream' = stream ELSE stream' = Listen(p)
      /\ UNCHANGED <<answers, diskVars>>
  BY DEF RunListen
<1>3. v.data = cache[p]
  BY <1>1 DEF StateInv
<1> HIDE DEF g, p, v
<1>4. \A q \in Query : Active(q)' <=> (Active(q) \/ q = p)
  BY <1>0, <1>1, <1>2 DEF Active, TypeOK
<1>5. ASSUME NEW q \in Query PROVE DataInv(stream', q, cache[q], Active(q)')
  <2>1. CASE Active(p)
    <3>1. Active(q)' = Active(q)
      BY <1>4, <2>1 DEF Active
    <3> QED
      BY <1>2, <2>1, <3>1 DEF StateInv
  <2>2. CASE ~Active(p)
    <3>1. Active(q)' = IF p = q THEN TRUE ELSE Active(q)
      BY <1>4 DEF Active
    <3>2. DataInv(Listen(p), q, cache[q], Active(q)')
      BY <1>1, <3>1, ListenData
    <3> QED
      BY <1>2, <2>2, <3>2
  <2> QED
    BY <2>1, <2>2
<1>6. ASSUME NEW q \in Query, Active(q)' PROVE view'[q].data = cache[q]
  <2>1. CASE q = p
    BY <1>0, <1>1, <1>2, <1>3, <2>1 DEF TypeOK
  <2>2. CASE q # p
    BY <1>0, <1>2, <1>4, <1>6, <2>2 DEF TypeOK, StateInv
  <2> QED
    BY <2>1, <2>2
<1>7. ASSUME NEW h \in Get PROVE \A i \in DOMAIN events'[h] : IsState(events'[h][i].data)
  <2>1. events[h] \in Seq(Snapshot) /\ \A i \in DOMAIN events[h] : IsState(events[h][i].data)
    BY <1>0 DEF TypeOK, StateInv
  <2>2. IsState(Event(v).data)
    BY <1>1, <1>3 DEF Event, StateInv, DataInv
  <2>3. events'[h] = events[h] \/ events'[h] = Append(events[h], Event(v))
    BY <1>0, <1>1, <1>2 DEF TypeOK
  <2> QED
    BY <2>1, <2>2, <2>3, AppendedStates
<1>8. cache' = cache /\ token' = token /\ answers' = answers
  BY <1>2 DEF diskVars
<1> QED
  BY <1>5, <1>6, <1>7, <1>8 DEF StateInv

LEMMA RunUnlistenStates ==
  ASSUME IInv, StateInv, RunUnlisten
  PROVE  StateInv'
<1> DEFINE g    == Head(tasks).g
           p    == asked[g]
           last == listeners[p] = {g}
           left == \E r \in Query \ {p} : Active(r)
<1>0. TypeOK /\ tasks # <<>> /\ Head(tasks).kind = "unlisten"
  BY DEF IInv, RunUnlisten, IsNext
<1>1. g \in Get /\ p \in Query
  BY <1>0, FrontTask
<1>2. /\ listeners' = [listeners EXCEPT ![p] = @ \ {g}]
      /\ IF last
           THEN /\ view' = [view EXCEPT ![p] = NoView]
                /\ token' = [token EXCEPT ![p] = stream.held[p]]
                /\ stream' = StopListening(stream, p, left)
           ELSE UNCHANGED <<view, token, stream>>
      /\ UNCHANGED <<events, answers, cache>>
  BY DEF RunUnlisten
<1>3. left \in BOOLEAN /\ last \in BOOLEAN
  OBVIOUS
<1>4. \A q \in Query : Active(q)' <=> (Active(q) /\ ~(last /\ q = p))
  BY <1>0, <1>1, <1>2 DEF Active, TypeOK
<1> HIDE DEF g, p, left, last
<1>5. ASSUME NEW q \in Query
      PROVE  /\ DataInv(stream', q, cache[q], Active(q)')
             /\ 1..token'[q] \subseteq cache[q]
             /\ Active(q)' => view'[q].data = cache[q]
  <2>1. DataInv(stream, q, cache[q], Active(q)) /\ 1..token[q] \subseteq cache[q]
    BY DEF StateInv
  <2>2. CASE ~last
    <3>1. Active(q)' = Active(q)
      BY <1>4, <2>2 DEF Active
    <3> QED
      BY <1>2, <2>1, <2>2, <3>1 DEF StateInv
  <2>3. CASE last
    <3>1. Active(q)' = IF p = q THEN FALSE ELSE Active(q)
      BY <1>4, <2>3 DEF Active
    <3>2. DataInv(StopListening(stream, p, left), q, cache[q], Active(q)')
      BY <1>1, <1>3, <2>1, <3>1, OnlineNow, StopListeningData
    <3>3. 1..token'[q] \subseteq cache[q]
      <4>1. token'[q] = IF q = p THEN stream.held[q] ELSE token[q]
        BY <1>0, <1>2, <2>3 DEF TypeOK
      <4> QED
        BY <2>1, <4>1 DEF DataInv
    <3>4. Active(q)' => view'[q].data = cache[q]
      BY <1>0, <1>2, <1>4, <2>3 DEF TypeOK, StateInv
    <3> QED
      BY <1>2, <2>3, <3>2, <3>3, <3>4
  <2> QED
    BY <1>3, <2>2, <2>3
<1> QED
  BY <1>2, <1>5 DEF StateInv

LEMMA RestartedData ==
  ASSUME StateInv, NEW graceful \in BOOLEAN, StreamInv(stream),
         NEW t, t = (IF AnyActive THEN Start(Close(stream, graceful)) ELSE Close(stream, graceful))
  PROVE  \A q \in Query : DataInv(t, q, cache[q], Active(q))
<1> SUFFICES ASSUME NEW q \in Query PROVE DataInv(t, q, cache[q], Active(q))
  OBVIOUS
<1> DEFINE s == Close(stream, graceful)
<1>1. s \in Stream /\ ~IsStarted(s)
  BY CloseInv DEF StreamInv
<1>2. DataInv(s, q, cache[q], Active(q))
  BY CloseData DEF StateInv
<1>3. t = IF AnyActive THEN Start(s) ELSE s
  OBVIOUS
<1> HIDE DEF s
<1> QED
  BY <1>1, <1>2, <1>3, StartData

LEMMA RunCredentialStates ==
  ASSUME IInv, StateInv, RunCredential
  PROVE  StateInv'
<1> DEFINE u == UpdateState("Unknown")
           o == IF AnyActive THEN StreamStarted(u) ELSE u
<1>1. /\ SetOnline(o) /\ UNCHANGED <<listeners, answers, diskVars>>
      /\ IF IsStarted(stream)
           THEN stream' = IF AnyActive THEN Start(Close(stream, TRUE)) ELSE Close(stream, TRUE)
           ELSE stream' = IF AnyActive THEN Start(stream) ELSE stream
  BY DEF RunCredential
<1>2. \A q \in Query : DataInv(stream', q, cache[q], Active(q))
  <2>1. CASE IsStarted(stream)
    BY <1>1, <2>1, OnlineNow, RestartedData
  <2>2. CASE ~IsStarted(stream)
    BY <1>1, <2>2, OnlineNow, StartData DEF StateInv
  <2> QED
    BY <2>1, <2>2
<1> HIDE DEF o
<1> QED
  BY <1>1, <1>2, ConnectionStates

LEMMA FailuresStates ==
  ASSUME IInv, StateInv, TokenFails \/ StreamFails
  PROVE  StateInv'
<1> DEFINE o == IF AnyActive THEN StreamStarted(StreamFailed(online)) ELSE UpdateState("Unknown")
<1>1. /\ SetOnline(o) /\ UNCHANGED <<listeners, answers, diskVars>>
      /\ stream' = IF AnyActive THEN Start(Close(stream, FALSE)) ELSE Close(stream, FALSE)
  BY DEF TokenFails, StreamFails, Fail, RemoteOnly
<1> HIDE DEF o
<1>2. \A q \in Query : DataInv(stream', q, cache[q], Active(q))
  BY <1>1, OnlineNow, RestartedData
<1> QED
  BY <1>1, <1>2, ConnectionStates

LEMMA TimersStates ==
  ASSUME IInv, StateInv, IdleTimerFires \/ OnlineTimerFires
  PROVE  StateInv'
<1>1. /\ UNCHANGED <<listeners, answers, diskVars>>
      /\ \E o : SetOnline(o)
      /\ stream' = stream \/ stream' = Close(stream, TRUE)
  BY DEF IdleTimerFires, OnlineTimerFires, RemoteOnly
<1>2. \A q \in Query : DataInv(stream', q, cache[q], Active(q))
  BY <1>1, CloseData DEF StateInv
<1> QED
  BY <1>1, <1>2, ConnectionStates

LEMMA OpeningStates ==
  ASSUME IInv, StateInv, TokenArrives \/ BackoffElapses \/ CallBreaks
  PROVE  StateInv'
<1>1. UNCHANGED <<userVars, answers, diskVars>>
  BY DEF TokenArrives, BackoffElapses, CallBreaks
<1>2. stream \in Stream /\ StreamInv(stream)
  BY OnlineNow
<1>3. ASSUME NEW q \in Query PROVE DataInv(stream', q, cache[q], Active(q))
  <2>1. DataInv(stream, q, cache[q], Active(q))
    BY DEF StateInv
  <2>2. CASE TokenArrives
    <3>1. /\ stream.state = "Starting"
          /\ \E order \in SetToSeqs({p \in Query : Active(p)}) : stream' = Open(stream, order)
      BY <2>2 DEF TokenArrives
    <3> QED
      BY <1>2, <2>1, <3>1, OpenData
  <2>3. CASE BackoffElapses \/ CallBreaks
    <3>1. /\ stream'.in = stream.in /\ stream'.out = stream.out /\ stream'.docs = stream.docs
          /\ stream'.served = stream.served /\ stream'.targets = stream.targets
          /\ stream'.held = stream.held
          /\ stream'.state = "Open" <=> stream.state = "Open"
      BY <1>2, <2>3 DEF BackoffElapses, CallBreaks, Stream
    <3>2. 1..stream'.held[q] \subseteq cache[q]
      BY <2>1, <3>1 DEF DataInv
    <3> QED
      BY <2>1, <3>1, <3>2, SameData
  <2> QED
    BY <2>2, <2>3
<1> QED
  BY <1>1, <1>3, StreamOnlyStates

\* The counts tell whether what is read is meant for the listen of now.
LEMMA ActiveTargets ==
  ASSUME IInv, StateInv, stream.in # <<>>, NEW q \in Query
  PROVE  IsActiveTarget(q)
           <=> Settled(stream, q) /\ Served(stream, q) /\ Fresh(stream, q, 1)
<1> DEFINE outs == Positions(stream.out, RequestsFor(q))
           ins  == Positions(stream.in, AcksFor(q))
<1>1. stream \in Stream /\ StreamInv(stream) /\ DataInv(stream, q, cache[q], Active(q))
  BY OnlineNow DEF StateInv
<1>2. stream.state = "Open" /\ stream.out \in Seq(Request) /\ stream.in \in Seq(Response)
  BY <1>1 DEF StreamInv, Stream
<1>3. /\ IsFiniteSet(outs) /\ Cardinality(outs) \in Nat
      /\ IsFiniteSet(ins) /\ Cardinality(ins) \in Nat
  BY <1>2, PositionsFinite
<1>4. stream.targets[q].pending = Cardinality(outs) + Cardinality(ins)
  BY <1>1 DEF StreamInv, PendingRight
<1>5. outs = {} <=> Settled(stream, q)
  <2>1. outs = {i \in DOMAIN stream.out : stream.out[i].q = q}
    BY <1>1, PendingCounted
  <2> QED
    BY <2>1 DEF Settled
<1>6. ins = {} <=> Fresh(stream, q, 1)
  <2>1. \A j \in DOMAIN stream.in : j >= 1
    BY <1>2
  <2> QED
    BY <2>1 DEF Fresh, Positions
<1> HIDE DEF outs, ins
<1>7. (Cardinality(outs) = 0 <=> outs = {}) /\ (Cardinality(ins) = 0 <=> ins = {})
  BY <1>3, FS_EmptySet
<1>8. stream.targets[q].pending = 0 <=> Settled(stream, q) /\ Fresh(stream, q, 1)
  BY <1>3, <1>4, <1>5, <1>6, <1>7
<1>9. Settled(stream, q) => (Served(stream, q) <=> Active(q))
  BY <1>1, <1>2 DEF DataInv, Wanted
<1> QED
  BY <1>8, <1>9 DEF IsActiveTarget

\* What a response for an active target claims is known once it has been read.
LEMMA ReadClaims ==
  ASSUME IInv, StateInv, stream.in # <<>>, NEW q \in Query, IsActiveTarget(q),
         NEW n \in Claims(Head(stream.in), q), NEW x \in 1..n
  PROVE  \/ x \in cache[q] \cup stream.docs[q]
         \/ /\ Head(stream.in).kind = "docs" /\ Head(stream.in).q = q
            /\ x \in Head(stream.in).changes
<1>1. stream.in \in Seq(Response) /\ Complete(stream, q, cache[q]) /\ Fresh(stream, q, 1)
  BY OnlineNow, ActiveTargets DEF Stream, StateInv, DataInv
<1>2. 1 \in DOMAIN stream.in /\ Head(stream.in) = stream.in[1] /\ DOMAIN stream.in \subseteq Nat \ {0}
  BY <1>1
<1>3. Covered(stream, q, cache[q], n, 1)
  BY <1>1, <1>2 DEF Complete
<1>4. CASE x \in cache[q] \cup stream.docs[q]
  BY <1>4
<1>5. ASSUME NEW j \in DOMAIN stream.in, j <= 1, Carries(stream, q, j, x)
      PROVE  /\ Head(stream.in).kind = "docs" /\ Head(stream.in).q = q
             /\ x \in Head(stream.in).changes
  <2>1. j = 1
    BY <1>2, <1>5
  <2> QED
    BY <1>2, <1>5, <2>1 DEF Carries
<1> QED
  BY <1>3, <1>4, <1>5 DEF Covered

\* Reading a response that carries no documents for active targets.
LEMMA ReadOther ==
  ASSUME IInv, StateInv, stream.in # <<>>, NEW q \in Query,
         NEW t, t.state = "Open", t.out = stream.out, t.in = Tail(stream.in),
         t.served = stream.served, t.docs[q] = stream.docs[q], t.held[q] = stream.held[q],
         1..t.targets[q].token \subseteq cache[q] \cup t.docs[q],
         Head(stream.in).kind # "docs" \/ ~IsActiveTarget(q)
  PROVE  DataInv(t, q, cache[q], Active(q))
<1> DEFINE c == cache[q]
           active == Active(q)
<1>1. /\ stream \in Stream /\ StreamInv(stream) /\ stream.state = "Open"
      /\ DataInv(stream, q, c, active)
  BY OnlineNow DEF StateInv, StreamInv
<1>2. stream.in \in Seq(Response) /\ Head(stream.in) = stream.in[1]
  BY <1>1 DEF Stream
<1>3. Settled(stream, q) /\ Served(stream, q) => \A x : ~Carries(stream, q, 1, x)
  BY <1>2, ActiveTargets DEF Carries
<1>4. /\ IsState(c) /\ IsState(c \cup t.docs[q]) /\ 1..t.held[q] \subseteq c
  BY <1>1 DEF DataInv
<1>5. 1..t.targets[q].token \subseteq c \cup t.docs[q]
  OBVIOUS
<1> HIDE DEF c, active
<1>6. DataInv(t, q, c, active)
  BY <1>1, <1>3, <1>4, <1>5, ReadData
<1> QED
  BY <1>6 DEF c, active

LEMMA ReadAckStates ==
  ASSUME IInv, StateInv, ReadAck
  PROVE  StateInv'
<1> DEFINE m == Head(stream.in)
<1>1. Read("ack") /\ SetOnline(UpdateState("Online"))
  BY DEF ReadAck
<1>2. /\ stream.in # <<>> /\ m \in Response /\ m.kind = "ack"
      /\ stream \in Stream /\ stream.targets \in [Query -> TargetState]
      /\ UNCHANGED <<listeners, answers, diskVars>>
  BY <1>1, ReadIs DEF ReadAck
<1>3. ASSUME NEW q \in Query PROVE DataInv(stream', q, cache[q], Active(q))
  <2>1. /\ stream'.state = stream.state /\ stream'.out = stream.out
        /\ stream'.in = Tail(stream.in)
        /\ stream'.served = stream.served /\ stream'.docs = stream.docs
        /\ stream'.held = stream.held
        /\ stream'.targets = [stream.targets EXCEPT ![m.q] = AfterAck(@, m.removed)]
    BY <1>2 DEF ReadAck, Stream
  <2>2. stream.state = "Open" /\ 1..stream.targets[q].token \subseteq cache[q] \cup stream.docs[q]
    BY <1>2, OnlineNow DEF StreamInv, StateInv, DataInv
  <2>3. stream'.targets[q].token = stream.targets[q].token \/ stream'.targets[q].token = 0
    <3>1. \/ stream'.targets[q] = stream.targets[q]
          \/ stream'.targets[q] = AfterAck(stream.targets[q], m.removed)
      BY <1>2, <2>1
    <3>2. LET t == stream.targets[q]
          IN  AfterAck(t, m.removed).token = t.token \/ AfterAck(t, m.removed).token = 0
      BY <1>2 DEF AfterAck, TargetState, NoTarget
    <3> QED
      BY <3>1, <3>2
  <2>4. 1..0 = {}
    OBVIOUS
  <2>5. 1..stream'.targets[q].token \subseteq cache[q] \cup stream'.docs[q]
    BY <2>1, <2>2, <2>3, <2>4
  <2> QED
    BY <1>2, <2>1, <2>2, <2>5, ReadOther
<1> QED
  BY <1>1, <1>2, <1>3, ConnectionStates

LEMMA ReadDocsStates ==
  ASSUME IInv, StateInv, ReadDocs
  PROVE  StateInv'
<1> DEFINE m == Head(stream.in)
<1>1. Read("docs") /\ SetOnline(UpdateState("Online"))
  BY DEF ReadDocs
<1>2. /\ stream.in # <<>> /\ m \in Response /\ m.kind = "docs"
      /\ stream \in Stream /\ stream.targets \in [Query -> TargetState]
      /\ stream.docs \in [Query -> SUBSET Commit]
      /\ UNCHANGED <<listeners, answers, diskVars>>
  BY <1>1, ReadIs DEF ReadDocs
<1>3. stream.state = "Open" /\ StreamInv(stream)
  BY <1>2, OnlineNow DEF StreamInv
<1>4. m.q \in Query /\ m.changes \in SUBSET Commit
  BY <1>2 DEF Response
<1>5. ASSUME NEW q \in Query PROVE DataInv(stream', q, cache[q], Active(q))
  <2>1. /\ stream'.state = "Open" /\ stream'.out = stream.out
        /\ stream'.in = Tail(stream.in)
        /\ stream'.served = stream.served /\ stream'.held = stream.held
        /\ stream'.docs[q] = IF IsActiveTarget(m.q) /\ q = m.q THEN stream.docs[q] \cup m.changes
                                                               ELSE stream.docs[q]
        /\ stream'.targets[q].token = stream.targets[q].token
    <3>1. CASE IsActiveTarget(m.q)
      <4>1. stream' = [stream EXCEPT !.in = Tail(@), !.docs[m.q] = @ \cup m.changes,
                                     !.targets[m.q].dirty = TRUE]
        BY <3>1 DEF ReadDocs
      <4>2. /\ stream'.docs = [stream.docs EXCEPT ![m.q] = @ \cup m.changes]
            /\ stream'.targets = [stream.targets EXCEPT ![m.q].dirty = TRUE]
            /\ stream'.state = stream.state /\ stream'.out = stream.out
            /\ stream'.in = Tail(stream.in)
            /\ stream'.served = stream.served /\ stream'.held = stream.held
        BY <1>2, <4>1 DEF Stream
      <4>3. stream'.docs[q] = IF q = m.q THEN stream.docs[q] \cup m.changes ELSE stream.docs[q]
        BY <1>2, <1>4, <4>2
      <4>4. stream'.targets[q].token = stream.targets[q].token
        BY <1>2, <1>4, <4>2 DEF TargetState
      <4> QED
        BY <1>3, <3>1, <4>2, <4>3, <4>4
    <3>2. CASE ~IsActiveTarget(m.q)
      BY <1>2, <1>3, <3>2 DEF ReadDocs, Stream
    <3> QED
      BY <3>1, <3>2
  <2>2. DataInv(stream, q, cache[q], Active(q))
    BY DEF StateInv
  <2>3. 1..stream.targets[q].token \subseteq cache[q] \cup stream.docs[q]
    BY <2>2 DEF DataInv
  <2>4. stream.in \in Seq(Response) /\ m = stream.in[1]
    BY <1>2 DEF Stream
  <2>5. CASE ~(IsActiveTarget(m.q) /\ q = m.q)
    <3>1. stream'.docs[q] = stream.docs[q]
      BY <2>1, <2>5
    <3>2. CASE ~IsActiveTarget(q)
      BY <1>2, <2>1, <2>3, <3>1, <3>2, ReadOther
    <3>3. CASE q # m.q
      <4> DEFINE c == cache[q]
                 active == Active(q)
      <4>1. \A x : ~Carries(stream, q, 1, x)
        BY <2>4, <3>3 DEF Carries
      <4>2. IsState(c) /\ IsState(c \cup stream'.docs[q]) /\ 1..stream'.held[q] \subseteq c
        BY <2>1, <2>2, <3>1 DEF DataInv
      <4>3. DataInv(stream, q, c, active) /\ 1..stream'.targets[q].token \subseteq c \cup stream'.docs[q]
        BY <2>1, <2>2, <2>3, <3>1
      <4> HIDE DEF c, active
      <4>4. DataInv(stream', q, c, active)
        BY <1>2, <1>3, <2>1, <3>1, <4>1, <4>2, <4>3, ReadData
      <4> QED
        BY <4>4 DEF c, active
    <3> QED
      BY <2>5, <3>2, <3>3
  <2>6. CASE IsActiveTarget(m.q) /\ q = m.q
    <3> DEFINE c == cache[q]
               active == Active(q)
    <3>1. stream'.docs[q] = stream.docs[q] \cup m.changes
      BY <2>1, <2>6
    <3>2. \A x : Carries(stream, q, 1, x) => x \in c \cup stream'.docs[q]
      BY <2>4, <3>1 DEF Carries
    <3>3. IsState(c) /\ 1..stream'.held[q] \subseteq c /\ IsState(c \cup stream.docs[q])
      BY <2>1, <2>2 DEF DataInv
    <3>4. ASSUME NEW n \in c \cup stream'.docs[q], NEW x \in 1..n
          PROVE  x \in c \cup stream'.docs[q]
      <4>1. CASE n \in c \cup stream.docs[q]
        BY <3>1, <3>3, <3>4, <4>1 DEF IsState
      <4>2. CASE n \in m.changes
        <5>1. n \in Claims(m, q)
          BY <1>2, <2>6, <4>2 DEF Claims
        <5> QED
          BY <1>2, <2>6, <3>1, <3>4, <5>1, ReadClaims
      <4> QED
        BY <3>1, <3>4, <4>1, <4>2
    <3>5. IsState(c \cup stream'.docs[q])
      BY <3>4 DEF IsState
    <3>6. /\ DataInv(stream, q, c, active)
          /\ 1..stream'.targets[q].token \subseteq c \cup stream'.docs[q]
          /\ c \cup stream.docs[q] \subseteq c \cup stream'.docs[q]
      BY <2>1, <2>2, <2>3, <3>1
    <3> HIDE DEF c, active
    <3>7. DataInv(stream', q, c, active)
      BY <1>2, <1>3, <2>1, <3>2, <3>3, <3>5, <3>6, ReadData
    <3> QED
      BY <3>7 DEF c, active
  <2> QED
    BY <2>5, <2>6
<1> QED
  BY <1>1, <1>2, <1>5, ConnectionStates

LEMMA ReadCurrentStates ==
  ASSUME IInv, StateInv, ReadCurrent
  PROVE  StateInv'
<1> DEFINE m == Head(stream.in)
<1>1. Read("current") /\ SetOnline(UpdateState("Online"))
  BY DEF ReadCurrent
<1>2. /\ stream.in # <<>> /\ m \in Response /\ m.kind = "current"
      /\ stream \in Stream /\ stream.targets \in [Query -> TargetState]
      /\ UNCHANGED <<listeners, answers, diskVars>>
  BY <1>1, ReadIs DEF ReadCurrent
<1>3. stream.state = "Open" /\ StreamInv(stream)
  BY <1>2, OnlineNow DEF StreamInv
<1>4. m.q \in Query
  BY <1>2 DEF Response
<1>5. ASSUME NEW q \in Query PROVE DataInv(stream', q, cache[q], Active(q))
  <2>1. /\ stream'.state = "Open" /\ stream'.out = stream.out
        /\ stream'.in = Tail(stream.in)
        /\ stream'.served = stream.served /\ stream'.held = stream.held
        /\ stream'.docs = stream.docs
        /\ \/ stream'.targets[q].token = stream.targets[q].token
           \/ /\ q = m.q /\ IsActiveTarget(q) /\ stream'.targets[q].token = m.token
    <3>1. CASE IsActiveTarget(m.q)
      <4>1. stream' = [stream EXCEPT !.in = Tail(@),
                         !.targets[m.q] = [@ EXCEPT !.current = TRUE, !.dirty = TRUE,
                                                    !.token = m.token]]
        BY <3>1 DEF ReadCurrent
      <4>2. /\ stream'.docs = stream.docs
            /\ stream'.targets = [stream.targets EXCEPT
                                    ![m.q] = [@ EXCEPT !.current = TRUE, !.dirty = TRUE,
                                                       !.token = m.token]]
            /\ stream'.state = stream.state /\ stream'.out = stream.out
            /\ stream'.in = Tail(stream.in)
            /\ stream'.served = stream.served /\ stream'.held = stream.held
        BY <1>2, <4>1 DEF Stream
      <4>3. stream'.targets[q].token = IF q = m.q THEN m.token ELSE stream.targets[q].token
        BY <1>2, <1>4, <4>2 DEF TargetState
      <4> QED
        BY <1>3, <3>1, <4>2, <4>3
    <3>2. CASE ~IsActiveTarget(m.q)
      BY <1>2, <1>3, <3>2 DEF ReadCurrent, Stream
    <3> QED
      BY <3>1, <3>2
  <2>2. 1..stream.targets[q].token \subseteq cache[q] \cup stream.docs[q]
    BY DEF StateInv, DataInv
  <2>3. ASSUME q = m.q, IsActiveTarget(q) PROVE 1..m.token \subseteq cache[q] \cup stream.docs[q]
    <3>1. m.token \in Claims(m, q)
      BY <1>2, <2>3 DEF Claims
    <3> QED
      BY <1>2, <2>3, <3>1, ReadClaims
  <2>4. 1..stream'.targets[q].token \subseteq cache[q] \cup stream'.docs[q]
    BY <2>1, <2>2, <2>3
  <2> QED
    BY <1>2, <2>1, <2>4, ReadOther
<1> QED
  BY <1>1, <1>2, <1>5, ConnectionStates

\* Tokens that a snapshot gives to active targets are not ahead of what is known.
LEMMA SnapshotTokens ==
  ASSUME IInv, StateInv, stream.in # <<>>, Head(stream.in).kind = "snapshot", NEW q \in Query
  PROVE  1..WithToken(Head(stream.in).at)[q].token \subseteq cache[q] \cup stream.docs[q]
<1> DEFINE m == Head(stream.in)
           ts == WithToken(m.at)
<1>1. stream.targets \in [Query -> TargetState]
  BY OnlineNow DEF Stream
<1>2. CASE IsActiveTarget(q)
  <2>1. ts[q].token = m.at
    BY <1>1, <1>2 DEF WithToken, TargetState
  <2>2. m.at \in Claims(m, q)
    BY DEF Claims
  <2> HIDE DEF ts
  <2>3. \A x \in 1..m.at : x \in cache[q] \cup stream.docs[q]
    BY <1>2, <2>2, ReadClaims
  <2> QED
    BY <2>1, <2>3 DEF ts
<1>3. CASE ~IsActiveTarget(q)
  <2>1. ts[q] = stream.targets[q]
    BY <1>3 DEF WithToken
  <2> QED
    BY <2>1 DEF StateInv, DataInv
<1> QED
  BY <1>2, <1>3

LEMMA ReadSnapshotStates ==
  ASSUME IInv, StateInv, ReadSnapshot
  PROVE  StateInv'
<1> DEFINE m   == Head(stream.in)
           ts  == WithToken(m.at)
           new == ToRaise(ts)
           us  == [q \in Query |-> IF q \in new THEN [ts[q] EXCEPT !.dirty = FALSE] ELSE ts[q]]
           ds  == [q \in Query |-> {}]
           h   == [q \in Query |-> IF q \in new THEN ts[q].token ELSE stream.held[q]]
<1>1. Read("snapshot") /\ TypeOK
  BY DEF ReadSnapshot, IInv
<1>2. /\ stream.in # <<>> /\ m \in Response /\ m.kind = "snapshot"
      /\ stream \in Stream /\ UNCHANGED <<listeners, answers>>
      /\ m.at \in Version
  BY <1>1, ReadIs DEF Response
<1>3. stream.state = "Open" /\ StreamInv(stream)
  BY <1>2, OnlineNow DEF StreamInv
<1>4. \A q \in Query : 1..ts[q].token \subseteq cache[q] \cup stream.docs[q]
  BY <1>2, SnapshotTokens
<1>5. ts \in [Query -> TargetState]
  BY <1>2, WithTokenType
<1>6. CASE m.at < lastSnapshot
  <2>1. /\ stream' = [stream EXCEPT !.in = Tail(@), !.targets = ts]
        /\ SetOnline(UpdateState("Online")) /\ UNCHANGED diskVars
    BY <1>6 DEF ReadSnapshot
  <2> HIDE DEF ts
  <2>2. /\ stream'.state = "Open" /\ stream'.out = stream.out
        /\ stream'.in = Tail(stream.in)
        /\ stream'.served = stream.served /\ stream'.held = stream.held
        /\ stream'.docs = stream.docs /\ stream'.targets = ts
    BY <1>2, <1>3, <2>1 DEF Stream
  <2>3. ASSUME NEW q \in Query PROVE DataInv(stream', q, cache[q], Active(q))
    <3>1. 1..stream'.targets[q].token \subseteq cache[q] \cup stream'.docs[q]
      BY <1>4, <2>2
    <3> QED
      BY <1>2, <2>2, <3>1, ReadOther
  <2> QED
    BY <1>2, <2>1, <2>3, ConnectionStates
<1>7. CASE ~(m.at < lastSnapshot)
  <2>1. /\ stream' = [stream EXCEPT !.in = Tail(@), !.targets = us, !.docs = ds, !.held = h]
        /\ ApplyRemoteEvent(ts, new, m.at)
        /\ Publish(NewViews(ts, new), UpdateState("Online"))
    BY <1>2, <1>7 DEF ReadSnapshot, Stream
  <2>2. NewViews(ts, new) \in [Query -> ViewRecord]
    <3> HIDE DEF ts, new
    <3> QED
      BY <1>1, <1>2, <1>5 DEF NewViews, ViewRecord, TypeOK, TargetState, Stream
  <2>3. /\ stream'.state = "Open" /\ stream'.out = stream.out
        /\ stream'.in = Tail(stream.in)
        /\ stream'.served = stream.served /\ stream'.held = h
        /\ stream'.docs = ds /\ stream'.targets = us
    <3> HIDE DEF us, ds, h
    <3> QED
      BY <1>2, <1>3, <2>1 DEF Stream
  <2>4. ASSUME NEW q \in Query
        PROVE  /\ DataInv(stream', q, cache'[q], Active(q))
               /\ 1..token'[q] \subseteq cache'[q]
               /\ Active(q) => NewViews(ts, new)[q].data = cache'[q]
    <3> DEFINE c == cache[q]
               d == cache'[q]
               active == Active(q)
    <3>1. /\ DataInv(stream, q, c, active) /\ 1..token[q] \subseteq c
          /\ Active(q) => view[q].data = cache[q]
      BY DEF StateInv
    <3>2. d = c \cup stream.docs[q]
      BY <2>1 DEF ApplyRemoteEvent
    <3>3. stream'.docs[q] = {} /\ stream'.held[q] \in {ts[q].token, stream.held[q]}
          /\ stream'.targets[q].token = ts[q].token
      BY <1>5, <2>3 DEF TargetState
    <3>4. 1..ts[q].token \subseteq d /\ 1..token'[q] \subseteq d
      <4>1. token'[q] = ts[q].token \/ token'[q] = token[q]
        <5> HIDE DEF ts, new
        <5> QED
          BY <2>1 DEF ApplyRemoteEvent
      <4> QED
        BY <1>4, <3>1, <3>2, <4>1
    <3>5. Active(q) => NewViews(ts, new)[q].data = d
      <4> HIDE DEF ts, new, c, d
      <4> QED
        BY <3>1, <3>2 DEF NewViews, c
    <3> HIDE DEF ts, new, us, ds, h, c, d, active
    <3>6. /\ IsState(d) /\ 1..stream'.held[q] \subseteq d
          /\ d \cup stream'.docs[q] = d
      BY <3>1, <3>2, <3>3, <3>4 DEF DataInv
    <3>7. \A x : Carries(stream, q, 1, x) => x \in d \cup stream'.docs[q]
      <4>1. m = stream.in[1]
        BY <1>2 DEF Stream
      <4> QED
        BY <1>2, <4>1 DEF Carries
    <3>8. c \subseteq d /\ c \cup stream.docs[q] \subseteq d \cup stream'.docs[q]
      BY <3>2, <3>6
    <3>9. IsState(d \cup stream'.docs[q]) /\ 1..stream'.targets[q].token \subseteq d \cup stream'.docs[q]
      BY <3>3, <3>4, <3>6
    <3>10. stream'.served[q] = stream.served[q]
      BY <2>3
    <3>11. DataInv(stream', q, d, active)
      BY <1>2, <1>3, <2>3, <3>1, <3>6, <3>7, <3>8, <3>9, <3>10, ReadData
    <3> QED
      BY <3>4, <3>5, <3>11 DEF d, active
  <2> QED
    <3> DEFINE vs == NewViews(ts, new)
               o  == UpdateState("Online")
    <3>1. vs \in [Query -> ViewRecord] /\ Publish(vs, o)
      BY <2>1, <2>2
    <3>2. \A q \in Query : /\ DataInv(stream', q, cache'[q], Active(q))
                           /\ 1..token'[q] \subseteq cache'[q]
                           /\ Active(q) => vs[q].data = cache'[q]
      BY <2>4
    <3> HIDE DEF vs, o
    <3> QED
      BY <1>2, <3>1, <3>2, StatesAfter
<1> QED
  BY <1>6, <1>7

LEMMA ServeStates ==
  ASSUME IInv, StateInv, Serve
  PROVE  StateInv'
<1> DEFINE m  == Head(stream.out)
           removed == m.kind = "unwatch"
           target == IF removed THEN Unserved
                     ELSE [phase |-> "Added", sent |-> m.token, since |-> version]
           a  == [kind |-> "ack", q |-> m.q, removed |-> removed]
           sv == [stream.served EXCEPT ![m.q] = target]
<1>1. stream.out # <<>> /\ Connected /\ UNCHANGED <<userVars, answers, diskVars>>
  BY DEF Serve, BackendOnly
<1>2. /\ stream \in Stream /\ stream.state = "Open"
      /\ stream.out \in Seq(Request) /\ stream.served \in [Query -> ServedState]
  BY <1>1, BackendNow
<1>3. m \in Request
  BY <1>1, <1>2
<1>4. m.q \in Query /\ (m.kind = "watch" <=> ~removed)
  BY <1>3 DEF Request
<1>5. a \in Response /\ a.kind = "ack" /\ a.q = m.q
  BY <1>4 DEF Response
<1>6. stream' = [stream EXCEPT !.in = Append(@, a), !.out = Tail(@), !.served = sv, !.due = TRUE]
  BY <1>2 DEF Serve, Answers, Stream
<1>7. ASSUME NEW q \in Query PROVE DataInv(stream', q, cache[q], Active(q))
  <2> HIDE DEF a, sv
  <2>1. /\ stream'.state = "Open" /\ stream'.out = Tail(stream.out)
        /\ stream'.in = Append(stream.in, a)
        /\ stream'.docs[q] = stream.docs[q] /\ stream'.held[q] = stream.held[q]
        /\ stream'.targets[q].token = stream.targets[q].token
        /\ stream'.served = sv
    BY <1>2, <1>6 DEF Stream
  <2>2. sv[q] = IF m.q = q THEN target ELSE stream.served[q]
    BY <1>2, <1>4 DEF sv
  <2>3. CASE m.q = q
    <3>1. stream'.served[q] = target
      BY <2>1, <2>2, <2>3
    <3>2. Served(stream', q) <=> m.kind = "watch"
      BY <1>4, <3>1 DEF Served, Unserved
    <3>3. m.kind = "watch" => stream'.served[q].sent = m.token
      BY <1>4, <3>1
    <3> DEFINE c == cache[q]
               active == Active(q)
    <3>4. DataInv(stream, q, c, active)
      BY DEF StateInv
    <3> HIDE DEF c, active, removed, target
    <3>5. DataInv(stream', q, c, active)
      BY <1>1, <1>2, <1>5, <2>1, <2>3, <3>2, <3>3, <3>4, ServeData
    <3> QED
      BY <3>5 DEF c, active
  <2>4. CASE m.q # q
    <3>1. stream'.served[q] = stream.served[q]
      BY <2>1, <2>2, <2>4
    <3> DEFINE c == cache[q]
               active == Active(q)
    <3>2. DataInv(stream, q, c, active)
      BY DEF StateInv
    <3> HIDE DEF c, active, removed, target
    <3>3. DataInv(stream', q, c, active)
      BY <1>1, <1>2, <1>5, <2>1, <2>4, <3>1, <3>2, ServeData
    <3> QED
      BY <3>3 DEF c, active
  <2> QED
    BY <2>3, <2>4
<1> QED
  BY <1>1, <1>7, StreamOnlyStates

\* Responses that say what has been sent, or send what comes next.
LEMMA RespondStates ==
  ASSUME IInv, StateInv, Connected, UNCHANGED <<userVars, answers, diskVars>>,
         NEW m \in Response, m.kind # "ack",
         stream'.state = "Open", stream'.out = stream.out, stream'.in = Append(stream.in, m),
         stream'.docs = stream.docs, stream'.held = stream.held,
         stream'.targets = stream.targets,
         \A q \in Query :
           /\ Served(stream', q) <=> Served(stream, q)
           /\ Served(stream, q) =>
                \A n \in Claims(m, q) \cup {stream'.served[q].sent} : \A x \in 1..n :
                  \/ x \in 1..stream.served[q].sent
                  \/ m.kind = "docs" /\ m.q = q /\ x \in m.changes
  PROVE  StateInv'
<1>1. stream \in Stream /\ stream.state = "Open" /\ stream.in \in Seq(Response)
  BY BackendNow DEF Stream
<1>2. /\ Len(stream.in) \in Int /\ Len(stream.in) + 1 \in Int
      /\ Len(stream.in) <= Len(stream.in) + 1 /\ Len(stream.in) + 1 <= Len(stream.in) + 1
  BY <1>1
<1>3. ASSUME NEW q \in Query PROVE DataInv(stream', q, cache[q], Active(q))
  <2> DEFINE c == cache[q]
             active == Active(q)
  <2>1. DataInv(stream, q, c, active) /\ m \notin AcksFor(q)
    BY DEF StateInv, AcksFor
  <2>2. ASSUME Settled(stream, q), Served(stream, q),
               NEW n \in Claims(m, q) \cup {stream'.served[q].sent}
        PROVE  Covered(stream', q, c, n, Len(stream.in) + 1)
    <3> DEFINE k == Len(stream.in)
               sent == stream.served[q].sent
    <3>1. Covered(stream, q, c, sent, k)
      BY <2>1, <2>2 DEF DataInv, Complete
    <3>2. k \in Int /\ k + 1 \in Int /\ k <= k + 1 /\ k + 1 <= k + 1
      BY <1>2
    <3>3. stream'.in[k + 1] = m /\ k + 1 \in DOMAIN stream'.in
      BY <1>1, Appended
    <3>4. Fresh(stream', q, k + 1)
      BY <1>1, <2>1, SentFresh
    <3> HIDE DEF c, k, sent
    <3>5. Covered(stream', q, c, sent, k + 1)
      BY <1>1, <2>1, <3>1, <3>2, SentCovered
    <3>6. ASSUME NEW x \in 1..n
          PROVE  x \in c \cup stream'.docs[q]
                   \/ \E j \in DOMAIN stream'.in : j <= k + 1 /\ Carries(stream', q, j, x)
      <4>1. CASE x \in 1..sent
        BY <3>5, <4>1 DEF Covered
      <4>2. CASE m.kind = "docs" /\ m.q = q /\ x \in m.changes
        <5>1. Carries(stream', q, k + 1, x)
          BY <3>3, <3>4, <4>2 DEF Carries
        <5> QED
          BY <3>2, <3>3, <5>1
      <4> QED
        BY <2>2, <3>6, <4>1, <4>2 DEF sent
    <3> QED
      BY <3>6 DEF Covered, k
  <2> HIDE DEF c, active
  <2>3. DataInv(stream', q, c, active)
    BY <1>1, <2>1, <2>2, RespondData
  <2> QED
    BY <2>3 DEF c, active
<1> QED
  BY <1>3, StreamOnlyStates

LEMMA SendDocsStates ==
  ASSUME IInv, StateInv, NEW p \in Query, SendDocs(p)
  PROVE  StateInv'
<1>1. Connected /\ UNCHANGED <<userVars, answers, diskVars>> /\ stream.served[p].phase # "None"
  BY DEF SendDocs, BackendOnly
<1>2. /\ stream \in Stream /\ stream.state = "Open" /\ stream.served \in [Query -> ServedState]
      /\ version \in Version /\ MaxCommits \in Nat
  BY <1>1, BackendNow
<1>3. PICK v \in (stream.served[p].sent + 1)..version :
        stream' = [Answers([kind |-> "docs", q |-> p,
                            changes |-> (stream.served[p].sent + 1)..v])
                     EXCEPT !.served[p].sent = v]
  BY DEF SendDocs
<1> DEFINE sent == stream.served[p].sent
           m    == [kind |-> "docs", q |-> p, changes |-> (sent + 1)..v]
           sv   == [stream.served EXCEPT ![p].sent = v]
<1>4. sent \in Nat /\ v \in Nat
  BY <1>2 DEF ServedState, Version
<1>5. (sent + 1)..v \subseteq Commit
  BY <1>2, <1>4 DEF Commit, Version
<1>6. m \in Response /\ m.kind = "docs" /\ m.q = p /\ m.changes = (sent + 1)..v
  BY <1>5 DEF Response
<1>7. stream' = [stream EXCEPT !.in = Append(@, m), !.served = sv, !.due = TRUE]
  BY <1>2, <1>3 DEF Answers, Stream
<1>8. \A q \in Query : /\ sv[q].phase = stream.served[q].phase
                       /\ sv[q].sent = IF q = p THEN v ELSE stream.served[q].sent
  BY <1>2 DEF ServedState
<1> HIDE DEF m, sv
<1>9. /\ stream'.state = "Open" /\ stream'.out = stream.out /\ stream'.in = Append(stream.in, m)
      /\ stream'.docs = stream.docs /\ stream'.held = stream.held
      /\ stream'.targets = stream.targets /\ stream'.served = sv
  BY <1>2, <1>7 DEF Stream
<1>10. ASSUME NEW q \in Query
       PROVE  /\ Served(stream', q) <=> Served(stream, q)
              /\ \A n \in Claims(m, q) \cup {stream'.served[q].sent} : \A x \in 1..n :
                   \/ x \in 1..stream.served[q].sent
                   \/ m.kind = "docs" /\ m.q = q /\ x \in m.changes
  <2>1. Served(stream', q) <=> Served(stream, q)
    BY <1>8, <1>9 DEF Served
  <2>2. CASE q = p
    <3>1. Claims(m, q) = (sent + 1)..v
      BY <1>6, <2>2 DEF Claims
    <3>2. stream'.served[q].sent = v
      BY <1>8, <1>9, <2>2
    <3> QED
      BY <1>4, <1>6, <2>1, <2>2, <3>1, <3>2
  <2>3. CASE q # p
    <3>1. Claims(m, q) = {}
      BY <1>6, <2>3 DEF Claims
    <3>2. stream'.served[q].sent = stream.served[q].sent
      BY <1>8, <1>9, <2>3
    <3> QED
      BY <2>1, <3>1, <3>2
  <2> QED
    BY <2>2, <2>3
<1>11. m.kind # "ack"
  BY <1>6
<1> QED
  BY <1>1, <1>6, <1>9, <1>10, <1>11, RespondStates

LEMMA SendCurrentStates ==
  ASSUME IInv, StateInv, NEW p \in Query, SendCurrent(p)
  PROVE  StateInv'
<1> DEFINE m  == [kind |-> "current", q |-> p, token |-> stream.served[p].sent]
           sv == [stream.served EXCEPT ![p].phase = "Current"]
<1>1. Connected /\ UNCHANGED <<userVars, answers, diskVars>> /\ stream.served[p].phase = "Added"
  BY DEF SendCurrent, BackendOnly
<1>2. stream \in Stream /\ stream.state = "Open" /\ stream.served \in [Query -> ServedState]
  BY <1>1, BackendNow
<1>3. m \in Response /\ m.kind = "current" /\ m.q = p /\ m.token = stream.served[p].sent
  BY <1>2 DEF Response, ServedState
<1>4. stream' = [stream EXCEPT !.in = Append(@, m), !.served = sv, !.due = TRUE]
  BY <1>2 DEF SendCurrent, Answers, Stream
<1>5. \A q \in Query : /\ sv[q].phase # "None" <=> stream.served[q].phase # "None"
                       /\ sv[q].sent = stream.served[q].sent
  BY <1>1, <1>2 DEF ServedState
<1> HIDE DEF m, sv
<1>6. /\ stream'.state = "Open" /\ stream'.out = stream.out /\ stream'.in = Append(stream.in, m)
      /\ stream'.docs = stream.docs /\ stream'.held = stream.held
      /\ stream'.targets = stream.targets /\ stream'.served = sv
  BY <1>2, <1>4 DEF Stream
<1>7. ASSUME NEW q \in Query
      PROVE  /\ Served(stream', q) <=> Served(stream, q)
             /\ \A n \in Claims(m, q) \cup {stream'.served[q].sent} : \A x \in 1..n :
                  \/ x \in 1..stream.served[q].sent
                  \/ m.kind = "docs" /\ m.q = q /\ x \in m.changes
  <2>1. Served(stream', q) <=> Served(stream, q)
    BY <1>5, <1>6 DEF Served
  <2>2. Claims(m, q) \subseteq {stream.served[q].sent}
    BY <1>3 DEF Claims
  <2>3. stream'.served[q].sent = stream.served[q].sent
    BY <1>5, <1>6
  <2> QED
    BY <2>1, <2>2, <2>3
<1>8. m.kind # "ack"
  BY <1>3
<1> QED
  BY <1>1, <1>3, <1>6, <1>7, <1>8, RespondStates

LEMMA SendSnapshotStates ==
  ASSUME IInv, StateInv, SendSnapshot
  PROVE  StateInv'
<1> DEFINE sent == {stream.served[q].sent : q \in {p \in Query : stream.served[p].phase # "None"}}
<1>1. Connected /\ UNCHANGED <<userVars, answers, diskVars>>
  BY DEF SendSnapshot, BackendOnly
<1>2. stream \in Stream /\ stream.state = "Open" /\ stream.served \in [Query -> ServedState]
  BY <1>1, BackendNow
<1>3. PICK r \in sent :
        /\ sent = {r}
        /\ stream' = [Answers([kind |-> "snapshot", at |-> r]) EXCEPT !.due = FALSE, !.at = r]
  BY DEF SendSnapshot
<1> DEFINE m == [kind |-> "snapshot", at |-> r]
<1>4. r \in Version
  BY <1>2 DEF ServedState
<1>5. m \in Response /\ m.kind = "snapshot" /\ m.at = r
  BY <1>4 DEF Response
<1>6. \A q \in Query : Served(stream, q) => stream.served[q].sent = r
  BY <1>3 DEF Served
<1>7. stream' = [stream EXCEPT !.in = Append(@, m), !.due = FALSE, !.at = r]
  BY <1>2, <1>3 DEF Answers, Stream
<1> HIDE DEF m, sent
<1>8. /\ stream'.state = "Open" /\ stream'.out = stream.out /\ stream'.in = Append(stream.in, m)
      /\ stream'.docs = stream.docs /\ stream'.held = stream.held
      /\ stream'.targets = stream.targets /\ stream'.served = stream.served
  BY <1>2, <1>7 DEF Stream
<1>9. ASSUME NEW q \in Query
      PROVE  /\ Served(stream', q) <=> Served(stream, q)
             /\ Served(stream, q) =>
                  \A n \in Claims(m, q) \cup {stream'.served[q].sent} : \A x \in 1..n :
                    \/ x \in 1..stream.served[q].sent
                    \/ m.kind = "docs" /\ m.q = q /\ x \in m.changes
  <2>1. Served(stream', q) <=> Served(stream, q)
    BY <1>8 DEF Served
  <2>2. Claims(m, q) = {r}
    BY <1>5 DEF Claims
  <2>3. stream'.served[q].sent = stream.served[q].sent
    BY <1>8
  <2> QED
    BY <1>6, <2>1, <2>2, <2>3
<1>10. m.kind # "ack"
  BY <1>5
<1> QED
  BY <1>1, <1>5, <1>8, <1>9, <1>10, RespondStates

LEMMA NextStates == IInv /\ StateInv /\ [Next]_vars => StateInv'
<1> SUFFICES ASSUME IInv, StateInv, [Next]_vars PROVE StateInv'
  OBVIOUS
<1>1. ASSUME NEW q \in Query, Ask(q) PROVE StateInv'
  BY <1>1, AppStates
<1>2. ASSUME NEW g \in Get, Deliver(g) PROVE StateInv'
  BY <1>2, DeliverStates
<1>3. CASE CredentialChanges \/ Restart \/ Commits \/ UNCHANGED vars
  BY <1>3, AppStates, RestartStates
<1>4. CASE RunTask
  BY <1>4, RunListenStates, RunUnlistenStates, RunCredentialStates DEF RunTask
<1>5. CASE TokenArrives \/ TokenFails \/ BackoffElapses \/ StreamFails \/ CallBreaks
  BY <1>5, OpeningStates, FailuresStates
<1>6. CASE IdleTimerFires \/ OnlineTimerFires
  BY <1>6, TimersStates
<1>7. CASE ReadResponse
  BY <1>7, ReadAckStates, ReadDocsStates, ReadCurrentStates, ReadSnapshotStates DEF ReadResponse
<1>8. CASE Serve \/ SendSnapshot
  BY <1>8, ServeStates, SendSnapshotStates
<1>9. ASSUME NEW q \in Query, SendDocs(q) \/ SendCurrent(q) PROVE StateInv'
  BY <1>9, SendDocsStates, SendCurrentStates
<1> QED
  BY <1>1, <1>2, <1>3, <1>4, <1>5, <1>6, <1>7, <1>8, <1>9 DEF Next, Respond

-----------------------------------------------------------------------------
(* Every step preserves what is known of the gets and the worker queue *)

LEMMA GetsAre ==
  ASSUME IInv
  PROVE  /\ version \in Nat /\ Len(asked) \in Nat /\ DOMAIN asked = 1..Len(asked)
         /\ asked \in Seq(Query) /\ floor \in Seq(Version) /\ Len(floor) = Len(asked)
         /\ DOMAIN floor = DOMAIN asked /\ DOMAIN asked \subseteq Get
         /\ \A g \in DOMAIN asked : g \in Nat /\ asked[g] \in Query /\ floor[g] \in Nat
         /\ \A q \in Query : \A g \in listeners[q] : g \in DOMAIN asked /\ asked[g] = q
<1>1. /\ version \in Nat /\ Len(asked) \in Nat /\ DOMAIN asked = 1..Len(asked)
      /\ asked \in Seq(Query) /\ floor \in Seq(Version) /\ Len(floor) = Len(asked)
      /\ DOMAIN floor = DOMAIN asked
  BY DEF IInv, TypeOK, Version
<1>2. Len(asked) <= MaxGets /\ MaxGets \in Nat
  BY GetsAssumption DEF IInv, GetsInv
<1>3. \A g \in DOMAIN asked : asked[g] \in Query /\ floor[g] \in Version
  BY <1>1, ElementOf
<1> QED
  BY <1>1, <1>2, <1>3 DEF IInv, GetsInv, Get, Version

LEMMA InitTasks == Init => TasksInv
<1> SUFFICES ASSUME Init PROVE TasksInv
  OBVIOUS
<1>1. /\ asked = <<>> /\ tasks = <<>> /\ gone = {} /\ DOMAIN asked = {} /\ DOMAIN tasks = {}
      /\ \A q \in Query : listeners[q] = {}
  BY DEF Init
<1>2. Unanswered = {}
  BY <1>1 DEF Unanswered
<1> QED
  BY <1>1, <1>2 DEF TasksInv

\* Steps that leave gets and tasks alone.
LEMMA SameTasks ==
  ASSUME IInv, TasksInv, UNCHANGED <<asked, floor, tasks, listeners, answers, gone>>,
         version' \in Nat, version <= version',
         \A g \in Get : events[g] = <<>> /\ (\A q \in Query : g \notin listeners[q]) => events'[g] = <<>>
  PROVE  TasksInv'
<1>1. DOMAIN asked \subseteq Get /\ version \in Nat /\ \A g \in DOMAIN asked : floor[g] \in Nat
  BY GetsAre
<1>2. Unanswered' = Unanswered
  BY DEF Unanswered
<1>3. \A i \in DOMAIN tasks, g \in DOMAIN asked :
        /\ Joins(i, g)' <=> Joins(i, g)
        /\ Alone(i, g)' <=> Alone(i, g)
  BY DEF Joins, Alone, IsListen, IsUnlisten
<1>4. \A g \in DOMAIN asked : floor'[g] <= version'
  BY <1>1 DEF TasksInv
<1>5. ASSUME NEW i \in DOMAIN tasks, NEW g \in DOMAIN asked, IsListen(i, g) PROVE events'[g] = <<>>
  <2>1. \A q \in Query : g \in listeners[q] => asked[g] = q
    BY DEF IInv, GetsInv
  <2>2. events[g] = <<>> /\ g \notin listeners[asked[g]]
    BY <1>5 DEF TasksInv
  <2> QED
    BY <1>1, <2>1, <2>2
<1> QED
  BY <1>2, <1>3, <1>4, <1>5 DEF TasksInv, IsListen, IsUnlisten

\* Snapshots are for listeners.
LEMMA PublishedFor ==
  ASSUME NEW vs, NEW o, Publish(vs, o)
  PROVE  \A g \in Get : events[g] = <<>> /\ (\A q \in Query : g \notin listeners[q]) => events'[g] = <<>>
BY DEF Publish

LEMMA RemoteTasks ==
  ASSUME IInv, TasksInv, UNCHANGED <<version, asked, floor, tasks, listeners, answers, gone>>,
         events' = events \/ \E vs, o : Publish(vs, o)
  PROVE  TasksInv'
<1>1. version \in Nat
  BY DEF IInv, TypeOK, Version
<1>2. \A g \in Get : events[g] = <<>> /\ (\A q \in Query : g \notin listeners[q]) => events'[g] = <<>>
  BY PublishedFor
<1> QED
  BY <1>1, <1>2, SameTasks

LEMMA CommitsTasks ==
  ASSUME IInv, TasksInv, Commits
  PROVE  TasksInv'
<1>1. version \in Nat /\ version' = version + 1
  BY DEF IInv, TypeOK, Version, Commits
<1>2. UNCHANGED <<asked, floor, tasks, listeners, answers, gone, events>>
  BY DEF Commits, appVars, userVars
<1> QED
  BY <1>1, <1>2, SameTasks

LEMMA RestartTasks ==
  ASSUME IInv, TasksInv, Restart
  PROVE  TasksInv'
<1>1. /\ tasks' = <<>> /\ gone' = gone \cup Unanswered /\ DOMAIN tasks' = {}
      /\ \A q \in Query : listeners'[q] = {}
      /\ UNCHANGED <<version, asked, floor, answers>>
  BY DEF Restart, appVars
<1>2. Unanswered' = {} /\ Unanswered \subseteq DOMAIN asked
  BY <1>1 DEF Unanswered
<1> QED
  BY <1>1, <1>2 DEF TasksInv

\* A credential change is put on the worker queue.
LEMMA CredentialChangesTasks ==
  ASSUME IInv, TasksInv, CredentialChanges
  PROVE  TasksInv'
<1> DEFINE e == [kind |-> "credential"]
<1>1. /\ tasks \in Seq(Task) /\ tasks' = Append(tasks, e)
      /\ UNCHANGED <<version, asked, floor, listeners, events, answers, gone>>
  BY DEF IInv, TypeOK, CredentialChanges, appVars, userVars
<1>2. /\ Len(tasks) \in Nat /\ DOMAIN tasks = 1..Len(tasks)
      /\ DOMAIN tasks' = 1..(Len(tasks) + 1)
      /\ \A i \in DOMAIN tasks : tasks'[i] = tasks[i]
      /\ tasks'[Len(tasks) + 1].kind = "credential"
  BY <1>1, Appended
<1>3. Unanswered' = Unanswered
  BY <1>1 DEF Unanswered
<1>4. /\ \A i \in DOMAIN tasks' : \A g : IsListen(i, g)' => i \in DOMAIN tasks /\ IsListen(i, g)
      /\ \A i \in DOMAIN tasks' : \A g : IsUnlisten(i, g)' => i \in DOMAIN tasks /\ IsUnlisten(i, g)
      /\ \A i \in DOMAIN tasks : \A g : IsListen(i, g) => i \in DOMAIN tasks' /\ IsListen(i, g)'
      /\ \A i \in DOMAIN tasks : \A g : IsUnlisten(i, g) => i \in DOMAIN tasks' /\ IsUnlisten(i, g)'
  BY <1>2 DEF IsListen, IsUnlisten
<1>5. ASSUME NEW i \in DOMAIN tasks, NEW g \in DOMAIN asked
      PROVE  (Joins(i, g) => Joins(i, g)') /\ (Alone(i, g) => Alone(i, g)')
  <2>1. Joins(i, g) => Joins(i, g)'
    BY <1>1, <1>4 DEF Joins
  <2>2. Alone(i, g) => Alone(i, g)'
    BY <1>1, <1>2, <1>4 DEF Alone
  <2> QED
    BY <2>1, <2>2
<1>6. ASSUME NEW i \in DOMAIN tasks', NEW g \in DOMAIN asked', IsListen(i, g)'
      PROVE  /\ g \in Unanswered' /\ events'[g] = <<>> /\ g \notin listeners'[asked'[g]]
             /\ \A j \in DOMAIN tasks' : IsListen(j, g)' => j = i
             /\ Joins(i, g)' \/ Alone(i, g)'
  BY <1>1, <1>3, <1>4, <1>5, <1>6 DEF TasksInv
<1> QED
  BY <1>1, <1>3, <1>4, <1>6 DEF TasksInv

\* The front of the worker queue is run.
LEMMA RunTasks ==
  ASSUME IInv, TasksInv, tasks # <<>>, tasks' = Tail(tasks),
         UNCHANGED <<version, asked, floor, answers, gone>>,
         \A q \in Query : \A g \in listeners[q] : g \in listeners'[q] \/ IsUnlisten(1, g),
         \A g \in DOMAIN asked : IsListen(1, g) => g \in listeners'[asked[g]],
         \A q \in Query : \A g \in listeners'[q] :
           \/ g \in listeners[q] /\ ~IsUnlisten(1, g)
           \/ IsListen(1, g) /\ g \in DOMAIN asked /\ asked[g] = q,
         \A g \in DOMAIN asked :
           events[g] = <<>> /\ g \notin listeners[asked[g]] /\ ~IsListen(1, g) => events'[g] = <<>>
  PROVE  TasksInv'
<1>1. tasks \in Seq(Task)
  BY DEF IInv, TypeOK
<1>2. /\ 1 \in DOMAIN tasks /\ DOMAIN tasks \subseteq Nat /\ DOMAIN tasks' \subseteq Nat
      /\ \A i \in DOMAIN tasks' : i + 1 \in DOMAIN tasks /\ tasks'[i] = tasks[i + 1] /\ i + 1 # 1
      /\ \A j \in DOMAIN tasks : j # 1 => j - 1 \in DOMAIN tasks' /\ tasks'[j - 1] = tasks[j]
  BY <1>1, Shifted
<1>3. Unanswered' = Unanswered
  BY DEF Unanswered
<1>4. /\ \A i \in DOMAIN tasks' : \A g : IsListen(i, g)' => IsListen(i + 1, g)
      /\ \A i \in DOMAIN tasks' : \A g : IsUnlisten(i, g)' => IsUnlisten(i + 1, g)
      /\ \A j \in DOMAIN tasks : \A g : j # 1 /\ IsListen(j, g) => IsListen(j - 1, g)'
      /\ \A j \in DOMAIN tasks : \A g : j # 1 /\ IsUnlisten(j, g) => IsUnlisten(j - 1, g)'
  BY <1>2 DEF IsListen, IsUnlisten
<1>5. \A g \in DOMAIN asked : asked[g] \in Query
  BY GetsAre
<1>6. ASSUME NEW i \in DOMAIN tasks', NEW g \in DOMAIN asked, Joins(i + 1, g)
      PROVE  Joins(i, g)'
  <2>1. PICK m \in DOMAIN asked :
          /\ asked[m] = asked[g] /\ floor[m] = floor[g]
          /\ m \in listeners[asked[g]] \/ \E j \in DOMAIN tasks : j < i + 1 /\ IsListen(j, m)
          /\ \A j \in DOMAIN tasks : j < i + 1 => ~IsUnlisten(j, m)
    BY <1>6 DEF Joins
  <2>2. \A j \in DOMAIN tasks' : j < i => ~IsUnlisten(j, m)'
    BY <1>2, <1>4, <2>1
  <2>3. ~IsUnlisten(1, m)
    BY <1>2, <2>1
  <2>4. m \in listeners'[asked[g]] \/ \E j \in DOMAIN tasks' : j < i /\ IsListen(j, m)'
    <3>1. CASE m \in listeners[asked[g]] \/ IsListen(1, m)
      BY <1>5, <2>1, <2>3, <3>1
    <3>2. ASSUME NEW j \in DOMAIN tasks, j < i + 1, IsListen(j, m), j # 1
          PROVE  \E k \in DOMAIN tasks' : k < i /\ IsListen(k, m)'
      <4>1. j - 1 \in DOMAIN tasks' /\ j - 1 < i /\ IsListen(j - 1, m)'
        BY <1>2, <1>4, <3>2
      <4> QED
        BY <4>1
    <3> QED
      BY <2>1, <3>1, <3>2
  <2> QED
    BY <2>1, <2>2, <2>4 DEF Joins
<1>7. ASSUME NEW i \in DOMAIN tasks', NEW g \in DOMAIN asked, Alone(i + 1, g)
      PROVE  Alone(i, g)'
  <2>1. \A j \in DOMAIN tasks' : j < i /\ tasks'[j].kind = "listen" => asked[tasks'[j].g] # asked[g]
    <3>1. \A j \in DOMAIN tasks' : j < i => j + 1 < i + 1
      BY <1>2
    <3> QED
      BY <1>2, <1>7, <3>1 DEF Alone
  <2>2. ASSUME NEW h \in listeners'[asked[g]]
        PROVE  \E j \in DOMAIN tasks' : j < i /\ IsUnlisten(j, h)'
    <3>1. ~(IsListen(1, h) /\ asked[h] = asked[g])
      <4>1. 1 < i + 1 /\ 1 \in DOMAIN tasks
        BY <1>2
      <4> QED
        BY <1>7, <4>1 DEF Alone, IsListen
    <3>2. h \in listeners[asked[g]] /\ ~IsUnlisten(1, h)
      BY <1>5, <2>2, <3>1
    <3>3. PICK j \in DOMAIN tasks : j < i + 1 /\ IsUnlisten(j, h)
      BY <1>7, <3>2 DEF Alone
    <3>4. j # 1
      BY <3>2, <3>3
    <3>5. j - 1 \in DOMAIN tasks' /\ j - 1 < i /\ IsUnlisten(j - 1, h)'
      BY <1>2, <1>4, <3>3, <3>4
    <3> QED
      BY <3>5
  <2> QED
    BY <2>1, <2>2 DEF Alone
<1>8. ASSUME NEW i \in DOMAIN tasks', NEW g \in DOMAIN asked, IsListen(i, g)'
      PROVE  /\ g \in Unanswered /\ events'[g] = <<>> /\ g \notin listeners'[asked[g]]
             /\ \A j \in DOMAIN tasks' : IsListen(j, g)' => j = i
             /\ Joins(i, g)' \/ Alone(i, g)'
  <2>1. i + 1 \in DOMAIN tasks /\ IsListen(i + 1, g) /\ i + 1 # 1
    BY <1>2, <1>4, <1>8
  <2>2. /\ g \in Unanswered /\ events[g] = <<>> /\ g \notin listeners[asked[g]]
        /\ \A j \in DOMAIN tasks : IsListen(j, g) => j = i + 1
        /\ Joins(i + 1, g) \/ Alone(i + 1, g)
    BY <2>1 DEF TasksInv
  <2>3. ~IsListen(1, g)
    BY <1>2, <2>1, <2>2
  <2>4. \A j \in DOMAIN tasks' : IsListen(j, g)' => j = i
    BY <1>2, <1>4, <2>2
  <2>5. events'[g] = <<>> /\ g \notin listeners'[asked[g]]
    BY <1>5, <2>2, <2>3
  <2> QED
    BY <1>6, <1>7, <2>2, <2>4, <2>5
<1>9. \A i \in DOMAIN tasks' : \A g \in DOMAIN asked : IsUnlisten(i, g)' => answers[g] # <<>>
  BY <1>2, <1>4 DEF TasksInv
<1>10. ASSUME NEW q \in Query, NEW g \in listeners'[q]
       PROVE  g \notin gone /\ (answers[g] # <<>> => \E i \in DOMAIN tasks' : IsUnlisten(i, g)')
  <2>1. CASE g \in listeners[q] /\ ~IsUnlisten(1, g)
    <3>1. ASSUME answers[g] # <<>>
          PROVE  \E i \in DOMAIN tasks' : IsUnlisten(i, g)'
      <4>1. PICK j \in DOMAIN tasks : IsUnlisten(j, g)
        BY <2>1, <3>1 DEF TasksInv
      <4>2. j # 1
        BY <2>1, <4>1
      <4> QED
        BY <1>2, <1>4, <4>1, <4>2
    <3> QED
      BY <2>1, <3>1 DEF TasksInv
  <2>2. CASE IsListen(1, g) /\ g \in DOMAIN asked
    BY <1>2, <2>2 DEF TasksInv, Unanswered
  <2> QED
    BY <1>10, <2>1, <2>2
<1>11. ASSUME NEW g \in Unanswered
       PROVE  g \in listeners'[asked[g]] \/ \E i \in DOMAIN tasks' : IsListen(i, g)'
  <2>1. g \in DOMAIN asked /\ answers[g] = <<>>
    BY DEF Unanswered
  <2>2. ~IsUnlisten(1, g)
    BY <1>2, <2>1 DEF TasksInv
  <2>3. CASE g \in listeners[asked[g]] \/ IsListen(1, g)
    BY <1>5, <2>1, <2>2, <2>3
  <2>4. ASSUME NEW j \in DOMAIN tasks, IsListen(j, g), j # 1
        PROVE  \E i \in DOMAIN tasks' : IsListen(i, g)'
    BY <1>2, <1>4, <2>4
  <2> QED
    BY <2>3, <2>4 DEF TasksInv
<1> QED
  BY <1>3, <1>8, <1>9, <1>10, <1>11 DEF TasksInv

LEMMA RunListenTasks ==
  ASSUME IInv, TasksInv, RunListen
  PROVE  TasksInv'
<1> DEFINE p == asked[Head(tasks).g]
<1>1. /\ tasks # <<>> /\ Head(tasks).kind = "listen" /\ tasks' = Tail(tasks)
      /\ listeners' = [listeners EXCEPT ![p] = @ \cup {Head(tasks).g}]
      /\ UNCHANGED <<version, asked, floor, answers, gone>>
      /\ \/ events' = events
         \/ \E e : events' = [events EXCEPT ![Head(tasks).g] = Append(@, e)]
  BY DEF RunListen, IsNext, appVars
<1>2. /\ Head(tasks).g \in DOMAIN asked /\ p \in Query /\ Head(tasks) = tasks[1]
      /\ listeners \in [Query -> SUBSET Get] /\ events \in [Get -> Seq(Snapshot)]
  BY <1>1, FrontTask, Shifted DEF IInv, TypeOK
<1>3. /\ \A g : ~IsUnlisten(1, g)
      /\ \A g : IsListen(1, g) <=> g = Head(tasks).g
  BY <1>1, <1>2 DEF IsListen, IsUnlisten
<1>4. \A q \in Query : listeners'[q] = IF q = p THEN listeners[q] \cup {Head(tasks).g} ELSE listeners[q]
  BY <1>1, <1>2
<1>5. \A g \in DOMAIN asked : ~IsListen(1, g) => events'[g] = events[g]
  BY <1>1, <1>2, <1>3, GetsAre
<1> QED
  BY <1>1, <1>2, <1>3, <1>4, <1>5, RunTasks

LEMMA RunUnlistenTasks ==
  ASSUME IInv, TasksInv, RunUnlisten
  PROVE  TasksInv'
<1> DEFINE p == asked[Head(tasks).g]
<1>1. /\ tasks # <<>> /\ Head(tasks).kind = "unlisten" /\ tasks' = Tail(tasks)
      /\ listeners' = [listeners EXCEPT ![p] = @ \ {Head(tasks).g}]
      /\ UNCHANGED <<version, asked, floor, answers, gone, events>>
  BY DEF RunUnlisten, IsNext, appVars
<1>2. /\ Head(tasks).g \in DOMAIN asked /\ p \in Query /\ Head(tasks) = tasks[1]
      /\ listeners \in [Query -> SUBSET Get]
  BY <1>1, FrontTask, Shifted DEF IInv, TypeOK
<1>3. /\ \A g : ~IsListen(1, g)
      /\ \A g : IsUnlisten(1, g) <=> g = Head(tasks).g
  BY <1>1, <1>2 DEF IsListen, IsUnlisten
<1>4. \A q \in Query : listeners'[q] = IF q = p THEN listeners[q] \ {Head(tasks).g} ELSE listeners[q]
  BY <1>1, <1>2
<1>5. \A q \in Query : \A g \in listeners[q] : asked[g] = q
  BY GetsAre
<1> QED
  BY <1>1, <1>2, <1>3, <1>4, <1>5, RunTasks

LEMMA RunCredentialTasks ==
  ASSUME IInv, TasksInv, RunCredential
  PROVE  TasksInv'
<1>1. /\ tasks # <<>> /\ Head(tasks).kind = "credential" /\ tasks' = Tail(tasks)
      /\ \E vs, o : Publish(vs, o)
      /\ UNCHANGED <<version, asked, floor, answers, gone, listeners>>
  <2>1. \E o : SetOnline(o)
    BY DEF RunCredential
  <2>2. \E vs, o : Publish(vs, o)
    BY <2>1 DEF SetOnline
  <2> QED
    BY <2>2 DEF RunCredential, IsNext, appVars
<1>2. Head(tasks) = tasks[1]
  BY <1>1, Shifted DEF IInv, TypeOK
<1>3. \A g : ~IsListen(1, g) /\ ~IsUnlisten(1, g)
  BY <1>1, <1>2 DEF IsListen, IsUnlisten
<1>4. ASSUME NEW g \in DOMAIN asked, events[g] = <<>>, g \notin listeners[asked[g]]
      PROVE  events'[g] = <<>>
  <2>1. g \in Get /\ \A q \in Query : g \notin listeners[q]
    BY <1>4, GetsAre
  <2> QED
    BY <1>1, <1>4, <2>1, PublishedFor
<1> QED
  BY <1>1, <1>3, <1>4, RunTasks

LEMMA AskTasks ==
  ASSUME IInv, TasksInv, NEW q \in Query, Ask(q)
  PROVE  TasksInv'
<1>0. PICK n, k : n = Len(asked) + 1 /\ k = Len(tasks) + 1
  OBVIOUS
<1> DEFINE others == {g \in Unanswered : asked[g] = q}
           v == IF others = {} THEN version ELSE floor[Min(others)]
           e == [kind |-> "listen", g |-> n]
<1>1. /\ tasks \in Seq(Task) /\ tasks' = Append(tasks, e)
      /\ asked' = Append(asked, q) /\ floor' = Append(floor, v)
      /\ UNCHANGED <<version, listeners, events, answers, gone>>
      /\ events \in [Get -> Seq(Snapshot)]
  BY <1>0 DEF IInv, TypeOK, Ask, userVars
<1>2. /\ Len(asked) \in Nat /\ DOMAIN asked = 1..Len(asked) /\ DOMAIN floor = DOMAIN asked
      /\ DOMAIN asked' = DOMAIN asked \cup {n}
      /\ \A g \in DOMAIN asked : g \in Nat /\ g # n /\ asked'[g] = asked[g] /\ floor'[g] = floor[g]
      /\ asked'[n] = q /\ floor'[n] = v
  <2>1. /\ asked \in Seq(Query) /\ floor \in Seq(Version) /\ Len(floor) = Len(asked)
        /\ Len(asked) \in Nat /\ DOMAIN asked = 1..Len(asked) /\ DOMAIN floor = DOMAIN asked
    BY GetsAre
  <2> HIDE DEF v
  <2> QED
    BY <1>0, <1>1, <2>1, Appended
<1>3. /\ Len(tasks) \in Nat /\ k \in DOMAIN tasks' /\ DOMAIN tasks' = DOMAIN tasks \cup {k}
      /\ \A i \in DOMAIN tasks : tasks'[i] = tasks[i] /\ i < k
      /\ tasks'[k] = e
  <2> HIDE DEF e
  <2> QED
    BY <1>0, <1>1, Appended
<1>4. /\ others \subseteq Unanswered /\ Unanswered \subseteq DOMAIN asked /\ DOMAIN asked \subseteq Nat
      /\ \A g \in others : asked[g] = q
      /\ others = {} => v = version
      /\ others # {} => v = floor[Min(others)]
  BY <1>2 DEF Unanswered
<1>5. \A g \in Unanswered : asked[g] = q => g \in others
  OBVIOUS
<1>6. e.kind = "listen" /\ e.g = n
  OBVIOUS
<1> HIDE DEF others, v, e
<1>7. n \in Get /\ n \notin DOMAIN asked
  BY <1>0, <1>2, GetsAssumption DEF Ask, Get
<1>8. n \in Unanswered' /\ events'[n] = <<>> /\ \A p \in Query : n \notin listeners'[p]
  <2>1. events[n] = <<>> /\ answers[n] = <<>>
    BY <1>7 DEF IInv, GetsInv
  <2>2. n \notin gone
    BY <1>7 DEF TasksInv
  <2> QED
    BY <1>1, <1>2, <1>7, <2>1, <2>2, GetsAre DEF Unanswered
<1>9. Unanswered' = Unanswered \cup {n}
  BY <1>1, <1>2, <1>8 DEF Unanswered
<1>10. /\ \A i \in DOMAIN tasks : \A g : IsListen(i, g)' <=> IsListen(i, g)
       /\ \A i \in DOMAIN tasks : \A g : IsUnlisten(i, g)' <=> IsUnlisten(i, g)
       /\ \A g : (IsListen(k, g)' <=> g = n) /\ ~IsUnlisten(k, g)'
  BY <1>3, <1>6 DEF IsListen, IsUnlisten
<1>11. \A i \in DOMAIN tasks : \A g : IsListen(i, g) => g \in DOMAIN asked
  BY DEF IInv, GetsInv, IsListen
<1>12. ASSUME NEW i \in DOMAIN tasks, NEW g \in DOMAIN asked
       PROVE  (Joins(i, g) => Joins(i, g)') /\ (Alone(i, g) => Alone(i, g)')
  <2>1. \A j \in DOMAIN tasks' : j < i => j \in DOMAIN tasks
    BY <1>1, <1>3 
  <2>2. Joins(i, g) => Joins(i, g)'
    BY <1>1, <1>2, <1>3, <1>10, <2>1 DEF Joins
  <2>3. Alone(i, g) => Alone(i, g)'
    <3>1. \A j \in DOMAIN tasks : tasks[j].kind = "listen" => tasks[j].g \in DOMAIN asked
      BY DEF IInv, GetsInv
    <3> QED
      BY <1>1, <1>2, <1>3, <1>10, <2>1, <3>1 DEF Alone
  <2> QED
    BY <2>2, <2>3
<1>13. Joins(k, n)' \/ Alone(k, n)'
  <2>1. \A j \in DOMAIN tasks' : j < k => j \in DOMAIN tasks
    BY <1>3
  <2>2. CASE others = {}
    <3>1. ASSUME NEW h \in listeners'[q]
          PROVE  \E j \in DOMAIN tasks' : j < k /\ IsUnlisten(j, h)'
      <4>1. h \in DOMAIN asked /\ asked[h] = q /\ h \notin gone
        BY <1>1, <3>1, GetsAre DEF TasksInv
      <4>2. h \notin Unanswered
        BY <1>5, <2>2, <4>1
      <4>3. answers[h] # <<>>
        BY <4>1, <4>2 DEF Unanswered
      <4>4. PICK j \in DOMAIN tasks : IsUnlisten(j, h)
        BY <1>1, <3>1, <4>3 DEF TasksInv
      <4> QED
        BY <1>3, <1>10, <4>4
    <3>2. ASSUME NEW j \in DOMAIN tasks', j < k, tasks'[j].kind = "listen"
          PROVE  asked'[tasks'[j].g] # q
      <4>1. j \in DOMAIN tasks /\ tasks'[j] = tasks[j] /\ IsListen(j, tasks[j].g)
        BY <1>3, <2>1, <3>2 DEF IsListen
      <4>2. tasks[j].g \in DOMAIN asked /\ tasks[j].g \in Unanswered
        BY <1>11, <4>1 DEF TasksInv
      <4> QED
        BY <1>2, <1>5, <2>2, <4>1, <4>2
    <3> QED
      BY <1>2, <3>1, <3>2 DEF Alone
  <2>3. CASE others # {}
    <3>0. PICK m : m = Min(others)
      OBVIOUS
    <3>1. m \in others /\ m \in Unanswered /\ m \in DOMAIN asked /\ asked[m] = q
      BY <1>4, <2>3, <3>0, MinOf
    <3>2. floor'[n] = floor'[m] /\ asked'[n] = asked'[m] /\ m \in DOMAIN asked'
      BY <1>2, <1>4, <2>3, <3>0, <3>1
    <3>3. m \in listeners[q] \/ \E j \in DOMAIN tasks : IsListen(j, m)
      BY <3>1 DEF TasksInv
    <3>4. m \in listeners'[asked'[n]] \/ \E j \in DOMAIN tasks' : j < k /\ IsListen(j, m)'
      BY <1>1, <1>2, <1>3, <1>10, <3>3
    <3>5. answers[m] = <<>>
      BY <3>1 DEF Unanswered
    <3>6. \A j \in DOMAIN tasks' : j < k => ~IsUnlisten(j, m)'
      BY <1>10, <2>1, <3>1, <3>5 DEF TasksInv
    <3> QED
      BY <3>2, <3>4, <3>6 DEF Joins
  <2> QED
    BY <2>2, <2>3
<1>14. v <= version
  <2>1. version \in Nat /\ \A g \in DOMAIN asked : floor[g] <= version
    BY GetsAre DEF TasksInv
  <2>2. others # {} => Min(others) \in DOMAIN asked
    BY <1>4, MinOf
  <2> QED
    BY <1>4, <2>1, <2>2
<1>15. gone' \subseteq DOMAIN asked' /\ \A g \in DOMAIN asked' : floor'[g] <= version'
  BY <1>1, <1>2, <1>14 DEF TasksInv
<1>16. ASSUME NEW i \in DOMAIN tasks', NEW g \in DOMAIN asked', IsListen(i, g)'
       PROVE  /\ g \in Unanswered' /\ events'[g] = <<>> /\ g \notin listeners'[asked'[g]]
              /\ \A j \in DOMAIN tasks' : IsListen(j, g)' => j = i
              /\ Joins(i, g)' \/ Alone(i, g)'
  <2>1. CASE i \in DOMAIN tasks
    <3>1. IsListen(i, g) /\ g \in DOMAIN asked /\ g # n
      BY <1>2, <1>10, <1>11, <1>16, <2>1
    <3>2. \A j \in DOMAIN tasks' : IsListen(j, g)' => j = i
      BY <1>3, <1>10, <2>1, <3>1 DEF TasksInv
    <3>3. g \in Unanswered' /\ events'[g] = <<>> /\ g \notin listeners'[asked'[g]]
      BY <1>1, <1>2, <1>9, <2>1, <3>1 DEF TasksInv
    <3>4. Joins(i, g)' \/ Alone(i, g)'
      BY <1>12, <2>1, <3>1 DEF TasksInv
    <3> QED
      BY <3>2, <3>3, <3>4
  <2>2. CASE i = k
    <3>1. g = n
      BY <1>10, <1>16, <2>2
    <3>2. \A j \in DOMAIN tasks' : IsListen(j, n)' => j = k
      BY <1>3, <1>7, <1>10, <1>11
    <3>3. asked'[n] \in Query
      BY <1>2
    <3> QED
      BY <1>8, <1>13, <2>2, <3>1, <3>2, <3>3
  <2> QED
    BY <1>3, <2>1, <2>2
<1>17. \A i \in DOMAIN tasks' : \A g \in DOMAIN asked' : IsUnlisten(i, g)' => answers'[g] # <<>>
  <2>1. \A i \in DOMAIN tasks : \A g : IsUnlisten(i, g) => g \in DOMAIN asked
    BY DEF IInv, GetsInv, IsUnlisten
  <2> QED
    BY <1>1, <1>3, <1>10, <2>1 DEF TasksInv
<1>18. \A p \in Query : \A g \in listeners'[p] :
         g \notin gone' /\ (answers'[g] # <<>> => \E i \in DOMAIN tasks' : IsUnlisten(i, g)')
  BY <1>1, <1>3, <1>10 DEF TasksInv
<1>19. ASSUME NEW g \in Unanswered'
       PROVE  g \in listeners'[asked'[g]] \/ \E i \in DOMAIN tasks' : IsListen(i, g)'
  <2>1. CASE g = n
    BY <1>3, <1>10, <2>1
  <2>2. CASE g \in Unanswered
    BY <1>1, <1>2, <1>3, <1>4, <1>10, <2>2 DEF TasksInv
  <2> QED
    BY <1>9, <2>1, <2>2
<1> QED
  BY <1>15, <1>16, <1>17, <1>18, <1>19 DEF TasksInv

LEMMA DeliverTasks ==
  ASSUME IInv, TasksInv, NEW g \in Get, Deliver(g)
  PROVE  TasksInv'
<1>0. PICK k : k = Len(tasks) + 1
  OBVIOUS
<1> DEFINE e == [kind |-> "unlisten", g |-> g]
<1>1. /\ tasks \in Seq(Task) /\ events \in [Get -> Seq(Snapshot)] /\ answers \in [Get -> Seq(Snapshot)]
      /\ events[g] # <<>>
      /\ UNCHANGED <<version, asked, floor, listeners, gone>>
      /\ version \in Nat
  BY GetsAre DEF IInv, TypeOK, Deliver, appVars
<1>2. \A h \in Get : h # g => events'[h] = events[h]
  BY <1>1 DEF Deliver
<1>3. CASE answers[g] # <<>>
  <2>1. UNCHANGED <<asked, floor, tasks, listeners, answers, gone>>
    BY <1>1, <1>3 DEF Deliver
  <2>2. \A h \in Get : events[h] = <<>> => events'[h] = <<>>
    BY <1>1, <1>2
  <2> QED
    BY <1>1, <2>1, <2>2, SameTasks
<1>4. CASE answers[g] = <<>>
  <2>1. /\ tasks' = Append(tasks, e)
        /\ answers'[g] # <<>> /\ \A h \in Get : h # g => answers'[h] = answers[h]
    <3>1. /\ tasks' = Append(tasks, e)
          /\ answers' = [answers EXCEPT ![g] = <<Head(events[g])>>]
      BY <1>4 DEF Deliver
    <3>2. \A x : <<x>> # <<>>
      OBVIOUS
    <3> QED
      BY <1>1, <3>1, <3>2
  <2>2. /\ Len(tasks) \in Nat /\ k \in DOMAIN tasks' /\ DOMAIN tasks' = DOMAIN tasks \cup {k}
        /\ \A i \in DOMAIN tasks : tasks'[i] = tasks[i] /\ i < k
        /\ tasks'[k] = e
    <3> HIDE DEF e
    <3> QED
      BY <1>0, <1>1, <2>1, Appended
  <2>3. e.kind = "unlisten" /\ e.g = g
    OBVIOUS
  <2> HIDE DEF e
  <2>4. g \in DOMAIN asked /\ DOMAIN asked \subseteq Get
    BY <1>1, GetsAre DEF IInv, GetsInv
  <2>5. Unanswered' = Unanswered \ {g}
    BY <1>1, <2>1, <2>4 DEF Unanswered
  <2>6. /\ \A i \in DOMAIN tasks : \A h : IsListen(i, h)' <=> IsListen(i, h)
        /\ \A i \in DOMAIN tasks : \A h : IsUnlisten(i, h)' <=> IsUnlisten(i, h)
        /\ \A h : (IsUnlisten(k, h)' <=> h = g) /\ ~IsListen(k, h)'
    BY <2>2, <2>3 DEF IsListen, IsUnlisten
  <2>7. ASSUME NEW i \in DOMAIN tasks, NEW h \in DOMAIN asked
        PROVE  (Joins(i, h) => Joins(i, h)') /\ (Alone(i, h) => Alone(i, h)')
    <3>1. \A j \in DOMAIN tasks' : j < i => j \in DOMAIN tasks
      <4>1. DOMAIN tasks \subseteq Nat /\ k \in Nat
        BY <1>0, <1>1
      <4> QED
        BY <2>2, <4>1
    <3>2. Joins(i, h) => Joins(i, h)'
      BY <1>1, <2>2, <2>6, <3>1 DEF Joins
    <3>3. Alone(i, h) => Alone(i, h)'
      BY <1>1, <2>2, <2>6, <3>1 DEF Alone
    <3> QED
      BY <3>2, <3>3
  <2>8. ASSUME NEW i \in DOMAIN tasks', NEW h \in DOMAIN asked', IsListen(i, h)'
        PROVE  /\ h \in Unanswered' /\ events'[h] = <<>> /\ h \notin listeners'[asked'[h]]
               /\ \A j \in DOMAIN tasks' : IsListen(j, h)' => j = i
               /\ Joins(i, h)' \/ Alone(i, h)'
    <3>1. i \in DOMAIN tasks /\ IsListen(i, h) /\ h \in DOMAIN asked
      BY <1>1, <2>2, <2>6, <2>8
    <3>2. h \in Unanswered /\ events[h] = <<>> /\ h \notin listeners[asked[h]]
      BY <3>1 DEF TasksInv
    <3>3. h # g
      BY <1>1, <3>2
    <3>4. \A j \in DOMAIN tasks' : IsListen(j, h)' => j = i
      BY <2>2, <2>6, <3>1 DEF TasksInv
    <3>5. Joins(i, h)' \/ Alone(i, h)'
      BY <2>7, <3>1 DEF TasksInv
    <3> QED
      BY <1>1, <1>2, <2>4, <2>5, <3>1, <3>2, <3>3, <3>4, <3>5
  <2>9. \A i \in DOMAIN tasks' : \A h \in DOMAIN asked' : IsUnlisten(i, h)' => answers'[h] # <<>>
    BY <1>1, <2>1, <2>2, <2>4, <2>6 DEF TasksInv
  <2>10. \A p \in Query : \A h \in listeners'[p] :
           h \notin gone' /\ (answers'[h] # <<>> => \E i \in DOMAIN tasks' : IsUnlisten(i, h)')
    <3>1. \A p \in Query : \A h \in listeners[p] : h \in Get
      BY <2>4, GetsAre
    <3> QED
      BY <1>1, <2>1, <2>2, <2>6, <3>1 DEF TasksInv
  <2>11. \A h \in Unanswered' :
           h \in listeners'[asked'[h]] \/ \E i \in DOMAIN tasks' : IsListen(i, h)'
    BY <1>1, <2>2, <2>5, <2>6 DEF TasksInv
  <2>12. gone' \subseteq DOMAIN asked' /\ \A h \in DOMAIN asked' : floor'[h] <= version'
    BY <1>1 DEF TasksInv
  <2> QED
    BY <2>8, <2>9, <2>10, <2>11, <2>12 DEF TasksInv
<1> QED
  BY <1>3, <1>4

LEMMA NextTasks == IInv /\ TasksInv /\ [Next]_vars => TasksInv'
<1> SUFFICES ASSUME IInv, TasksInv, [Next]_vars PROVE TasksInv'
  OBVIOUS
<1>1. ASSUME NEW q \in Query, Ask(q) PROVE TasksInv'
  BY <1>1, AskTasks
<1>2. ASSUME NEW g \in Get, Deliver(g) PROVE TasksInv'
  BY <1>2, DeliverTasks
<1>3. CASE CredentialChanges \/ Restart \/ Commits
  BY <1>3, CredentialChangesTasks, RestartTasks, CommitsTasks
<1>4. CASE RunTask
  BY <1>4, RunListenTasks, RunUnlistenTasks, RunCredentialTasks DEF RunTask
<1>5. CASE TokenArrives \/ BackoffElapses \/ CallBreaks \/ UNCHANGED vars
  <2>1. UNCHANGED <<version, asked, floor, tasks, listeners, answers, gone, events>>
    BY <1>5 DEF TokenArrives, BackoffElapses, CallBreaks, vars, appVars, userVars
  <2> QED
    BY <2>1, RemoteTasks
<1>6. CASE TokenFails \/ IdleTimerFires \/ OnlineTimerFires \/ StreamFails
  <2>1. UNCHANGED <<version, asked, floor, tasks, listeners, answers, gone>>
    BY <1>6 DEF TokenFails, IdleTimerFires, OnlineTimerFires, StreamFails, RemoteOnly, appVars
  <2>2. \E o : SetOnline(o)
    BY <1>6 DEF TokenFails, IdleTimerFires, OnlineTimerFires, StreamFails, Fail
  <2> QED
    BY <2>1, <2>2, RemoteTasks DEF SetOnline
<1>7. CASE ReadResponse
  <2>1. UNCHANGED <<version, asked, floor, tasks, listeners, answers, gone>>
    BY <1>7 DEF ReadResponse, ReadAck, ReadDocs, ReadCurrent, ReadSnapshot, Read, appVars
  <2>2. (\E o : SetOnline(o)) \/ \E vs, o : Publish(vs, o)
    BY <1>7 DEF ReadResponse, ReadAck, ReadDocs, ReadCurrent, ReadSnapshot
  <2> QED
    BY <2>1, <2>2, RemoteTasks DEF SetOnline
<1>8. CASE Respond
  <2>1. UNCHANGED <<version, asked, floor, tasks, listeners, answers, gone, events>>
    BY <1>8 DEF Respond, Serve, SendSnapshot, SendDocs, SendCurrent, BackendOnly, appVars, userVars
  <2> QED
    BY <2>1, RemoteTasks
<1> QED
  BY <1>1, <1>2, <1>3, <1>4, <1>5, <1>6, <1>7, <1>8 DEF Next

-----------------------------------------------------------------------------
(* What is synchronised: steps of the stream, seen from one query *)

\* Neither requests nor responses.
LEMMA SameAnswering ==
  ASSUME NEW s, NEW t, NEW q \in Query, NEW owed, NEW less,
         Answering(s, q, owed), less \subseteq owed,
         t.in = s.in, t.out = s.out, t.served[q] = s.served[q]
  PROVE  Answering(t, q, less)
<1>1. /\ Settled(t, q) <=> Settled(s, q)
      /\ Served(t, q) <=> Served(s, q)
      /\ \A i : Fresh(t, q, i) <=> Fresh(s, q, i)
  BY DEF Settled, Served, Fresh
<1>2. Told(s, q) => Told(t, q)
  BY <1>1 DEF Told
<1>3. InTime(s, q, owed) => InTime(t, q, less)
  BY <1>1 DEF InTime
<1> QED
  BY <1>1, <1>2, <1>3 DEF Answering

LEMMA NoAnswering ==
  ASSUME NEW t, NEW q \in Query, NEW owed, t.in = <<>>, ~Served(t, q)
  PROVE  Answering(t, q, owed)
<1>1. Told(t, q)
  BY DEF Told
<1> QED
  BY <1>1 DEF Answering

\* A request is sent.
LEMMA RequestAnswering ==
  ASSUME NEW s, NEW t, NEW q \in Query, NEW owed, NEW less,
         s.out \in Seq(Request), NEW m, t.out = Append(s.out, m),
         m.q = q \/ (Answering(s, q, owed) /\ less \subseteq owed),
         t.in = s.in, t.served[q] = s.served[q]
  PROVE  Answering(t, q, less)
<1>1. /\ DOMAIN t.out = 1..(Len(s.out) + 1) /\ DOMAIN s.out = 1..Len(s.out) /\ Len(s.out) \in Nat
      /\ \A i \in DOMAIN s.out : t.out[i] = s.out[i]
      /\ t.out[Len(s.out) + 1] = m
  BY Appended
<1>2. CASE m.q = q
  <2>1. ~Settled(t, q)
    BY <1>1, <1>2 DEF Settled
  <2> QED
    BY <2>1 DEF Answering
<1>3. CASE m.q # q
  <2>1. /\ Settled(t, q) <=> Settled(s, q)
        /\ Served(t, q) <=> Served(s, q)
        /\ \A i : Fresh(t, q, i) <=> Fresh(s, q, i)
    BY <1>1, <1>3 DEF Settled, Served, Fresh
  <2>2. Told(s, q) => Told(t, q)
    BY <2>1 DEF Told
  <2>3. InTime(s, q, owed) => InTime(t, q, less)
    BY <1>3, <2>1 DEF InTime
  <2> QED
    BY <1>3, <2>1, <2>2, <2>3 DEF Answering
<1> QED
  BY <1>2, <1>3

\* A response is read.
LEMMA ReadAnswering ==
  ASSUME NEW s, NEW t, NEW q \in Query, NEW owed, Answering(s, q, owed),
         s.in \in Seq(Response), s.in # <<>>, t.in = Tail(s.in),
         t.out = s.out, t.served[q] = s.served[q]
  PROVE  Answering(t, q, owed)
<1>1. /\ DOMAIN t.in \subseteq Nat /\ DOMAIN s.in \subseteq Nat
      /\ \A i \in DOMAIN t.in : i + 1 \in DOMAIN s.in /\ t.in[i] = s.in[i + 1]
      /\ \A j \in DOMAIN s.in : j # 1 => j - 1 \in DOMAIN t.in /\ t.in[j - 1] = s.in[j]
  BY Shifted
<1>2. Settled(t, q) <=> Settled(s, q)
  BY DEF Settled
<1>3. Served(t, q) <=> Served(s, q)
  BY DEF Served
<1>4. ASSUME NEW i \in Nat \ {0}, Fresh(t, q, i) PROVE Fresh(s, q, i + 1)
  <2>1. ASSUME NEW j \in DOMAIN s.in, j >= i + 1 PROVE s.in[j] \notin AcksFor(q)
    <3>1. j # 1 /\ j - 1 >= i
      BY <1>1, <2>1
    <3>2. j - 1 \in DOMAIN t.in /\ t.in[j - 1] = s.in[j]
      BY <1>1, <3>1
    <3> QED
      BY <1>4, <3>1, <3>2 DEF Fresh
  <2> QED
    BY <2>1 DEF Fresh
<1>5. DOMAIN t.in \subseteq Nat \ {0}
  BY Shifted
<1>6. Told(s, q) => Told(t, q)
  <2> SUFFICES ASSUME Told(s, q), NEW i \in DOMAIN t.in, t.in[i] \in AcksFor(q), Fresh(t, q, i + 1)
               PROVE  t.in[i].removed <=> ~Served(t, q)
    BY DEF Told
  <2>1. i + 1 \in DOMAIN s.in /\ t.in[i] = s.in[i + 1] /\ i + 1 \in Nat \ {0}
    BY <1>1, <1>5
  <2>2. Fresh(s, q, (i + 1) + 1)
    BY <1>4, <2>1
  <2> QED
    BY <1>3, <2>1, <2>2 DEF Told
<1>7. InTime(s, q, owed) => InTime(t, q, owed)
  <2> SUFFICES ASSUME InTime(s, q, owed), NEW n \in owed
               PROVE  /\ n <= t.served[q].since
                      /\ \A i \in DOMAIN t.in :
                           Fresh(t, q, i) /\ t.in[i].kind = "current" /\ t.in[i].q = q
                             => n <= t.in[i].token
    BY DEF InTime
  <2>1. n <= t.served[q].since
    BY DEF InTime
  <2>2. ASSUME NEW i \in DOMAIN t.in, Fresh(t, q, i), t.in[i].kind = "current", t.in[i].q = q
        PROVE  n <= t.in[i].token
    <3>1. i + 1 \in DOMAIN s.in /\ t.in[i] = s.in[i + 1] /\ Fresh(s, q, i + 1)
      BY <1>1, <1>4, <1>5, <2>2
    <3> QED
      BY <2>2, <3>1 DEF InTime
  <2> QED
    BY <2>1, <2>2
<1> QED
  BY <1>2, <1>3, <1>6, <1>7 DEF Answering

\* The backend serves a request, after every listener has asked.
LEMMA ServeAnswering ==
  ASSUME NEW s, NEW t, NEW q \in Query, NEW owed, Answering(s, q, owed),
         s.in \in Seq(Response), s.out \in Seq(Request), s.out # <<>>, t.out = Tail(s.out),
         NEW a \in Response, a.kind = "ack", a.q = Head(s.out).q, t.in = Append(s.in, a),
         a.q # q => t.served[q] = s.served[q],
         a.q = q => /\ Served(t, q) <=> ~a.removed
                    /\ ~a.removed => \A n \in owed : n <= t.served[q].since
  PROVE  Answering(t, q, owed)
<1>1. /\ Len(s.in) \in Nat /\ DOMAIN s.in = 1..Len(s.in) /\ DOMAIN t.in = 1..(Len(s.in) + 1)
      /\ \A i \in DOMAIN s.in : t.in[i] = s.in[i]
      /\ t.in[Len(s.in) + 1] = a
  BY Appended
<1>2. CASE a.q = q
  <2>1. a \in AcksFor(q)
    BY <1>2 DEF AcksFor
  <2>2. \A i \in DOMAIN t.in : i # Len(s.in) + 1 => ~Fresh(t, q, i) /\ ~Fresh(t, q, i + 1)
    BY <1>1, <2>1 DEF Fresh
  <2>3. ~Fresh(t, q, Len(s.in) + 1)
    BY <1>1, <2>1 DEF Fresh
  <2>4. Told(t, q)
    BY <1>1, <1>2, <2>2 DEF Told
  <2>5. Served(t, q) => InTime(t, q, owed)
    BY <1>1, <1>2, <2>2, <2>3 DEF InTime
  <2> QED
    BY <2>4, <2>5 DEF Answering
<1>3. CASE a.q # q
  <2>1. a \notin AcksFor(q)
    BY <1>3 DEF AcksFor
  <2>2. /\ \A i \in DOMAIN t.in : i # 1 => i \in Nat
        /\ \A i \in DOMAIN s.out : s.out[i].q = q => i # 1 /\ i - 1 \in DOMAIN t.out /\ t.out[i - 1] = s.out[i]
        /\ \A i \in DOMAIN t.out : i + 1 \in DOMAIN s.out /\ t.out[i] = s.out[i + 1]
    BY <1>1, <1>3, Shifted
  <2>3. Settled(t, q) <=> Settled(s, q)
    BY <2>2 DEF Settled
  <2>4. Served(t, q) <=> Served(s, q)
    BY <1>3 DEF Served
  <2>5. \A i \in Int : Fresh(t, q, i) => Fresh(s, q, i)
    BY <1>1 DEF Fresh
  <2>6. Told(s, q) => Told(t, q)
    BY <1>1, <2>1, <2>4, <2>5 DEF Told
  <2>7. InTime(s, q, owed) => InTime(t, q, owed)
    <3>1. a.kind # "current"
      OBVIOUS
    <3> QED
      BY <1>1, <1>3, <2>5, <3>1 DEF InTime
  <2> QED
    BY <2>3, <2>4, <2>6, <2>7 DEF Answering
<1> QED
  BY <1>2, <1>3

\* It sends something else.
LEMMA RespondAnswering ==
  ASSUME NEW s, NEW t, NEW q \in Query, NEW owed, Answering(s, q, owed),
         s.in \in Seq(Response), t.out = s.out,
         NEW m, m \notin AcksFor(q), t.in = Append(s.in, m),
         Served(t, q) <=> Served(s, q), t.served[q].since = s.served[q].since,
         m.kind = "current" /\ m.q = q /\ Settled(s, q) /\ Served(s, q) =>
           \A n \in owed : n <= s.served[q].since => n <= m.token
  PROVE  Answering(t, q, owed)
<1>1. /\ Len(s.in) \in Nat /\ DOMAIN s.in = 1..Len(s.in) /\ DOMAIN t.in = 1..(Len(s.in) + 1)
      /\ \A i \in DOMAIN s.in : t.in[i] = s.in[i]
      /\ t.in[Len(s.in) + 1] = m
  BY Appended
<1>2. Settled(t, q) <=> Settled(s, q)
  BY DEF Settled
<1>3. \A i \in Int : Fresh(t, q, i) => Fresh(s, q, i)
  BY <1>1 DEF Fresh
<1>4. Told(s, q) => Told(t, q)
  BY <1>1, <1>3 DEF Told
<1>5. Settled(s, q) /\ Served(s, q) /\ InTime(s, q, owed) => InTime(t, q, owed)
  BY <1>1, <1>3 DEF InTime
<1> QED
  BY <1>2, <1>4, <1>5 DEF Answering

-----------------------------------------------------------------------------
(* Every step preserves what is known of synchronised data *)

LEMMA InitFresh == Init => FreshInv
<1> SUFFICES ASSUME Init PROVE FreshInv
  OBVIOUS
<1>1. ASSUME NEW q \in Query
      PROVE  /\ Known(stream, q, cache[q], Active(q), Owed(q))
             /\ Answering(stream, q, Owed(q)) /\ ~Active(q)
  <2>1. stream.targets[q] = NoTarget /\ stream.in = <<>> /\ stream.served[q] = Unserved
    BY DEF Init, Closed
  <2>2. ~Served(stream, q) /\ ~stream.targets[q].current
    BY <2>1 DEF Served, Unserved, NoTarget
  <2> QED
    BY <2>1, <2>2, NoAnswering DEF Known, Init, Active
<1>2. \A g \in Get : events[g] = <<>> /\ answers[g] = <<>>
  BY DEF Init
<1> QED
  BY <1>1, <1>2 DEF FreshInv

LEMMA AppendedFresh ==
  ASSUME NEW es \in Seq(Snapshot), NEW n,
         \A i \in DOMAIN es : es[i].synced => 1..n \subseteq es[i].data,
         NEW e, e.synced => 1..n \subseteq e.data
  PROVE  \A i \in DOMAIN Append(es, e) :
           Append(es, e)[i].synced => 1..n \subseteq Append(es, e)[i].data
<1>1. ASSUME NEW i \in DOMAIN Append(es, e)
      PROVE  (i \in DOMAIN es /\ Append(es, e)[i] = es[i]) \/ Append(es, e)[i] = e
  OBVIOUS
<1> QED
  BY <1>1

\* A step of RemoteStore.
LEMMA FreshAfter ==
  ASSUME IInv, FreshInv, UNCHANGED <<asked, floor, listeners, answers, hasty>>,
         NEW vs \in [Query -> ViewRecord], NEW o, Publish(vs, o),
         \A q \in Query :
           /\ Known(stream', q, cache'[q], Active(q), Owed(q))
           /\ Answering(stream', q, Owed(q))
           /\ Active(q) => vs[q].data = cache'[q]
           /\ Active(q) /\ vs[q].current => \A n \in Owed(q) : 1..n \subseteq cache'[q]
  PROVE  FreshInv'
<1>1. ASSUME NEW g \in Get \ hasty
      PROVE  \A i \in DOMAIN events'[g] : events'[g][i].synced => 1..floor[g] \subseteq events'[g][i].data
  <2>1. /\ events[g] \in Seq(Snapshot)
        /\ \A i \in DOMAIN events[g] : events[g][i].synced => 1..floor[g] \subseteq events[g][i].data
    BY <1>1 DEF IInv, TypeOK, FreshInv
  <2>2. \/ events'[g] = events[g]
        \/ /\ \E q \in Query : g \in listeners[q]
           /\ events'[g] = Append(events[g], Event(vs[asked[g]]))
    BY <1>1 DEF Publish
  <2>3. ASSUME NEW q \in Query, g \in listeners[q]
        PROVE  Event(vs[asked[g]]).synced => 1..floor[g] \subseteq Event(vs[asked[g]]).data
    <3>1. asked[g] = q /\ Active(q) /\ floor[g] \in Owed(q)
      BY <1>1, <2>3, GetsAre DEF Active, Owed
    <3> QED
      BY <3>1 DEF Event
  <2> QED
    BY <2>1, <2>2, <2>3, AppendedFresh
<1>2. view' = vs
  BY DEF Publish
<1>3. ASSUME NEW q \in Query
      PROVE  /\ Known(stream', q, cache'[q], Active(q)', Owed(q)')
             /\ Answering(stream', q, Owed(q)')
             /\ Active(q)' /\ view'[q].current => \A n \in Owed(q)' : 1..n \subseteq cache'[q]
  <2>1. Active(q)' = Active(q) /\ Owed(q)' = Owed(q)
    BY DEF Active, Owed
  <2> QED
    BY <1>2, <2>1
<1>4. ASSUME NEW g \in Get \ hasty'
      PROVE  /\ \A i \in DOMAIN events'[g] : events'[g][i].synced => 1..floor'[g] \subseteq events'[g][i].data
             /\ \A i \in DOMAIN answers'[g] : answers'[g][i].synced => 1..floor'[g] \subseteq answers'[g][i].data
  BY <1>1, <1>4 DEF FreshInv
<1> QED
  BY <1>3, <1>4 DEF FreshInv

\* One that leaves the disk alone.
LEMMA ConnectionFresh ==
  ASSUME IInv, StateInv, FreshInv, UNCHANGED <<appVars, listeners, answers, diskVars, hasty>>,
         NEW o, SetOnline(o),
         \A q \in Query : /\ Known(stream', q, cache[q], Active(q), Owed(q))
                          /\ Answering(stream', q, Owed(q))
  PROVE  FreshInv'
<1>1. PICK vs \in [Query -> ViewRecord] :
        /\ Publish(vs, o)
        /\ \A q \in Query : vs[q].data = view[q].data /\ (vs[q].current => view[q].current)
  BY SetOnlineKeeps DEF IInv
<1>2. cache' = cache /\ UNCHANGED <<asked, floor, listeners, answers, hasty>>
  BY DEF diskVars, appVars
<1>3. ASSUME NEW q \in Query
      PROVE  /\ Known(stream', q, cache'[q], Active(q), Owed(q))
             /\ Answering(stream', q, Owed(q))
             /\ Active(q) => vs[q].data = cache'[q]
             /\ Active(q) /\ vs[q].current => \A n \in Owed(q) : 1..n \subseteq cache'[q]
  BY <1>1, <1>2 DEF StateInv, FreshInv
<1> QED
  BY <1>1, <1>2, <1>3, FreshAfter

LEMMA StreamOnlyFresh ==
  ASSUME FreshInv, UNCHANGED <<appVars, userVars, answers, diskVars, hasty>>,
         \A q \in Query : /\ Known(stream', q, cache[q], Active(q), Owed(q))
                          /\ Answering(stream', q, Owed(q))
  PROVE  FreshInv'
<1>1. cache' = cache /\ UNCHANGED <<asked, floor, listeners, view, events, answers, hasty>>
  BY DEF diskVars, appVars, userVars
<1>2. ASSUME NEW q \in Query
      PROVE  /\ Known(stream', q, cache'[q], Active(q)', Owed(q)')
             /\ Answering(stream', q, Owed(q)')
             /\ Active(q)' /\ view'[q].current => \A n \in Owed(q)' : 1..n \subseteq cache'[q]
  <2>1. Active(q)' = Active(q) /\ Owed(q)' = Owed(q)
    BY <1>1 DEF Active, Owed
  <2> QED
    BY <1>1, <2>1 DEF FreshInv
<1> QED
  BY <1>1, <1>2 DEF FreshInv

LEMMA AppFresh ==
  ASSUME FreshInv, CredentialChanges \/ Commits \/ UNCHANGED vars
  PROVE  FreshInv'
<1>1. UNCHANGED <<appVars, userVars, answers, diskVars, stream, hasty>>
  BY DEF CredentialChanges, Commits, vars
<1>2. \A q \in Query : /\ Known(stream', q, cache[q], Active(q), Owed(q))
                       /\ Answering(stream', q, Owed(q))
  BY <1>1 DEF FreshInv
<1> QED
  BY <1>1, <1>2, StreamOnlyFresh

LEMMA AskFresh ==
  ASSUME IInv, FreshInv, NEW p \in Query, Ask(p)
  PROVE  FreshInv'
<1>1. UNCHANGED <<userVars, answers, diskVars, stream, hasty>>
  BY DEF Ask
<1>2. \A g \in DOMAIN asked : floor'[g] = floor[g]
  <2>1. \E v : floor' = Append(floor, v)
    BY DEF Ask
  <2>2. floor \in Seq(Version) /\ DOMAIN floor = DOMAIN asked
    BY GetsAre
  <2> QED
    BY <2>1, <2>2, Appended
<1>3. ASSUME NEW q \in Query
      PROVE  /\ Known(stream', q, cache'[q], Active(q)', Owed(q)')
             /\ Answering(stream', q, Owed(q)')
             /\ Active(q)' /\ view'[q].current => \A n \in Owed(q)' : 1..n \subseteq cache'[q]
  <2>1. \A g \in listeners[q] : floor'[g] = floor[g]
    BY <1>2, GetsAre
  <2>2. Active(q)' = Active(q) /\ Owed(q)' = Owed(q)
    BY <1>1, <2>1 DEF Active, Owed, userVars
  <2>3. cache' = cache /\ view' = view
    BY <1>1 DEF diskVars, userVars
  <2> QED
    BY <1>1, <2>2, <2>3 DEF FreshInv
<1>4. ASSUME NEW g \in Get \ hasty'
      PROVE  /\ \A i \in DOMAIN events'[g] : events'[g][i].synced => 1..floor'[g] \subseteq events'[g][i].data
             /\ \A i \in DOMAIN answers'[g] : answers'[g][i].synced => 1..floor'[g] \subseteq answers'[g][i].data
  <2>1. events' = events /\ answers' = answers /\ hasty' = hasty
    BY <1>1 DEF userVars
  <2>2. CASE g \in DOMAIN asked
    BY <1>2, <1>4, <2>1, <2>2 DEF FreshInv
  <2>3. CASE g \notin DOMAIN asked
    <3>1. events[g] = <<>> /\ answers[g] = <<>>
      BY <1>4, <2>3 DEF IInv, GetsInv
    <3> QED
      BY <2>1, <3>1
  <2> QED
    BY <2>2, <2>3
<1> QED
  BY <1>3, <1>4 DEF FreshInv

LEMMA DeliverFresh ==
  ASSUME IInv, FreshInv, NEW g \in Get, Deliver(g)
  PROVE  FreshInv'
<1>1. /\ events[g] # <<>> /\ events[g] \in Seq(Snapshot)
      /\ events \in [Get -> Seq(Snapshot)] /\ answers \in [Get -> Seq(Snapshot)]
  BY DEF Deliver, IInv, TypeOK
<1>2. /\ Head(events[g]) = events[g][1] /\ 1 \in DOMAIN events[g]
      /\ \A i \in DOMAIN Tail(events[g]) :
           i + 1 \in DOMAIN events[g] /\ Tail(events[g])[i] = events[g][i + 1]
  BY <1>1
<1>3. UNCHANGED <<asked, floor, listeners, view, cache, stream, hasty>>
  BY DEF Deliver, appVars, diskVars
<1>4. ASSUME NEW h \in Get \ hasty
      PROVE  \A i \in DOMAIN events'[h] : events'[h][i].synced => 1..floor[h] \subseteq events'[h][i].data
  <2>1. events'[h] = IF h = g THEN Tail(events[g]) ELSE events[h]
    BY <1>1, <1>4 DEF Deliver
  <2> QED
    BY <1>1, <1>2, <1>4, <2>1 DEF FreshInv
<1>5. ASSUME NEW h \in Get \ hasty
      PROVE  \A i \in DOMAIN answers'[h] : answers'[h][i].synced => 1..floor[h] \subseteq answers'[h][i].data
  <2>1. \/ answers'[h] = answers[h]
        \/ h = g /\ answers'[h] = <<Head(events[g])>>
    BY <1>1, <1>5 DEF Deliver
  <2> DEFINE e == Head(events[g])
  <2>2. h = g /\ e.synced => 1..floor[h] \subseteq e.data
    BY <1>1, <1>2, <1>5 DEF FreshInv
  <2> HIDE DEF e
  <2>3. \A i \in DOMAIN <<e>> : <<e>>[i] = e
    OBVIOUS
  <2> QED
    BY <1>5, <2>1, <2>2, <2>3 DEF FreshInv, e
<1>6. ASSUME NEW q \in Query
      PROVE  /\ Known(stream', q, cache'[q], Active(q)', Owed(q)')
             /\ Answering(stream', q, Owed(q)')
             /\ Active(q)' /\ view'[q].current => \A n \in Owed(q)' : 1..n \subseteq cache'[q]
  <2>1. Active(q)' = Active(q) /\ Owed(q)' = Owed(q)
    BY <1>3 DEF Active, Owed
  <2> QED
    BY <1>3, <2>1 DEF FreshInv
<1> QED
  BY <1>3, <1>4, <1>5, <1>6 DEF FreshInv

LEMMA RestartFresh ==
  ASSUME IInv, FreshInv, Restart
  PROVE  FreshInv'
<1>1. /\ stream' = Closed /\ UNCHANGED <<floor, answers, hasty>>
      /\ \A g \in Get : events'[g] = <<>>
      /\ \A q \in Query : listeners'[q] = {}
  BY DEF Restart, appVars
<1>2. ASSUME NEW q \in Query
      PROVE  /\ Known(stream', q, cache'[q], Active(q)', Owed(q)')
             /\ Answering(stream', q, Owed(q)') /\ ~Active(q)'
  <2>1. stream'.targets[q] = NoTarget /\ stream'.in = <<>> /\ stream'.served[q] = Unserved
    BY <1>1 DEF Closed
  <2>2. ~Served(stream', q) /\ ~stream'.targets[q].current
    BY <2>1 DEF Served, Unserved, NoTarget
  <2>3. ~Active(q)'
    BY <1>1 DEF Active
  <2>4. Known(stream', q, cache'[q], Active(q)', Owed(q)')
    BY <2>2 DEF Known
  <2> QED
    BY <2>1, <2>2, <2>3, <2>4, NoAnswering
<1> QED
  BY <1>1, <1>2 DEF FreshInv

\* The stream is closed, and perhaps started again.
LEMMA RestartedFresh ==
  ASSUME StreamInv(stream), NEW graceful \in BOOLEAN,
         NEW t, t = Start(Close(stream, graceful)) \/ t = Close(stream, graceful),
         NEW q \in Query, NEW c, NEW active, NEW owed
  PROVE  Known(t, q, c, active, owed) /\ Answering(t, q, owed)
<1> DEFINE s == Close(stream, graceful)
<1>0. s \in Stream /\ s.targets[q] = NoTarget /\ s.in = <<>> /\ s.served[q] = Unserved
  <2>1. s \in Stream
    BY CloseInv DEF StreamInv
  <2> QED
    BY <2>1 DEF Close, Closed
<1> HIDE DEF s
<1>1. t.targets[q] = NoTarget /\ t.in = <<>> /\ t.served[q] = Unserved
  <2>1. t = Start(s) \/ t = s
    BY DEF s
  <2> QED
    BY <1>0, <2>1 DEF Start, Stream
<1>2. ~Served(t, q) /\ ~t.targets[q].current
  BY <1>1 DEF Served, Unserved, NoTarget
<1> QED
  BY <1>1, <1>2, NoAnswering DEF Known

\* Only the state of a stream that is not open changes, or it breaks.
LEMMA SameFresh ==
  ASSUME NEW s, NEW t, NEW q \in Query, NEW c, NEW active, NEW owed, NEW less,
         Known(s, q, c, active, owed), Answering(s, q, owed), less \subseteq owed,
         t.in = s.in, t.out = s.out, t.docs[q] = s.docs[q], t.served[q] = s.served[q],
         t.targets[q] = s.targets[q], s.state = "Open" => t.state = "Open"
  PROVE  Known(t, q, c, active, less) /\ Answering(t, q, less)
<1>1. Answering(t, q, less)
  BY SameAnswering
<1> QED
  BY <1>1 DEF Known

LEMMA ClosingFresh ==
  ASSUME IInv, StateInv, FreshInv,
         RunCredential \/ TokenFails \/ StreamFails \/ IdleTimerFires \/ OnlineTimerFires
  PROVE  FreshInv'
<1>1. UNCHANGED <<appVars, listeners, answers, diskVars, hasty>> /\ \E o : SetOnline(o)
  BY DEF RunCredential, TokenFails, StreamFails, Fail, IdleTimerFires, OnlineTimerFires, RemoteOnly
<1>2. \/ \E graceful \in BOOLEAN :
           stream' = Start(Close(stream, graceful)) \/ stream' = Close(stream, graceful)
      \/ stream' = stream
      \/ ~IsStarted(stream) /\ stream' = Start(stream)
  BY DEF RunCredential, TokenFails, StreamFails, Fail, IdleTimerFires, OnlineTimerFires
<1>3. ASSUME NEW q \in Query
      PROVE  Known(stream', q, cache[q], Active(q), Owed(q)) /\ Answering(stream', q, Owed(q))
  <2> DEFINE c == cache[q]
             active == Active(q)
             owed == Owed(q)
  <2>1. Known(stream, q, c, active, owed) /\ Answering(stream, q, owed)
    BY DEF FreshInv
  <2> HIDE DEF c, active, owed
  <2>2. CASE \E graceful \in BOOLEAN :
               stream' = Start(Close(stream, graceful)) \/ stream' = Close(stream, graceful)
    <3>1. Known(stream', q, c, active, owed) /\ Answering(stream', q, owed)
      BY <2>2, OnlineNow, RestartedFresh
    <3> QED
      BY <3>1 DEF c, active, owed
  <2>3. CASE ~IsStarted(stream) /\ stream' = Start(stream)
    <3>1. /\ stream'.in = stream.in /\ stream'.out = stream.out /\ stream'.docs = stream.docs
          /\ stream'.served = stream.served /\ stream'.targets = stream.targets
          /\ stream.state # "Open"
      BY <2>3, OnlineNow DEF Start, IsStarted, Stream
    <3>2. Known(stream', q, c, active, owed) /\ Answering(stream', q, owed)
      BY <2>1, <3>1, SameFresh
    <3> QED
      BY <3>2 DEF c, active, owed
  <2>4. CASE stream' = stream
    BY <2>1, <2>4 DEF c, active, owed
  <2> QED
    BY <1>2, <2>2, <2>3, <2>4
<1> QED
  BY <1>1, <1>3, ConnectionFresh

LEMMA OpeningFresh ==
  ASSUME IInv, StateInv, FreshInv, TokenArrives \/ BackoffElapses \/ CallBreaks
  PROVE  FreshInv'
<1>1. UNCHANGED <<appVars, userVars, answers, diskVars, hasty>>
  BY DEF TokenArrives, BackoffElapses, CallBreaks
<1>2. stream \in Stream /\ StreamInv(stream)
  BY OnlineNow
<1>3. ASSUME NEW q \in Query
      PROVE  Known(stream', q, cache[q], Active(q), Owed(q)) /\ Answering(stream', q, Owed(q))
  <2> DEFINE c == cache[q]
             active == Active(q)
             owed == Owed(q)
  <2>1. Known(stream, q, c, active, owed) /\ Answering(stream, q, owed)
        /\ DataInv(stream, q, c, active)
    BY DEF FreshInv, StateInv
  <2> HIDE DEF c, active, owed
  <2>2. CASE TokenArrives
    <3>1. stream.state = "Starting" /\ \E order : stream' = Open(stream, order)
      BY <2>2 DEF TokenArrives
    <3>2. stream'.in = stream.in /\ stream.in = <<>> /\ stream'.served = stream.served
      BY <1>2, <3>1 DEF Open, StreamInv, Stream
    <3>3. stream'.targets[q].current = stream.targets[q].current
      BY <1>2, <3>1 DEF Open, Stream, TargetState
    <3>4. ~Served(stream', q) /\ ~stream'.targets[q].current
      BY <2>1, <3>1, <3>2, <3>3 DEF DataInv, Served, Known
    <3>5. Known(stream', q, c, active, owed) /\ Answering(stream', q, owed)
      BY <3>2, <3>4, NoAnswering DEF Known
    <3> QED
      BY <3>5 DEF c, active, owed
  <2>3. CASE BackoffElapses \/ CallBreaks
    <3>1. /\ stream'.in = stream.in /\ stream'.out = stream.out /\ stream'.docs = stream.docs
          /\ stream'.served = stream.served /\ stream'.targets = stream.targets
          /\ stream.state = "Open" => stream'.state = "Open"
      BY <1>2, <2>3 DEF BackoffElapses, CallBreaks, Stream
    <3>2. Known(stream', q, c, active, owed) /\ Answering(stream', q, owed)
      BY <2>1, <3>1, SameFresh
    <3> QED
      BY <3>2 DEF c, active, owed
  <2> QED
    BY <2>2, <2>3
<1> QED
  BY <1>1, <1>3, StreamOnlyFresh

\* A listen sends a request, or the stream is still to open, and all that was
\* known of the target before has been acknowledged or the get is hasty.
LEMMA ListenFresh ==
  ASSUME IInv, StateInv, FreshInv, NEW p \in Query, ~Active(p), NEW q \in Query,
         NEW wanted, wanted = IF p = q THEN TRUE ELSE Active(q),
         NEW owed, p # q => owed \subseteq Owed(q),
         p = q => owed = {} \/ stream.targets[p].pending = 0
  PROVE  Known(Listen(p), q, cache[q], wanted, owed) /\ Answering(Listen(p), q, owed)
<1> DEFINE s == [stream EXCEPT !.held[p] = token[p]]
           t == Listen(p)
           c == cache[q]
           active == Active(q)
           all == Owed(q)
<1>1. /\ stream \in Stream /\ StreamInv(stream) /\ DataInv(stream, q, c, active)
      /\ Known(stream, q, c, active, all) /\ Answering(stream, q, all)
  BY OnlineNow DEF StateInv, FreshInv
<1>2. /\ s \in Stream /\ s.in = stream.in /\ s.out = stream.out /\ s.docs = stream.docs
      /\ s.served = stream.served /\ s.targets = stream.targets /\ s.state = stream.state
  <2>1. token[p] \in Version
    BY DEF IInv, TypeOK
  <2>2. s \in Stream
    BY <1>1, <2>1, HeldInv DEF StreamInv
  <2> QED
    BY <1>1, <2>2 DEF Stream
<1>3. t = CASE ~IsStarted(s)     -> Start(s)
            [] s.state = "Open"  -> SendWatch(s, p)
            [] OTHER             -> s
  BY DEF Listen
<1>4. (active => wanted) /\ (p # q => owed \subseteq all) /\ (p = q => wanted)
  OBVIOUS
<1>5. stream.targets[q].current => p # q \/ owed = {}
  <2>1. p = q => ~active
    OBVIOUS
  <2>2. stream.targets[q].pending \in Nat
    BY <1>1 DEF Stream, TargetState
  <2> HIDE DEF c, active, all
  <2> QED
    BY <1>1, <2>1, <2>2 DEF Known
<1> HIDE DEF s, t, c, active, all
<1>6. CASE s.state = "Open"
  <2> DEFINE m == [kind |-> "watch", q |-> p, token |-> s.held[p]]
  <2>1. t = SendWatch(s, p)
    BY <1>3, <1>6 DEF IsStarted
  <2>2. /\ t.in = s.in /\ t.out = Append(s.out, m) /\ t.docs = s.docs /\ t.served = s.served
        /\ t.state = "Open" /\ t.targets[q].current = s.targets[q].current
        /\ t.targets[q].pending = s.targets[q].pending + IF p = q THEN 1 ELSE 0
    BY <1>2, <1>6, <2>1 DEF SendWatch, Stream, TargetState
  <2>3. m.q = p /\ s.out \in Seq(Request)
    BY <1>2 DEF Stream
  <2> HIDE DEF m
  <2>4. Answering(t, q, owed)
    <3>1. Answering(s, q, all)
      BY <1>1, <1>2, SameAnswering
    <3> QED
      BY <1>4, <2>2, <2>3, <3>1, RequestAnswering
  <2>5. Known(t, q, c, wanted, owed)
    <3>1. s.targets[q].pending \in Nat
      BY <1>2 DEF Stream, TargetState
    <3>2. stream.targets[q].current => \A n \in owed : n \in all
      BY <1>4, <1>5
    <3> QED
      BY <1>1, <1>2, <1>4, <2>2, <3>1, <3>2 DEF Known
  <2> QED
    BY <2>4, <2>5 DEF t, c
<1>7. CASE s.state # "Open"
  <2>1. t = Start(s) \/ t = s
    BY <1>3, <1>7
  <2>2. /\ t.in = s.in /\ t.served = s.served /\ t.targets = s.targets
    BY <1>2, <2>1 DEF Start, Stream
  <2>3. t.in = <<>> /\ ~Served(t, q) /\ ~t.targets[q].current
    BY <1>1, <1>2, <1>7, <2>2 DEF StreamInv, DataInv, Served, Known
  <2> QED
    BY <2>3, NoAnswering DEF Known, t, c
<1> QED
  BY <1>6, <1>7

LEMMA RunListenFresh ==
  ASSUME IInv, StateInv, TasksInv, FreshInv, RunListen
  PROVE  FreshInv'
<1>0. PICK g, p : g = Head(tasks).g /\ p = asked[g]
  OBVIOUS
<1> DEFINE v == IF Active(p) THEN view[p] ELSE [current |-> FALSE, data |-> cache[p]]
<1>1. TypeOK /\ tasks # <<>> /\ Head(tasks).kind = "listen" /\ Head(tasks) = tasks[1]
      /\ 1 \in DOMAIN tasks /\ DOMAIN tasks \subseteq Nat \ {0}
  <2>1. TypeOK /\ tasks # <<>> /\ Head(tasks).kind = "listen" /\ tasks \in Seq(Task)
    BY DEF IInv, TypeOK, RunListen, IsNext
  <2> QED
    BY <2>1, Shifted
<1>2. g \in Get /\ g \in DOMAIN asked /\ p \in Query
  BY <1>0, <1>1, FrontTask
<1>3. /\ listeners' = [listeners EXCEPT ![p] = @ \cup {g}]
      /\ view' = [view EXCEPT ![p] = v]
      /\ events' = events \/ events' = [events EXCEPT ![g] = Append(@, Event(v))]
      /\ Active(p) => stream' = stream
      /\ ~Active(p) => stream' = Listen(p)
      /\ hasty' = IF listeners[p] \cap hasty # {} \/ (~Active(p) /\ stream.targets[p].pending > 0)
                    THEN hasty \cup {g} ELSE hasty
      /\ UNCHANGED <<asked, floor, answers, cache>>
  BY <1>0 DEF RunListen, appVars, diskVars
<1>4. v.data = cache[p]
  BY <1>2 DEF StateInv
<1>5. v.current => Active(p) /\ view[p].current
  OBVIOUS
<1>6. /\ g \in Unanswered /\ events[g] = <<>> /\ g \notin listeners[p]
      /\ Active(p) => \E m \in listeners[p] : floor[m] = floor[g]
  <2>1. IsListen(1, g)
    BY <1>0, <1>1 DEF IsListen
  <2>2. /\ g \in Unanswered /\ events[g] = <<>> /\ g \notin listeners[p]
        /\ Joins(1, g) \/ Alone(1, g)
    BY <1>0, <1>1, <1>2, <2>1 DEF TasksInv
  <2>3. \A j \in DOMAIN tasks : ~(j < 1)
    BY <1>1
  <2>4. Joins(1, g) => \E m \in listeners[p] : floor[m] = floor[g]
    BY <1>0, <2>3 DEF Joins
  <2>5. Alone(1, g) => ~Active(p)
    BY <1>0, <2>3 DEF Alone, Active
  <2> QED
    BY <2>2, <2>4, <2>5
<1>7. \A q \in Query : listeners'[q] = IF q = p THEN listeners[q] \cup {g} ELSE listeners[q]
  BY <1>1, <1>2, <1>3 DEF TypeOK
<1>8. /\ hasty \subseteq hasty'
      /\ g \notin hasty' => listeners[p] \cap hasty = {} /\ (Active(p) \/ ~(stream.targets[p].pending > 0))
  BY <1>3
<1> HIDE DEF v
<1>9. ASSUME NEW q \in Query, q # p \/ Active(p)
      PROVE  Owed(q)' \subseteq Owed(q)
  <2> SUFFICES ASSUME NEW h \in listeners'[q], h \notin hasty' PROVE floor[h] \in Owed(q)
    BY <1>3 DEF Owed
  <2>1. CASE h \in listeners[q]
    BY <1>8, <2>1 DEF Owed
  <2>2. CASE h \notin listeners[q]
    <3>1. h = g /\ q = p /\ Active(p)
      BY <1>7, <1>9, <2>2
    <3>2. PICK m \in listeners[p] : floor[m] = floor[g]
      BY <1>6, <3>1
    <3>3. m \notin hasty
      BY <1>8, <3>1, <3>2
    <3> QED
      BY <3>1, <3>2, <3>3 DEF Owed
  <2> QED
    BY <2>1, <2>2
<1>10. Active(p)' /\ \A q \in Query : q # p => Active(q)' = Active(q)
  BY <1>2, <1>7 DEF Active
<1>11. ASSUME NEW q \in Query
       PROVE  Known(stream', q, cache[q], Active(q)', Owed(q)') /\ Answering(stream', q, Owed(q)')
  <2> DEFINE c == cache[q]
             active == Active(q)
             owed == Owed(q)
  <2>1. Known(stream, q, c, active, owed) /\ Answering(stream, q, owed)
    BY DEF FreshInv
  <2>2. CASE Active(p)
    <3>1. Active(q)' = Active(q)
      BY <1>10, <2>2 DEF Active
    <3>2. Owed(q)' \subseteq owed
      BY <1>9, <2>2
    <3> HIDE DEF c, active, owed
    <3>3. Known(stream, q, c, active, Owed(q)') /\ Answering(stream, q, Owed(q)')
      BY <2>1, <3>2, SameFresh
    <3> QED
      BY <1>3, <2>2, <3>1, <3>3 DEF c, active
  <2>3. CASE ~Active(p)
    <3>1. Active(q)' = IF p = q THEN TRUE ELSE Active(q)
      <4>1. Active(p)' = TRUE
        BY <1>10
      <4> QED
        BY <1>10, <4>1
    <3>2. p # q => Owed(q)' \subseteq Owed(q)
      BY <1>9
    <3>3. p = q => Owed(q)' = {} \/ stream.targets[p].pending = 0
      <4>1. stream.targets[p].pending \in Nat
        BY <1>2, OnlineNow DEF Stream, TargetState
      <4>2. CASE g \in hasty'
        <5>1. listeners'[p] = {g}
          BY <1>2, <1>7, <2>3 DEF Active
        <5>2. Owed(p)' = {}
          BY <4>2, <5>1 DEF Owed
        <5> QED
          BY <5>2
      <4> QED
        BY <1>8, <2>3, <4>1, <4>2
    <3>4. Known(Listen(p), q, cache[q], Active(q)', Owed(q)') /\ Answering(Listen(p), q, Owed(q)')
      BY <1>2, <2>3, <3>1, <3>2, <3>3, ListenFresh
    <3> QED
      BY <1>3, <2>3, <3>4
  <2> QED
    BY <2>2, <2>3
<1>12. ASSUME NEW q \in Query, Active(q)', view'[q].current, NEW n \in Owed(q)'
       PROVE  1..n \subseteq cache[q]
  <2>1. view'[q] = IF q = p THEN v ELSE view[q]
    BY <1>1, <1>2, <1>3 DEF TypeOK
  <2>2. Active(q) /\ view[q].current /\ (q # p \/ Active(p))
    BY <1>5, <1>10, <1>12, <2>1
  <2>3. n \in Owed(q)
    BY <1>9, <1>12, <2>2
  <2> QED
    BY <2>2, <2>3 DEF FreshInv
<1>13. ASSUME NEW h \in Get \ hasty'
       PROVE  \A i \in DOMAIN events'[h] : events'[h][i].synced => 1..floor[h] \subseteq events'[h][i].data
  <2>1. /\ events[h] \in Seq(Snapshot) /\ events \in [Get -> Seq(Snapshot)]
        /\ \A i \in DOMAIN events[h] : events[h][i].synced => 1..floor[h] \subseteq events[h][i].data
    BY <1>1, <1>8, <1>13 DEF TypeOK, FreshInv
  <2>2. CASE events'[h] = events[h]
    BY <2>1, <2>2
  <2>3. CASE h = g /\ events'[h] = Append(events[h], Event(v))
    <3>1. Event(v).synced => 1..floor[h] \subseteq Event(v).data
      <4> SUFFICES ASSUME Event(v).synced PROVE 1..floor[h] \subseteq Event(v).data
        OBVIOUS
      <4>1. v.current /\ Event(v).data = v.data
        BY DEF Event
      <4>2. floor[h] \in Owed(p)'
        <5>1. h \in listeners'[p] \ hasty'
          BY <1>2, <1>7, <1>13, <2>3
        <5> QED
          BY <1>3, <5>1 DEF Owed
      <4>3. view'[p].current
        BY <1>1, <1>2, <1>3, <4>1 DEF TypeOK
      <4> QED
        BY <1>2, <1>4, <1>10, <1>12, <4>1, <4>2, <4>3
    <3> QED
      BY <2>1, <2>3, <3>1, AppendedFresh
  <2> QED
    BY <1>3, <2>1, <2>2, <2>3
<1>14. ASSUME NEW h \in Get \ hasty'
       PROVE  \A i \in DOMAIN answers'[h] : answers'[h][i].synced => 1..floor[h] \subseteq answers'[h][i].data
  BY <1>3, <1>8, <1>14 DEF FreshInv
<1>15. cache' = cache /\ floor' = floor
  BY <1>3
<1> QED
  BY <1>11, <1>12, <1>13, <1>14, <1>15 DEF FreshInv

LEMMA RunUnlistenFresh ==
  ASSUME IInv, StateInv, FreshInv, RunUnlisten
  PROVE  FreshInv'
<1>0. PICK g, p : g = Head(tasks).g /\ p = asked[g]
  OBVIOUS
<1> DEFINE last == listeners[p] = {g}
           left == \E r \in Query \ {p} : Active(r)
<1>1. TypeOK /\ tasks # <<>> /\ Head(tasks).kind = "unlisten"
  BY DEF IInv, RunUnlisten, IsNext
<1>2. g \in Get /\ p \in Query
  BY <1>0, <1>1, FrontTask
<1>3. /\ listeners' = [listeners EXCEPT ![p] = @ \ {g}]
      /\ last => view' = [view EXCEPT ![p] = NoView] /\ stream' = StopListening(stream, p, left)
      /\ ~last => view' = view /\ stream' = stream
      /\ UNCHANGED <<asked, floor, events, answers, cache, hasty>>
  BY <1>0 DEF RunUnlisten, appVars
<1>4. \A q \in Query : listeners'[q] = IF q = p THEN listeners[q] \ {g} ELSE listeners[q]
  BY <1>1, <1>2, <1>3 DEF TypeOK
<1>5. \A q \in Query : Owed(q)' \subseteq Owed(q)
  BY <1>3, <1>4 DEF Owed
<1>6. \A q \in Query : Active(q)' <=> (Active(q) /\ ~(last /\ q = p))
  BY <1>2, <1>4 DEF Active
<1> HIDE DEF last, left
<1>7. ASSUME NEW q \in Query
      PROVE  Known(stream', q, cache[q], Active(q)', Owed(q)') /\ Answering(stream', q, Owed(q)')
  <2> DEFINE c == cache[q]
             active == Active(q)
             owed == Owed(q)
  <2>1. Known(stream, q, c, active, owed) /\ Answering(stream, q, owed) /\ DataInv(stream, q, c, active)
    BY DEF FreshInv, StateInv
  <2>2. Owed(q)' \subseteq owed
    BY <1>5
  <2>3. CASE ~last \/ (stream' = stream /\ q # p)
    <3>1. Active(q)' = Active(q)
      BY <1>6, <2>3 DEF Active
    <3> HIDE DEF c, active, owed
    <3>2. Known(stream, q, c, active, Owed(q)') /\ Answering(stream, q, Owed(q)')
      BY <2>1, <2>2, SameFresh
    <3> QED
      BY <1>3, <2>3, <3>1, <3>2 DEF c, active
  <2>4. CASE last /\ stream.state # "Open"
    <3>1. stream' = stream
      BY <1>3, <2>4 DEF StopListening
    <3>2. ~stream.targets[q].current
      BY <2>1, <2>4 DEF Known
    <3> HIDE DEF owed
    <3>3. Answering(stream, q, Owed(q)')
      BY <2>1, <2>2, SameAnswering
    <3> QED
      BY <3>1, <3>2, <3>3 DEF Known
  <2>5. CASE last /\ stream.state = "Open"
    <3> DEFINE m == [kind |-> "unwatch", q |-> p]
               t == StopListening(stream, p, left)
    <3>1. stream \in Stream
      BY OnlineNow
    <3>2. t = [SendUnwatch(stream, p) EXCEPT !.idle = ~left]
      BY <2>5 DEF StopListening
    <3>3. /\ t.in = stream.in /\ t.out = Append(stream.out, m) /\ t.docs = stream.docs
          /\ t.served = stream.served
          /\ t.state = "Open" /\ t.targets[q].current = stream.targets[q].current
          /\ t.targets[q].pending = stream.targets[q].pending + IF p = q THEN 1 ELSE 0
      BY <2>5, <3>1, <3>2 DEF SendUnwatch, Stream, TargetState
    <3>4. m.q = p /\ stream.out \in Seq(Request) /\ stream.targets[q].pending \in Nat
      BY <3>1 DEF Stream, TargetState
    <3>5. q = p \/ Active(q)' = Active(q)
      BY <1>6 DEF Active
    <3> HIDE DEF m, t, c, owed
    <3>6. Answering(t, q, Owed(q)')
      BY <2>1, <2>2, <3>3, <3>4, RequestAnswering
    <3>7. Known(t, q, c, Active(q)', Owed(q)')
      BY <2>1, <2>2, <3>3, <3>4, <3>5 DEF Known
    <3> QED
      BY <1>3, <2>5, <3>6, <3>7 DEF t, c
  <2> QED
    BY <2>3, <2>4, <2>5
<1>8. ASSUME NEW q \in Query, Active(q)', view'[q].current, NEW n \in Owed(q)'
      PROVE  1..n \subseteq cache[q]
  <2>1. Active(q) /\ view'[q] = view[q]
    <3>1. Active(q) /\ ~(last /\ q = p)
      BY <1>6, <1>8
    <3> QED
      BY <1>1, <1>3, <3>1 DEF TypeOK
  <2> QED
    BY <1>5, <1>8, <2>1 DEF FreshInv
<1>9. cache' = cache /\ floor' = floor /\ events' = events /\ answers' = answers /\ hasty' = hasty
  BY <1>3
<1> QED
  BY <1>7, <1>8, <1>9 DEF FreshInv

\* The last acknowledgement, of a listen, is read while there are listeners.
LEMMA LastAck ==
  ASSUME IInv, StateInv, FreshInv, stream.in # <<>>, NEW q \in Query,
         Head(stream.in) \in AcksFor(q), stream.targets[q].pending = 1, ~Head(stream.in).removed
  PROVE  Active(q)
<1> DEFINE outs == Positions(stream.out, RequestsFor(q))
           ins  == Positions(stream.in, AcksFor(q))
           rest == Positions(Tail(stream.in), AcksFor(q))
<1>1. /\ stream \in Stream /\ StreamInv(stream) /\ DataInv(stream, q, cache[q], Active(q))
      /\ Answering(stream, q, Owed(q))
  BY OnlineNow DEF StateInv, FreshInv
<1>2. /\ stream.state = "Open" /\ stream.out \in Seq(Request) /\ stream.in \in Seq(Response)
      /\ Tail(stream.in) \in Seq(Response)
  BY <1>1 DEF StreamInv, Stream
<1>3. /\ IsFiniteSet(outs) /\ Cardinality(outs) \in Nat
      /\ IsFiniteSet(rest) /\ Cardinality(rest) \in Nat
  BY <1>2, PositionsFinite
<1>4. 1 = Cardinality(outs) + Cardinality(ins)
  BY <1>1 DEF StreamInv, PendingRight
<1>5. Cardinality(ins) = Cardinality(rest) + 1
  BY <1>2, PositionsTail
<1>6. outs = {} => Settled(stream, q)
  <2>1. outs = {i \in DOMAIN stream.out : stream.out[i].q = q}
    BY <1>1, PendingCounted
  <2> QED
    BY <2>1 DEF Settled
<1>7. rest = {} => Fresh(stream, q, 2)
  <2> SUFFICES ASSUME rest = {}, NEW j \in DOMAIN stream.in, j >= 2
               PROVE  stream.in[j] \notin AcksFor(q)
    BY DEF Fresh
  <2>1. j - 1 \in DOMAIN Tail(stream.in) /\ Tail(stream.in)[j - 1] = stream.in[j]
    BY <1>2
  <2> QED
    BY <2>1 DEF Positions
<1> HIDE DEF outs, ins, rest
<1>8. outs = {} /\ rest = {}
  <2>1. Cardinality(outs) = 0 /\ Cardinality(rest) = 0
    BY <1>3, <1>4, <1>5
  <2> QED
    BY <1>3, <2>1, FS_EmptySet
<1>9. 1 \in DOMAIN stream.in /\ Head(stream.in) = stream.in[1] /\ 1 + 1 = 2
  BY <1>2
<1>10. Served(stream, q)
  BY <1>1, <1>6, <1>7, <1>8, <1>9 DEF Answering, Told
<1> QED
  BY <1>1, <1>2, <1>6, <1>8, <1>10 DEF DataInv, Wanted

\* Steps that read a response.
LEMMA ReadingFresh ==
  ASSUME IInv, StateInv, FreshInv, stream.in # <<>>, NEW q \in Query,
         stream'.in = Tail(stream.in), stream'.out = stream.out, stream'.served = stream.served
  PROVE  Answering(stream', q, Owed(q))
<1> DEFINE owed == Owed(q)
<1>1. stream.in \in Seq(Response) /\ Answering(stream, q, owed)
  BY OnlineNow DEF Stream, FreshInv
<1> HIDE DEF owed
<1>2. Answering(stream', q, owed)
  BY <1>1, ReadAnswering
<1> QED
  BY <1>2 DEF owed

LEMMA ReadAckFresh ==
  ASSUME IInv, StateInv, FreshInv, ReadAck
  PROVE  FreshInv'
<1> DEFINE m == Head(stream.in)
<1>1. Read("ack") /\ SetOnline(UpdateState("Online"))
  BY DEF ReadAck
<1>2. /\ stream.in # <<>> /\ m \in Response /\ m.kind = "ack"
      /\ stream \in Stream /\ stream.targets \in [Query -> TargetState]
      /\ UNCHANGED <<appVars, listeners, answers, diskVars, hasty>>
  BY <1>1, ReadIs DEF ReadAck
<1>3. stream.state = "Open" /\ StreamInv(stream)
  BY <1>2, OnlineNow DEF StreamInv
<1>4. m.q \in Query /\ m.removed \in BOOLEAN /\ m \in AcksFor(m.q)
  BY <1>2 DEF Response, AcksFor
<1>5. /\ stream'.state = "Open" /\ stream'.out = stream.out
      /\ stream'.in = Tail(stream.in)
      /\ stream'.served = stream.served /\ stream'.docs = stream.docs
      /\ stream'.targets = [stream.targets EXCEPT ![m.q] = AfterAck(@, m.removed)]
  BY <1>2, <1>3 DEF ReadAck, Stream
<1>6. ASSUME NEW q \in Query PROVE Known(stream', q, cache[q], Active(q), Owed(q))
  <2>1. Known(stream, q, cache[q], Active(q), Owed(q))
    BY DEF FreshInv
  <2>2. CASE q # m.q
    <3>1. stream'.targets[q] = stream.targets[q]
      BY <1>2, <1>5, <2>2
    <3> QED
      BY <1>3, <1>5, <2>1, <3>1 DEF Known
  <2>3. CASE q = m.q
    <3> DEFINE t == stream.targets[q]
               u == AfterAck(t, m.removed)
    <3>1. stream'.targets[q] = u
      BY <1>2, <1>5, <2>3
    <3>2. t \in TargetState /\ t.pending > 0
      BY <1>2, <1>3, <1>4, <2>3, AckIsAwaited
    <3>3. /\ u.pending = t.pending - 1
          /\ u.current => t.current
          /\ u.current /\ t.pending = 1 => ~m.removed
      <4>1. u.pending = t.pending - 1
        BY <1>4, <3>2, AfterAckCounts
      <4>2. t.pending \in Nat
        BY <3>2 DEF TargetState
      <4> HIDE DEF t
      <4>3. (u.current => t.current) /\ (u.current /\ t.pending = 1 => ~m.removed)
        BY <3>2, <4>2 DEF AfterAck, TargetState, NoTarget
      <4> QED
        BY <4>1, <4>3
    <3>4. t.pending = 1 /\ ~m.removed => Active(q)
      BY <1>2, <1>4, <2>3, LastAck
    <3>5. t.pending \in Nat
      BY <3>2 DEF TargetState
    <3> HIDE DEF u
    <3>6. u.current => Active(q) \/ u.pending > 0
      BY <3>2, <3>3, <3>4, <3>5
    <3> QED
      BY <1>5, <2>1, <3>1, <3>3, <3>6 DEF Known
  <2> QED
    BY <2>2, <2>3
<1>7. \A q \in Query : Answering(stream', q, Owed(q))
  BY <1>2, <1>5, ReadingFresh
<1> QED
  BY <1>1, <1>2, <1>6, <1>7, ConnectionFresh

LEMMA ReadDocsFresh ==
  ASSUME IInv, StateInv, FreshInv, ReadDocs
  PROVE  FreshInv'
<1> DEFINE m == Head(stream.in)
<1>1. Read("docs") /\ SetOnline(UpdateState("Online"))
  BY DEF ReadDocs
<1>2. /\ stream.in # <<>> /\ m \in Response /\ m.kind = "docs"
      /\ stream \in Stream /\ stream.targets \in [Query -> TargetState]
      /\ stream.docs \in [Query -> SUBSET Commit]
      /\ UNCHANGED <<appVars, listeners, answers, diskVars, hasty>>
  BY <1>1, ReadIs DEF ReadDocs
<1>3. stream.state = "Open" /\ m.q \in Query
  BY <1>2, OnlineNow DEF StreamInv, Response
<1>4. ASSUME NEW q \in Query
      PROVE  /\ stream'.state = "Open" /\ stream'.out = stream.out
             /\ stream'.in = Tail(stream.in) /\ stream'.served = stream.served
             /\ stream.docs[q] \subseteq stream'.docs[q]
             /\ stream'.targets[q].current = stream.targets[q].current
             /\ stream'.targets[q].pending = stream.targets[q].pending
  <2>1. CASE IsActiveTarget(m.q)
    <3>1. stream' = [stream EXCEPT !.in = Tail(@), !.docs[m.q] = @ \cup m.changes,
                                   !.targets[m.q].dirty = TRUE]
      BY <2>1 DEF ReadDocs
    <3>2. /\ stream'.docs = [stream.docs EXCEPT ![m.q] = @ \cup m.changes]
          /\ stream'.targets = [stream.targets EXCEPT ![m.q].dirty = TRUE]
          /\ stream'.state = stream.state /\ stream'.out = stream.out
          /\ stream'.in = Tail(stream.in) /\ stream'.served = stream.served
      BY <1>2, <3>1 DEF Stream
    <3>3. stream.docs[q] \subseteq stream'.docs[q]
      BY <1>2, <1>3, <3>2
    <3>4. /\ stream'.targets[q].current = stream.targets[q].current
          /\ stream'.targets[q].pending = stream.targets[q].pending
      BY <1>2, <1>3, <3>2 DEF TargetState
    <3> QED
      BY <1>3, <3>2, <3>3, <3>4
  <2>2. CASE ~IsActiveTarget(m.q)
    BY <1>2, <1>3, <2>2 DEF ReadDocs, Stream
  <2> QED
    BY <2>1, <2>2
<1>5. ASSUME NEW q \in Query PROVE Known(stream', q, cache[q], Active(q), Owed(q))
  <2>1. Known(stream, q, cache[q], Active(q), Owed(q))
    BY DEF FreshInv
  <2> QED
    BY <1>4, <2>1 DEF Known
<1>6. \A q \in Query : Answering(stream', q, Owed(q))
  BY <1>2, <1>4, ReadingFresh
<1> QED
  BY <1>1, <1>2, <1>5, <1>6, ConnectionFresh

LEMMA ReadCurrentFresh ==
  ASSUME IInv, StateInv, FreshInv, ReadCurrent
  PROVE  FreshInv'
<1> DEFINE m == Head(stream.in)
<1>1. Read("current") /\ SetOnline(UpdateState("Online"))
  BY DEF ReadCurrent
<1>2. /\ stream.in # <<>> /\ m \in Response /\ m.kind = "current"
      /\ stream \in Stream /\ stream.targets \in [Query -> TargetState]
      /\ UNCHANGED <<appVars, listeners, answers, diskVars, hasty>>
  BY <1>1, ReadIs DEF ReadCurrent
<1>3. stream.state = "Open" /\ m.q \in Query /\ m.token \in Nat
  BY <1>2, OnlineNow DEF StreamInv, Response, Version
<1>4. ASSUME NEW q \in Query
      PROVE  /\ stream'.state = "Open" /\ stream'.out = stream.out
             /\ stream'.in = Tail(stream.in) /\ stream'.served = stream.served
             /\ stream'.docs = stream.docs
             /\ \/ q = m.q /\ IsActiveTarget(q)
                \/ /\ stream'.targets[q].current = stream.targets[q].current
                   /\ stream'.targets[q].pending = stream.targets[q].pending
  <2>1. CASE IsActiveTarget(m.q)
    <3>1. stream' = [stream EXCEPT !.in = Tail(@),
                       !.targets[m.q] = [@ EXCEPT !.current = TRUE, !.dirty = TRUE,
                                                  !.token = m.token]]
      BY <2>1 DEF ReadCurrent
    <3>2. /\ stream'.docs = stream.docs
          /\ stream'.targets = [stream.targets EXCEPT
                                  ![m.q] = [@ EXCEPT !.current = TRUE, !.dirty = TRUE,
                                                     !.token = m.token]]
          /\ stream'.state = stream.state /\ stream'.out = stream.out
          /\ stream'.in = Tail(stream.in) /\ stream'.served = stream.served
      BY <1>2, <3>1 DEF Stream
    <3>3. q # m.q => stream'.targets[q] = stream.targets[q]
      BY <1>2, <1>3, <3>2
    <3> QED
      BY <1>3, <2>1, <3>2, <3>3
  <2>2. CASE ~IsActiveTarget(m.q)
    BY <1>2, <1>3, <2>2 DEF ReadCurrent, Stream
  <2> QED
    BY <2>1, <2>2
<1>5. ASSUME NEW q \in Query PROVE Known(stream', q, cache[q], Active(q), Owed(q))
  <2>1. Known(stream, q, cache[q], Active(q), Owed(q)) /\ Answering(stream, q, Owed(q))
    BY DEF FreshInv
  <2>2. CASE q = m.q /\ IsActiveTarget(q)
    <3>1. Settled(stream, q) /\ Served(stream, q) /\ Fresh(stream, q, 1)
      BY <1>2, <2>2, ActiveTargets
    <3>2. 1 \in DOMAIN stream.in /\ m = stream.in[1]
      BY <1>2 DEF Stream
    <3>3. \A n \in Owed(q) : n <= m.token
      BY <1>2, <2>1, <2>2, <3>1, <3>2 DEF Answering, InTime
    <3>4. \A x \in 1..m.token : x \in cache[q] \cup stream.docs[q]
      <4>1. m.token \in Claims(m, q)
        BY <1>2, <2>2 DEF Claims
      <4> QED
        BY <1>2, <2>2, <4>1, ReadClaims
    <3>5. \A n \in Owed(q) : n \in Nat
      BY GetsAre DEF Owed
    <3>6. ASSUME NEW n \in Owed(q), NEW x \in 1..n PROVE x \in cache[q] \cup stream.docs[q]
      <4>1. x \in 1..m.token
        BY <1>3, <3>3, <3>5, <3>6
      <4> QED
        BY <3>4, <4>1
    <3>7. Active(q)
      BY <2>2 DEF IsActiveTarget
    <3> QED
      BY <1>4, <3>6, <3>7 DEF Known
  <2>3. CASE ~(q = m.q /\ IsActiveTarget(q))
    BY <1>4, <2>1, <2>3 DEF Known
  <2> QED
    BY <2>2, <2>3
<1>6. \A q \in Query : Answering(stream', q, Owed(q))
  BY <1>2, <1>4, ReadingFresh
<1> QED
  BY <1>1, <1>2, <1>5, <1>6, ConnectionFresh

LEMMA ReadSnapshotFresh ==
  ASSUME IInv, StateInv, FreshInv, ReadSnapshot
  PROVE  FreshInv'
<1> DEFINE m   == Head(stream.in)
           ts  == WithToken(m.at)
           new == ToRaise(ts)
           us  == [q \in Query |-> IF q \in new THEN [ts[q] EXCEPT !.dirty = FALSE] ELSE ts[q]]
           ds  == [q \in Query |-> {}]
           h   == [q \in Query |-> IF q \in new THEN ts[q].token ELSE stream.held[q]]
<1>1. Read("snapshot") /\ TypeOK
  BY DEF ReadSnapshot, IInv
<1>2. /\ stream.in # <<>> /\ m \in Response /\ m.kind = "snapshot"
      /\ stream \in Stream /\ stream.targets \in [Query -> TargetState]
      /\ UNCHANGED <<appVars, listeners, answers, hasty>>
      /\ m.at \in Version
  BY <1>1, ReadIs DEF Response
<1>3. stream.state = "Open" /\ StreamInv(stream)
  BY <1>2, OnlineNow DEF StreamInv
<1>4. ts \in [Query -> TargetState]
  BY <1>2, WithTokenType
<1>5. \A q \in Query : ts[q].current = stream.targets[q].current
                       /\ ts[q].pending = stream.targets[q].pending
  BY <1>2 DEF WithToken, TargetState
<1>6. CASE m.at < lastSnapshot
  <2>1. /\ stream' = [stream EXCEPT !.in = Tail(@), !.targets = ts]
        /\ SetOnline(UpdateState("Online")) /\ UNCHANGED diskVars
    BY <1>6 DEF ReadSnapshot
  <2> HIDE DEF ts
  <2>2. /\ stream'.state = "Open" /\ stream'.out = stream.out
        /\ stream'.in = Tail(stream.in) /\ stream'.served = stream.served
        /\ stream'.docs = stream.docs /\ stream'.targets = ts
    BY <1>2, <1>3, <2>1 DEF Stream
  <2>3. ASSUME NEW q \in Query PROVE Known(stream', q, cache[q], Active(q), Owed(q))
    <3>1. Known(stream, q, cache[q], Active(q), Owed(q))
      BY DEF FreshInv
    <3> QED
      BY <1>5, <2>2, <3>1 DEF Known
  <2>4. \A q \in Query : Answering(stream', q, Owed(q))
    BY <1>2, <2>2, ReadingFresh
  <2> QED
    BY <1>2, <2>1, <2>3, <2>4, ConnectionFresh
<1>7. CASE ~(m.at < lastSnapshot)
  <2>1. /\ stream' = [stream EXCEPT !.in = Tail(@), !.targets = us, !.docs = ds, !.held = h]
        /\ ApplyRemoteEvent(ts, new, m.at)
        /\ Publish(NewViews(ts, new), UpdateState("Online"))
    BY <1>2, <1>7 DEF ReadSnapshot, Stream
  <2>2. NewViews(ts, new) \in [Query -> ViewRecord]
    <3> HIDE DEF ts, new
    <3> QED
      BY <1>1, <1>2, <1>4 DEF NewViews, ViewRecord, TypeOK, TargetState, Stream
  <2>3. /\ stream'.state = "Open" /\ stream'.out = stream.out
        /\ stream'.in = Tail(stream.in) /\ stream'.served = stream.served
        /\ stream'.docs = ds /\ stream'.targets = us
    <3> HIDE DEF us, ds, h
    <3> QED
      BY <1>2, <1>3, <2>1 DEF Stream
  <2>4. \A q \in Query : /\ us[q].current = stream.targets[q].current
                         /\ us[q].pending = stream.targets[q].pending
    <3> HIDE DEF ts, new
    <3> QED
      BY <1>4, <1>5 DEF TargetState
  <2>5. \A q \in Query : cache'[q] = cache[q] \cup stream.docs[q]
    BY <2>1 DEF ApplyRemoteEvent
  <2>6. \A q \in Query : Answering(stream', q, Owed(q))
    BY <1>2, <2>3, ReadingFresh
  <2> DEFINE vs == NewViews(ts, new)
             o  == UpdateState("Online")
  <2>7. \A q \in Query : vs[q].current => stream.targets[q].current \/ view[q].current
    <3> HIDE DEF ts, new
    <3> QED
      BY <1>5 DEF NewViews
  <2>8. \A q \in Query : Active(q) => vs[q].data = view[q].data \cup stream.docs[q]
    <3> HIDE DEF ts, new
    <3> QED
      BY DEF NewViews
  <2>9. vs \in [Query -> ViewRecord] /\ Publish(vs, o)
    BY <2>1, <2>2
  <2> HIDE DEF ts, new, us, h, vs, o
  <2>10. ASSUME NEW q \in Query
         PROVE  /\ Known(stream', q, cache'[q], Active(q), Owed(q))
                /\ Answering(stream', q, Owed(q))
                /\ Active(q) => vs[q].data = cache'[q]
                /\ Active(q) /\ vs[q].current => \A n \in Owed(q) : 1..n \subseteq cache'[q]
    <3>1. /\ Known(stream, q, cache[q], Active(q), Owed(q))
          /\ Active(q) /\ view[q].current => \A n \in Owed(q) : 1..n \subseteq cache[q]
          /\ Active(q) => view[q].data = cache[q]
      BY DEF FreshInv, StateInv
    <3>2. cache'[q] \cup stream'.docs[q] = cache[q] \cup stream.docs[q]
      BY <2>3, <2>5
    <3>3. Known(stream', q, cache'[q], Active(q), Owed(q))
      BY <2>3, <2>4, <3>1, <3>2 DEF Known
    <3>4. Active(q) => vs[q].data = cache'[q]
      BY <2>5, <2>8, <3>1
    <3>5. ASSUME Active(q), vs[q].current, NEW n \in Owed(q)
          PROVE  1..n \subseteq cache'[q]
      <4>1. CASE stream.targets[q].current
        BY <2>5, <3>1, <3>5, <4>1 DEF Known
      <4>2. CASE view[q].current
        BY <2>5, <3>1, <3>5, <4>2
      <4> QED
        BY <2>7, <3>5, <4>1, <4>2
    <3> QED
      BY <2>6, <3>3, <3>4, <3>5
  <2>11. UNCHANGED <<asked, floor, listeners, answers, hasty>>
    BY <1>2 DEF appVars
  <2> QED
    BY <2>9, <2>10, <2>11, FreshAfter
<1> QED
  BY <1>6, <1>7

LEMMA ServeFresh ==
  ASSUME IInv, StateInv, TasksInv, FreshInv, Serve
  PROVE  FreshInv'
<1> DEFINE m  == Head(stream.out)
           removed == m.kind = "unwatch"
           target == IF removed THEN Unserved
                     ELSE [phase |-> "Added", sent |-> m.token, since |-> version]
           a  == [kind |-> "ack", q |-> m.q, removed |-> removed]
           sv == [stream.served EXCEPT ![m.q] = target]
<1>1. stream.out # <<>> /\ Connected /\ UNCHANGED <<appVars, userVars, answers, diskVars, hasty>>
  BY DEF Serve, BackendOnly
<1>2. /\ stream \in Stream /\ stream.state = "Open" /\ stream.in \in Seq(Response)
      /\ stream.out \in Seq(Request) /\ stream.served \in [Query -> ServedState]
  BY <1>1, BackendNow DEF Stream
<1>3. m \in Request
  BY <1>1, <1>2
<1>4. m.q \in Query
  BY <1>3 DEF Request
<1>5. a \in Response /\ a.kind = "ack" /\ a.q = m.q /\ (a.removed <=> removed)
  BY <1>4 DEF Response
<1>6. stream' = [stream EXCEPT !.in = Append(@, a), !.out = Tail(@), !.served = sv, !.due = TRUE]
  BY <1>2 DEF Serve, Answers, Stream
<1>7. /\ target.phase # "None" <=> ~removed
      /\ ~removed => target.since = version
  BY DEF Unserved
<1> HIDE DEF a, removed, target
<1>8. \A q \in Query : sv[q] = IF m.q = q THEN target ELSE stream.served[q]
  BY <1>2, <1>4
<1> HIDE DEF sv
<1>9. /\ stream'.state = "Open" /\ stream'.out = Tail(stream.out)
      /\ stream'.in = Append(stream.in, a) /\ stream'.docs = stream.docs
      /\ stream'.targets = stream.targets /\ stream'.served = sv
  BY <1>2, <1>6 DEF Stream
<1>10. ASSUME NEW q \in Query
       PROVE  Known(stream', q, cache[q], Active(q), Owed(q)) /\ Answering(stream', q, Owed(q))
  <2> DEFINE owed == Owed(q)
  <2>1. Known(stream, q, cache[q], Active(q), owed) /\ Answering(stream, q, owed)
    BY DEF FreshInv
  <2>2. Known(stream', q, cache[q], Active(q), owed)
    BY <1>2, <1>9, <2>1 DEF Known
  <2>3. \A n \in owed : n <= version
    BY GetsAre DEF Owed, TasksInv
  <2>4. m.q # q => stream'.served[q] = stream.served[q]
    BY <1>8, <1>9
  <2>5. m.q = q => /\ Served(stream', q) <=> ~a.removed
                   /\ ~a.removed => \A n \in owed : n <= stream'.served[q].since
    BY <1>5, <1>7, <1>8, <1>9, <2>3 DEF Served
  <2> HIDE DEF owed
  <2>6. Answering(stream', q, owed)
    BY <1>1, <1>2, <1>5, <1>9, <2>1, <2>4, <2>5, ServeAnswering
  <2> QED
    BY <2>2, <2>6 DEF owed
<1> QED
  BY <1>1, <1>10, StreamOnlyFresh

\* The other steps of the backend.
LEMMA RespondFresh ==
  ASSUME IInv, StateInv, FreshInv, Connected,
         UNCHANGED <<appVars, userVars, answers, diskVars, hasty>>,
         NEW m \in Response, m.kind # "ack",
         stream'.state = "Open", stream'.out = stream.out, stream'.in = Append(stream.in, m),
         stream'.docs = stream.docs, stream'.targets = stream.targets,
         \A q \in Query :
           /\ Served(stream', q) <=> Served(stream, q)
           /\ stream'.served[q].since = stream.served[q].since
           /\ m.kind = "current" /\ m.q = q => stream.served[q].since <= m.token
  PROVE  FreshInv'
<1>1. /\ stream \in Stream /\ stream.state = "Open" /\ stream.in \in Seq(Response)
      /\ stream.served \in [Query -> ServedState]
  BY BackendNow DEF Stream
<1>2. ASSUME NEW q \in Query
      PROVE  Known(stream', q, cache[q], Active(q), Owed(q)) /\ Answering(stream', q, Owed(q))
  <2> DEFINE owed == Owed(q)
  <2>1. Known(stream, q, cache[q], Active(q), owed) /\ Answering(stream, q, owed)
    BY DEF FreshInv
  <2>2. Known(stream', q, cache[q], Active(q), owed)
    BY <1>1, <2>1 DEF Known
  <2>3. \A n \in owed : n \in Nat
    BY GetsAre DEF Owed
  <2>4. stream.served[q].since \in Nat /\ (m.kind = "current" => m.token \in Nat)
    BY <1>1 DEF ServedState, Version, Response
  <2> HIDE DEF owed
  <2>5. m.kind = "current" /\ m.q = q =>
          \A n \in owed : n <= stream.served[q].since => n <= m.token
    BY <2>3, <2>4
  <2>6. m \notin AcksFor(q)
    BY DEF AcksFor
  <2>7. Answering(stream', q, owed)
    BY <1>1, <2>1, <2>5, <2>6, RespondAnswering
  <2> QED
    BY <2>2, <2>7 DEF owed
<1> QED
  BY <1>2, StreamOnlyFresh

LEMMA SendDocsFresh ==
  ASSUME IInv, StateInv, FreshInv, NEW p \in Query, SendDocs(p)
  PROVE  FreshInv'
<1>1. Connected /\ UNCHANGED <<appVars, userVars, answers, diskVars, hasty>>
  BY DEF SendDocs, BackendOnly
<1>2. /\ stream \in Stream /\ stream.state = "Open" /\ stream.served \in [Query -> ServedState]
      /\ version \in Version /\ MaxCommits \in Nat
  BY <1>1, BackendNow
<1>3. PICK v \in (stream.served[p].sent + 1)..version :
        stream' = [Answers([kind |-> "docs", q |-> p,
                            changes |-> (stream.served[p].sent + 1)..v])
                     EXCEPT !.served[p].sent = v]
  BY DEF SendDocs
<1> DEFINE sent == stream.served[p].sent
           m    == [kind |-> "docs", q |-> p, changes |-> (sent + 1)..v]
           sv   == [stream.served EXCEPT ![p].sent = v]
<1>4. sent \in Nat /\ v \in Nat
  BY <1>2 DEF ServedState, Version
<1>5. (sent + 1)..v \subseteq Commit
  BY <1>2, <1>4 DEF Commit, Version
<1>6. m \in Response /\ m.kind = "docs"
  BY <1>5 DEF Response
<1>7. stream' = [stream EXCEPT !.in = Append(@, m), !.served = sv, !.due = TRUE]
  BY <1>2, <1>3 DEF Answers, Stream
<1>8. \A q \in Query : /\ sv[q].phase = stream.served[q].phase
                       /\ sv[q].since = stream.served[q].since
  BY <1>2 DEF ServedState
<1> HIDE DEF m, sv
<1>9. /\ stream'.state = "Open" /\ stream'.out = stream.out /\ stream'.in = Append(stream.in, m)
      /\ stream'.docs = stream.docs /\ stream'.targets = stream.targets /\ stream'.served = sv
  BY <1>2, <1>7 DEF Stream
<1>10. m.kind # "ack" /\ m.kind # "current"
  BY <1>6
<1>11. \A q \in Query :
         /\ Served(stream', q) <=> Served(stream, q)
         /\ stream'.served[q].since = stream.served[q].since
         /\ m.kind = "current" /\ m.q = q => stream.served[q].since <= m.token
  BY <1>8, <1>9, <1>10 DEF Served
<1> QED
  BY <1>1, <1>6, <1>9, <1>10, <1>11, RespondFresh

LEMMA SendCurrentFresh ==
  ASSUME IInv, StateInv, FreshInv, NEW p \in Query, SendCurrent(p)
  PROVE  FreshInv'
<1> DEFINE m  == [kind |-> "current", q |-> p, token |-> stream.served[p].sent]
           sv == [stream.served EXCEPT ![p].phase = "Current"]
<1>1. /\ Connected /\ UNCHANGED <<appVars, userVars, answers, diskVars, hasty>>
      /\ stream.served[p].phase = "Added" /\ stream.served[p].sent >= stream.served[p].since
  BY DEF SendCurrent, BackendOnly
<1>2. stream \in Stream /\ stream.state = "Open" /\ stream.served \in [Query -> ServedState]
  BY <1>1, BackendNow
<1>3. m \in Response /\ m.kind = "current" /\ m.q = p /\ m.token = stream.served[p].sent
  BY <1>2 DEF Response, ServedState
<1>4. stream' = [stream EXCEPT !.in = Append(@, m), !.served = sv, !.due = TRUE]
  BY <1>2 DEF SendCurrent, Answers, Stream
<1>5. \A q \in Query : /\ sv[q].phase # "None" <=> stream.served[q].phase # "None"
                       /\ sv[q].since = stream.served[q].since
  BY <1>1, <1>2 DEF ServedState
<1> HIDE DEF m, sv
<1>6. /\ stream'.state = "Open" /\ stream'.out = stream.out /\ stream'.in = Append(stream.in, m)
      /\ stream'.docs = stream.docs /\ stream'.targets = stream.targets /\ stream'.served = sv
  BY <1>2, <1>4 DEF Stream
<1>7. stream.served[p].sent \in Nat /\ stream.served[p].since \in Nat
  BY <1>2 DEF ServedState, Version
<1>8. \A q \in Query :
        /\ Served(stream', q) <=> Served(stream, q)
        /\ stream'.served[q].since = stream.served[q].since
        /\ m.kind = "current" /\ m.q = q => stream.served[q].since <= m.token
  BY <1>1, <1>3, <1>5, <1>6, <1>7 DEF Served
<1>9. m.kind # "ack"
  BY <1>3
<1> QED
  BY <1>1, <1>3, <1>6, <1>8, <1>9, RespondFresh

LEMMA SendSnapshotFresh ==
  ASSUME IInv, StateInv, FreshInv, SendSnapshot
  PROVE  FreshInv'
<1> DEFINE sent == {stream.served[q].sent : q \in {p \in Query : stream.served[p].phase # "None"}}
<1>1. Connected /\ UNCHANGED <<appVars, userVars, answers, diskVars, hasty>>
  BY DEF SendSnapshot, BackendOnly
<1>2. stream \in Stream /\ stream.state = "Open" /\ stream.served \in [Query -> ServedState]
  BY <1>1, BackendNow
<1>3. PICK r \in sent :
        stream' = [Answers([kind |-> "snapshot", at |-> r]) EXCEPT !.due = FALSE, !.at = r]
  BY DEF SendSnapshot
<1> DEFINE m == [kind |-> "snapshot", at |-> r]
<1>4. r \in Version
  BY <1>2 DEF ServedState
<1>5. m \in Response /\ m.kind = "snapshot"
  BY <1>4 DEF Response
<1>6. stream' = [stream EXCEPT !.in = Append(@, m), !.due = FALSE, !.at = r]
  BY <1>2, <1>3 DEF Answers, Stream
<1> HIDE DEF m, sent
<1>7. /\ stream'.state = "Open" /\ stream'.out = stream.out /\ stream'.in = Append(stream.in, m)
      /\ stream'.docs = stream.docs /\ stream'.targets = stream.targets
      /\ stream'.served = stream.served
  BY <1>2, <1>6 DEF Stream
<1>8. m.kind # "ack" /\ m.kind # "current"
  BY <1>5
<1>9. \A q \in Query :
        /\ Served(stream', q) <=> Served(stream, q)
        /\ stream'.served[q].since = stream.served[q].since
        /\ m.kind = "current" /\ m.q = q => stream.served[q].since <= m.token
  BY <1>7, <1>8 DEF Served
<1> QED
  BY <1>1, <1>5, <1>7, <1>8, <1>9, RespondFresh

LEMMA NextFresh == IInv /\ StateInv /\ TasksInv /\ FreshInv /\ [Next]_vars => FreshInv'
<1> SUFFICES ASSUME IInv, StateInv, TasksInv, FreshInv, [Next]_vars PROVE FreshInv'
  OBVIOUS
<1>1. ASSUME NEW q \in Query, Ask(q) PROVE FreshInv'
  BY <1>1, AskFresh
<1>2. ASSUME NEW g \in Get, Deliver(g) PROVE FreshInv'
  BY <1>2, DeliverFresh
<1>3. CASE CredentialChanges \/ Restart \/ Commits \/ UNCHANGED vars
  BY <1>3, AppFresh, RestartFresh
<1>4. CASE RunTask
  BY <1>4, RunListenFresh, RunUnlistenFresh, ClosingFresh DEF RunTask
<1>5. CASE TokenArrives \/ BackoffElapses \/ CallBreaks
  BY <1>5, OpeningFresh
<1>6. CASE TokenFails \/ StreamFails \/ IdleTimerFires \/ OnlineTimerFires
  BY <1>6, ClosingFresh
<1>7. CASE ReadResponse
  BY <1>7, ReadAckFresh, ReadDocsFresh, ReadCurrentFresh, ReadSnapshotFresh DEF ReadResponse
<1>8. CASE Serve \/ SendSnapshot
  BY <1>8, ServeFresh, SendSnapshotFresh
<1>9. ASSUME NEW q \in Query, SendDocs(q) \/ SendCurrent(q) PROVE FreshInv'
  BY <1>9, SendDocsFresh, SendCurrentFresh
<1> QED
  BY <1>1, <1>2, <1>3, <1>4, <1>5, <1>6, <1>7, <1>8, <1>9 DEF Next, Respond

-----------------------------------------------------------------------------
(* The theorem *)

\* A state of the data is what the first changes make it.
LEMMA StatesArePrefixes ==
  ASSUME NEW S \in SUBSET Commit, IsState(S)
  PROVE  S \in Prefix
<1> DEFINE beyond == {n \in Nat : n + 1 \notin S}
<1>1. MaxCommits \in Nat /\ \A x \in S : x \in Nat \ {0} /\ x <= MaxCommits
  BY GetsAssumption DEF Commit
<1>2. MaxCommits \in beyond
  BY <1>1
<1> HIDE DEF beyond
<1>3. PICK n \in beyond : \A m \in beyond : ~(<<m, n>> \in OpToRel(<, Nat))
  BY <1>2, NatLessThanWellFounded, WFMin DEF beyond
<1>4. \A u, v \in Nat : u < v => <<u, v>> \in OpToRel(<, Nat)
  BY DEF OpToRel
<1>5. n \in Nat /\ n + 1 \notin S /\ \A m \in beyond : ~(m < n)
  BY <1>3, <1>4 DEF beyond
<1>6. n <= MaxCommits
  BY <1>1, <1>2, <1>5
<1>7. \A x \in 1..n : x \in S
  <2> SUFFICES ASSUME NEW x \in 1..n PROVE x \in S
    OBVIOUS
  <2>1. x - 1 \in Nat /\ x - 1 < n /\ (x - 1) + 1 = x
    BY <1>5
  <2>2. x - 1 \notin beyond
    BY <1>5, <2>1
  <2> QED
    BY <2>1, <2>2 DEF beyond
<1>8. \A x \in S : x \in 1..n
  <2> SUFFICES ASSUME NEW x \in S, x > n PROVE FALSE
    BY <1>1, <1>5
  <2>1. n + 1 \in 1..x
    BY <1>1, <1>5
  <2> QED
    BY <1>5, <2>1 DEF IsState
<1>9. S = 1..n
  BY <1>7, <1>8
<1> QED
  BY <1>5, <1>6, <1>9 DEF Prefix, Version

LEMMA RightFromInv == IInv /\ StateInv /\ FreshInv => AnswersAreRight
<1> SUFFICES ASSUME IInv, StateInv, FreshInv, NEW g \in Get, NEW i \in DOMAIN answers[g]
             PROVE  /\ answers[g][i].data \in Prefix
                    /\ answers[g][i].synced /\ g \notin hasty =>
                         1..floor[g] \subseteq answers[g][i].data
  BY DEF AnswersAreRight
<1>1. answers[g] \in Seq(Snapshot)
  BY DEF IInv, TypeOK
<1>2. answers[g][i].data \in SUBSET Commit
  <2>1. answers[g][i] \in Snapshot
    BY <1>1, ElementOf
  <2> QED
    BY <2>1 DEF Snapshot
<1>3. IsState(answers[g][i].data)
  BY DEF StateInv
<1> QED
  BY <1>2, <1>3, StatesArePrefixes DEF FreshInv

\* Whatever happens to the stream, the backend's answers, the credentials and
\* the process, a callback is given the data as it was at some time; and where
\* it is said to be synchronised, from no earlier than the call, unless the
\* target was watched again before it was known to be no longer watched.
THEOREM AnswersAlwaysRight == Spec => []AnswersAreRight
<1> DEFINE I == IInv /\ StateInv /\ TasksInv /\ FreshInv
<1>1. Init => I
  BY InvInit, InitStates, InitTasks, InitFresh
<1>2. I /\ [Next]_vars => I'
  BY InvNext, NextStates, NextTasks, NextFresh
<1>3. I => AnswersAreRight
  BY RightFromInv
<1> QED
  BY <1>1, <1>2, <1>3, PTL DEF Spec
=============================================================================
