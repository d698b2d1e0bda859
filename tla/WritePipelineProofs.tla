------------------------ MODULE WritePipelineProofs ------------------------
(***************************************************************************)
(* Proofs about WritePipeline, for any finite set of accounts and any      *)
(* numbers of writes, of upsets and of batches in the pipeline.            *)
(***************************************************************************)
EXTENDS WritePipeline, SequenceTheorems, FiniteSetTheorems, WellFoundedInduction, TLAPS

-----------------------------------------------------------------------------
(* Sequences *)

LEMMA SeqBasics ==
  ASSUME NEW S, NEW s \in Seq(S)
  PROVE  /\ Len(s) \in Nat /\ DOMAIN s = 1..Len(s)
         /\ \A i \in 1..Len(s) : s[i] \in S
         /\ s = <<>> <=> Len(s) = 0
OBVIOUS

\* A part of a sequence is a sequence over the same set.
LEMMA PartOf ==
  ASSUME NEW S, NEW s \in Seq(S), NEW m \in Nat \ {0}, NEW n \in Int, n <= Len(s)
  PROVE  /\ SubSeq(s, m, n) \in Seq(S)
         /\ Len(SubSeq(s, m, n)) = IF m <= n THEN n - m + 1 ELSE 0
<1>1. \A i \in m..n : s[i] \in S
  BY SeqBasics
<1> QED
  BY <1>1, SubSeqProperties

LEMMA AtMostType ==
  ASSUME NEW S, NEW s \in Seq(S), NEW n \in Nat
  PROVE  AtMost(n, s) \in Seq(S) /\ Len(AtMost(n, s)) <= n
<1> DEFINE m == IF n < Len(s) THEN n ELSE Len(s)
<1>1. m \in Nat /\ m <= Len(s) /\ m <= n
  BY SeqBasics
<1>2. SubSeq(s, 1, m) \in Seq(S) /\ Len(SubSeq(s, 1, m)) = IF 1 <= m THEN m - 1 + 1 ELSE 0
  BY <1>1, PartOf
<1> QED
  BY <1>1, <1>2 DEF AtMost

LEMMA WaitingType ==
  ASSUME NEW S, NEW q \in Seq(S), NEW r
  PROVE  Waiting(r, q) \in Seq(S)
<1> DEFINE last == IF r.pipeline = <<>> THEN 0 ELSE Last(r.pipeline).id
           old == {i \in DOMAIN q : q[i].id <= last}
<1>1. Len(q) \in Nat /\ DOMAIN q = 1..Len(q)
  BY SeqBasics
<1>2. IsFiniteSet(1..Len(q))
  BY <1>1, FS_Interval
<1>3. Cardinality(old) \in Nat
  BY <1>1, <1>2, FS_Subset, FS_CardinalityType
<1> HIDE DEF old
<1>4. SubSeq(q, Cardinality(old) + 1, Len(q)) \in Seq(S)
  BY <1>1, <1>3, PartOf
<1> QED
  BY <1>4 DEF Waiting, old

LEMMA WithoutType ==
  ASSUME NEW S, NEW q \in Seq(S), NEW b
  PROVE  Without(q, b) \in Seq(S)
<1> DEFINE at == {i \in DOMAIN q : q[i].id = b.id}
           k == CHOOSE i \in at : TRUE
<1>1. Len(q) \in Nat /\ DOMAIN q = 1..Len(q)
  BY SeqBasics
<1>2. CASE at = {}
  BY <1>2 DEF Without
<1>3. CASE at # {}
  <2>1. k \in at
    BY <1>3
  <2>2. k \in 1..Len(q)
    BY <1>1, <2>1
  <2> HIDE DEF k, at
  <2>3. SubSeq(q, 1, k - 1) \in Seq(S) /\ SubSeq(q, k + 1, Len(q)) \in Seq(S)
    BY <1>1, <2>2, PartOf
  <2>4. RemoveAt(q, k) \in Seq(S)
    BY <2>3, ConcatProperties DEF RemoveAt
  <2> QED
    BY <1>3, <2>4 DEF Without, at, k
<1> QED
  BY <1>2, <1>3

LEMMA HeadThenTail ==
  ASSUME NEW S, NEW s \in Seq(S), s # <<>>
  PROVE  /\ Head(s) \in S /\ Tail(s) \in Seq(S) /\ <<Head(s)>> \in Seq(S)
         /\ s = <<Head(s)>> \o Tail(s)
<1> DEFINE h == <<Head(s)>>
           c == h \o Tail(s)
<1>1. /\ Head(s) \in S /\ Tail(s) \in Seq(S) /\ Len(Tail(s)) = Len(s) - 1
      /\ \A i \in 1..Len(Tail(s)) : Tail(s)[i] = s[i + 1]
      /\ Len(s) \in Nat \ {0} /\ Head(s) = s[1]
  BY HeadTailProperties, SeqBasics
<1>2. h \in Seq(S) /\ Len(h) = 1 /\ h[1] = s[1]
  BY <1>1
<1> HIDE DEF h
<1>3. /\ c \in Seq(S) /\ Len(c) = Len(s)
      /\ \A i \in 1..Len(s) : c[i] = IF i <= 1 THEN h[i] ELSE Tail(s)[i - 1]
  <2> DEFINE r == Tail(s)
  <2>1. r \in Seq(S) /\ Len(r) = Len(s) - 1
    BY <1>1
  <2> HIDE DEF r
  <2>2. /\ h \o r \in Seq(S) /\ Len(h \o r) = Len(h) + Len(r)
        /\ \A i \in 1..(Len(h) + Len(r)) : (h \o r)[i] = IF i <= Len(h) THEN h[i] ELSE r[i - Len(h)]
    BY <1>2, <2>1, ConcatProperties
  <2>3. Len(h) + Len(r) = Len(s)
    BY <1>1, <1>2, <2>1
  <2> QED
    BY <1>2, <2>2, <2>3 DEF r
<1> HIDE DEF c
<1>4. ASSUME NEW i \in 1..Len(s) PROVE s[i] = c[i]
  <2>1. CASE i = 1
    BY <1>1, <1>2, <1>3, <2>1
  <2>2. CASE i # 1
    <3>1. i - 1 \in 1..Len(Tail(s)) /\ (i - 1) + 1 = i
      BY <1>1, <2>2
    <3>2. Tail(s)[i - 1] = s[i]
      BY <1>1, <3>1
    <3> QED
      BY <1>1, <1>3, <2>2, <3>2
  <2> QED
    BY <2>1, <2>2
<1>5. s = c
  BY <1>1, <1>3, <1>4, SeqEqual
<1> QED
  BY <1>1, <1>2, <1>5 DEF h, c

\* The first of a sequence in two parts leaves the first part.
LEMMA TailConcat ==
  ASSUME NEW S, NEW s \in Seq(S), s # <<>>, NEW t \in Seq(S)
  PROVE  Tail(s) \o t = Tail(s \o t)
<1>1. /\ Tail(s) \in Seq(S) /\ Len(Tail(s)) = Len(s) - 1 /\ Len(s) \in Nat \ {0}
      /\ Len(t) \in Nat /\ \A i \in 1..(Len(s) - 1) : Tail(s)[i] = s[i + 1]
  BY HeadTailProperties, SeqBasics
<1> DEFINE c == s \o t
           d == Tail(s) \o t
           n == Len(s) + Len(t)
<1>2. /\ c \in Seq(S) /\ Len(c) = n
      /\ \A i \in 1..n : c[i] = IF i <= Len(s) THEN s[i] ELSE t[i - Len(s)]
  BY ConcatProperties
<1>3. /\ d \in Seq(S) /\ Len(d) = (Len(s) - 1) + Len(t)
      /\ \A i \in 1..((Len(s) - 1) + Len(t)) :
            d[i] = IF i <= Len(s) - 1 THEN Tail(s)[i] ELSE t[i - (Len(s) - 1)]
  BY <1>1, ConcatProperties
<1> HIDE DEF c, d
<1>4. n \in Nat \ {0} /\ c # <<>>
  BY <1>1, <1>2
<1>5. /\ Tail(c) \in Seq(S) /\ Len(Tail(c)) = n - 1
      /\ \A i \in 1..(n - 1) : Tail(c)[i] = c[i + 1]
  BY <1>2, <1>4, HeadTailProperties
<1>6. ASSUME NEW i \in 1..(n - 1) PROVE d[i] = Tail(c)[i]
  <2>1. /\ i \in 1..((Len(s) - 1) + Len(t)) /\ i + 1 \in 1..n
        /\ i <= Len(s) - 1 <=> i + 1 <= Len(s)
        /\ i - (Len(s) - 1) = (i + 1) - Len(s)
    BY <1>1
  <2>2. CASE i <= Len(s) - 1
    BY <1>1, <1>2, <1>3, <1>5, <2>1, <2>2
  <2>3. CASE ~(i <= Len(s) - 1)
    BY <1>2, <1>3, <1>5, <2>1, <2>3
  <2> QED
    BY <2>2, <2>3
<1>7. Len(d) = n - 1
  BY <1>1, <1>3
<1>8. d = Tail(c)
  BY <1>3, <1>5, <1>6, <1>7, SeqEqual
<1> QED
  BY <1>8 DEF c, d

\* An element that moves from one part of a sequence to the other.
LEMMA MoveHead ==
  ASSUME NEW S, NEW s \in Seq(S), NEW t \in Seq(S), t # <<>>
  PROVE  Append(s, Head(t)) \o Tail(t) = s \o t
<1> DEFINE h == <<Head(t)>>
           r == Tail(t)
<1>1. h \in Seq(S) /\ r \in Seq(S) /\ t = h \o r /\ Append(s, Head(t)) = s \o h
  BY HeadThenTail, AppendIsConcat
<1> HIDE DEF h, r
<1>2. (s \o h) \o r = s \o (h \o r)
  BY <1>1, ConcatAssociative
<1> QED
  BY <1>1, <1>2, Zenon DEF r

LEMMA FirstPart ==
  ASSUME NEW S, NEW s \in Seq(S), NEW t \in Seq(S), NEW p, s \o t = p
  PROVE  Len(s) <= Len(p) /\ \A i \in 1..Len(s) : s[i] = p[i]
<1>1. /\ Len(s) \in Nat /\ Len(t) \in Nat /\ Len(p) = Len(s) + Len(t)
      /\ \A i \in 1..(Len(s) + Len(t)) : p[i] = IF i <= Len(s) THEN s[i] ELSE t[i - Len(s)]
  BY ConcatProperties, SeqBasics
<1> QED
  BY <1>1

LEMMA SecondPart ==
  ASSUME NEW S, NEW s \in Seq(S), NEW t \in Seq(S), NEW T, s \o t \in Seq(T), t # <<>>
  PROVE  Head(t) \in T
<1>1. /\ Len(s) \in Nat /\ Len(t) \in Nat \ {0} /\ Len(s \o t) = Len(s) + Len(t)
      /\ \A i \in 1..(Len(s) + Len(t)) : (s \o t)[i] = IF i <= Len(s) THEN s[i] ELSE t[i - Len(s)]
      /\ Head(t) = t[1]
  BY ConcatProperties, SeqBasics
<1> DEFINE c == s \o t
           k == Len(s) + 1
<1>2. k \in 1..(Len(s) + Len(t)) /\ ~(k <= Len(s)) /\ k - Len(s) = 1
  BY <1>1
<1>3. c[k] = t[1] /\ c \in Seq(T) /\ Len(c) = Len(s) + Len(t)
  BY <1>1, <1>2
<1> HIDE DEF c, k
<1> QED
  BY <1>1, <1>2, <1>3, SeqBasics

-----------------------------------------------------------------------------
(* RemoteStore and the write stream *)

Request(r) == [closes |-> r.closes, counter |-> tokenCounter, user |-> auth]

\* How starting a stream, which turns r into s, changes what it waits for.
Follows(s, r) ==
  /\ s.closes = r.closes
  /\ \/ s.asked = r.asked /\ s.state = r.state
     \/ s.asked = r.asked /\ s.state = "Backoff" /\ r.state # "Starting"
     \/ s.asked = r.asked \cup {Request(r)} /\ s.state = "Starting" /\ r.state # "Starting"

LEMMA StartKeeps ==
  ASSUME NEW u, NEW S, NEW r, RemoteInv(r, u, S), r.pipeline # <<>>,
         r.state \notin {"Open", "Starting"}, auth \in User, tokenCounter \in Nat
  PROVE  RemoteInv(Start(r), u, S) /\ Follows(Start(r), r)
<1>1. r \in Remote(S)
  BY DEF RemoteInv
<1>2. Len(r.pipeline) > 0
  BY <1>1, SeqBasics DEF Remote
<1>3. CASE r.state = "Error"
  BY <1>1, <1>2, <1>3 DEF RemoteInv, Remote, Start, Follows
<1>4. CASE r.state # "Error"
  <2> DEFINE a == Request(r)
  <2>1. a \in [closes : Nat, counter : Nat, user : User]
    BY <1>1 DEF Remote, Request
  <2> HIDE DEF a
  <2>2. Start(r) = [r EXCEPT !.state = "Starting", !.asked = @ \cup {a}]
    BY <1>4 DEF Start, Request, a
  <2>3. /\ [r EXCEPT !.state = "Starting", !.asked = @ \cup {a}] \in Remote(S)
        /\ Start(r).state = "Starting" /\ Start(r).closes = r.closes
        /\ Start(r).asked = r.asked \cup {a}
    BY <1>1, <2>1, <2>2 DEF Remote
  <2>4. RemoteInv(Start(r), u, S)
    BY <1>1, <1>2, <2>2, <2>3 DEF RemoteInv, Remote
  <2> QED
    BY <2>3, <2>4 DEF Follows, a
<1> QED
  BY <1>3, <1>4

LEMMA StartIfNeededKeeps ==
  ASSUME NEW u, NEW S, NEW r, RemoteInv(r, u, S), auth \in User, tokenCounter \in Nat
  PROVE  RemoteInv(StartIfNeeded(r), u, S) /\ Follows(StartIfNeeded(r), r)
BY StartKeeps DEF StartIfNeeded, IsStarted, Follows

\* A closed stream is fit for any account, whatever it was before.
LEMMA CloseKeeps ==
  ASSUME NEW u, NEW S, NEW r, RemoteInv(r, u, S), NEW graceful \in BOOLEAN, NEW v
  PROVE  /\ RemoteInv(Close(r, graceful), v, S)
         /\ Close(r, graceful).asked = r.asked
         /\ Close(r, graceful).state = IF graceful THEN "Initial" ELSE "Error"
         /\ Close(r, graceful).pipeline = r.pipeline
         /\ Close(r, graceful).closes = r.closes + 1
<1>1. r \in Remote(S) /\ Len(r.pipeline) <= MaxPendingWrites
  BY DEF RemoteInv
<1> DEFINE c == Close(r, graceful)
<1>2. /\ c \in Remote(S)
      /\ c.pipeline = r.pipeline /\ c.asked = r.asked /\ c.closes = r.closes + 1
      /\ c.state = IF graceful THEN "Initial" ELSE "Error"
      /\ c.in = <<>> /\ c.out = <<>> /\ c.status = "None" /\ ~c.handshake /\ ~c.idle
  <2> DEFINE st == IF graceful THEN "Initial" ELSE "Error"
             n == r.closes + 1
  <2>1. st \in {"Initial", "Error"} /\ n \in Nat
    BY <1>1 DEF Remote
  <2>2. c = [Closed EXCEPT !.state = st, !.pipeline = r.pipeline, !.asked = r.asked,
                           !.closes = n]
    BY DEF Close
  <2> HIDE DEF st, n
  <2>3. c = [pipeline |-> r.pipeline, state |-> st, handshake |-> FALSE, idle |-> FALSE,
             closes |-> n, asked |-> r.asked, caller |-> Nobody, out |-> <<>>,
             in |-> <<>>, status |-> "None"]
    BY <2>2 DEF Closed
  <2> HIDE DEF c
  <2>4. c \in Remote(S)
    BY <1>1, <2>1, <2>3 DEF Remote
  <2> QED
    BY <2>3, <2>4 DEF st, n
<1> HIDE DEF c
<1>4. RemoteInv(c, v, S)
  BY <1>1, <1>2 DEF RemoteInv
<1> QED
  BY <1>2, <1>4 DEF c

LEMMA StopKeeps ==
  ASSUME NEW u, NEW S, NEW r, RemoteInv(r, u, S), NEW v
  PROVE  /\ RemoteInv(Stop(r), v, S)
         /\ Stop(r).state \in {"Initial", "Error"}
         /\ Stop(r).asked = r.asked
         /\ \/ Stop(r).closes = r.closes + 1
            \/ Stop(r).closes = r.closes /\ Stop(r).state = r.state
<1>1. r \in Remote(S)
  BY DEF RemoteInv
<1>2. CASE IsStarted(r)
  <2>1. Stop(r) = Close(r, TRUE)
    BY <1>2 DEF Stop
  <2>2. /\ RemoteInv(Close(r, TRUE), v, S) /\ Close(r, TRUE).asked = r.asked
        /\ Close(r, TRUE).state = "Initial" /\ Close(r, TRUE).closes = r.closes + 1
    <3>1. TRUE \in BOOLEAN
      OBVIOUS
    <3>2. RemoteInv(Close(r, TRUE), v, S)
      BY <3>1, CloseKeeps
    <3>3. /\ Close(r, TRUE).asked = r.asked /\ Close(r, TRUE).closes = r.closes + 1
          /\ Close(r, TRUE).state = IF TRUE THEN "Initial" ELSE "Error"
      BY <3>1, CloseKeeps
    <3> QED
      BY <3>2, <3>3
  <2> QED
    BY <2>1, <2>2
<1>3. CASE ~IsStarted(r)
  <2>1. r.state \in {"Initial", "Error"}
    BY <1>1, <1>3 DEF IsStarted, Remote
  <2> QED
    BY <1>3, <2>1 DEF Stop, RemoteInv
<1> QED
  BY <1>2, <1>3

Grown(r, new) == [r EXCEPT !.pipeline = @ \o new]

\* Batches that join an open stream's pipeline join what is on its way.
LEMMA SendKeeps ==
  ASSUME NEW u, NEW S, NEW r, RemoteInv(r, u, S), r.state = "Open", r.handshake,
         NEW new \in Seq(S), Len(r.pipeline) + Len(new) <= MaxPendingWrites,
         NEW full, full = Grown(r, new)
  PROVE  /\ RemoteInv(Send(full, new), u, S)
         /\ Send(full, new).state = "Open" /\ Send(full, new).handshake
         /\ Send(full, new).pipeline = full.pipeline
         /\ Send(full, new).asked = r.asked /\ Send(full, new).closes = r.closes
<1> DEFINE p == r.pipeline \o new
           o == r.out \o new
           s == [r EXCEPT !.pipeline = p, !.out = o, !.idle = FALSE]
<1>1. /\ r \in Remote(S)
      /\ r.pipeline \in Seq(S) /\ r.out \in Seq(S \cup {Handshake})
      /\ r.in \in Seq(S \cup {Handshake}) /\ new \in Seq(S \cup {Handshake})
  BY DEF RemoteInv, Remote
<1>2. CASE new = <<>>
  <2>1. full = r
    BY <1>1, <1>2, ConcatEmptySeq DEF Remote, Grown
  <2> QED
    BY <1>2, <2>1 DEF Send
<1>3. CASE new # <<>>
  <2>1. /\ p \in Seq(S) /\ Len(p) = Len(r.pipeline) + Len(new)
        /\ \A i \in 1..Len(p) : p[i] = IF i <= Len(r.pipeline) THEN r.pipeline[i]
                                       ELSE new[i - Len(r.pipeline)]
    BY <1>1, ConcatProperties
  <2>2. /\ o \in Seq(S \cup {Handshake}) /\ Len(o) = Len(r.out) + Len(new)
        /\ \A i \in 1..Len(o) : o[i] = IF i <= Len(r.out) THEN r.out[i]
                                       ELSE new[i - Len(r.out)]
    BY <1>1, ConcatProperties
  <2>3. /\ Len(r.pipeline) \in Nat /\ Len(r.in) \in Nat /\ Len(r.out) \in Nat
        /\ Len(new) \in Nat
    BY <1>1, SeqBasics
  <2> HIDE DEF p, o
  <2>4. /\ s \in Remote(S)
        /\ s.pipeline = p /\ s.out = o /\ ~s.idle /\ s.in = r.in /\ s.asked = r.asked
        /\ s.closes = r.closes
        /\ s.state = "Open" /\ s.handshake /\ s.caller = u /\ s.status = r.status
    BY <1>1, <2>1, <2>2 DEF Remote, RemoteInv
  <2>5. /\ Len(r.in) <= Len(r.pipeline)
        /\ \A i \in 1..Len(r.in) : r.in[i] = r.pipeline[i]
        /\ r.status = "None" => r.in \o r.out = r.pipeline
    BY DEF RemoteInv
  <2>6. Len(r.in) <= Len(p)
    BY <2>1, <2>3, <2>5
  <2>7. ASSUME NEW i \in 1..Len(r.in) PROVE r.in[i] = p[i]
    <3>1. i \in 1..Len(p) /\ i <= Len(r.pipeline)
      BY <2>1, <2>3, <2>5
    <3> QED
      BY <2>1, <2>5, <3>1
  <2>8. ASSUME r.status = "None" PROVE r.in \o o = p
    <3>1. r.in \o (r.out \o new) = (r.in \o r.out) \o new
      <4> DEFINE T == S \cup {Handshake}
      <4>1. r.in \in Seq(T) /\ r.out \in Seq(T) /\ new \in Seq(T)
        BY <1>1
      <4> HIDE DEF T
      <4>2. \A a, b, c \in Seq(T) : (a \o b) \o c = a \o (b \o c)
        BY ConcatAssociative
      <4> QED
        BY <4>1, <4>2, Zenon
    <3>2. r.in \o r.out = r.pipeline
      BY <2>5, <2>8
    <3> QED
      BY <3>1, <3>2, Zenon DEF o, p
  <2> HIDE DEF s
  <2>9. RemoteInv(s, u, S)
    <3>1. Len(s.pipeline) <= MaxPendingWrites /\ s.state = "Open" /\ s.handshake /\ ~s.idle
      BY <2>1, <2>4
    <3>2. /\ Len(s.in) <= Len(s.pipeline)
          /\ \A i \in 1..Len(s.in) : s.in[i] = s.pipeline[i]
          /\ s.status = "None" => s.in \o s.out = s.pipeline
      BY <2>4, <2>6, <2>7, <2>8
    <3> QED
      BY <2>4, <3>1, <3>2 DEF RemoteInv
  <2>10. Send(full, new) = s
    BY <1>1, <1>3 DEF Send, Remote, Grown, s, p, o
  <2>11. full.pipeline = p
    BY <1>1 DEF Remote, Grown, p
  <2> QED
    BY <2>4, <2>9, <2>10, <2>11
<1> QED
  BY <1>2, <1>3

\* Before the handshake, batches only join the pipeline.
LEMMA GrowKeeps ==
  ASSUME NEW u, NEW S, NEW r, RemoteInv(r, u, S), ~r.handshake,
         NEW new \in Seq(S), Len(r.pipeline) + Len(new) <= MaxPendingWrites
  PROVE  RemoteInv(Grown(r, new), u, S)
<1> DEFINE p == r.pipeline \o new
           full == Grown(r, new)
<1>1. r \in Remote(S) /\ r.pipeline \in Seq(S)
  BY DEF RemoteInv, Remote
<1>2. /\ p \in Seq(S) /\ Len(p) = Len(r.pipeline) + Len(new)
      /\ Len(r.pipeline) \in Nat /\ Len(new) \in Nat
  BY <1>1, ConcatProperties, SeqBasics
<1> HIDE DEF p
<1>3. /\ full \in Remote(S)
      /\ full.pipeline = p /\ full.out = r.out /\ full.in = r.in /\ full.state = r.state
      /\ full.handshake = r.handshake /\ full.idle = r.idle /\ full.status = r.status
      /\ full.caller = r.caller
  BY <1>1, <1>2 DEF Remote, Grown, p
<1> HIDE DEF full
<1>4. /\ ~r.idle
      /\ r.state \in {"Starting", "Backoff"} => Len(p) > 0
      /\ r.state = "Open" => Len(p) > 0
  BY <1>1, <1>2 DEF RemoteInv
<1>5. RemoteInv(full, u, S)
  BY <1>2, <1>3, <1>4 DEF RemoteInv
<1> QED
  BY <1>5 DEF full

LEMMA IdleKeeps ==
  ASSUME NEW u, NEW S, NEW r, RemoteInv(r, u, S), NEW i \in BOOLEAN,
         i => r.state = "Open" /\ r.pipeline = <<>>
  PROVE  LET s == [r EXCEPT !.idle = i]
         IN  /\ RemoteInv(s, u, S)
             /\ s.state = r.state /\ s.asked = r.asked /\ s.closes = r.closes
<1> DEFINE s == [r EXCEPT !.idle = i]
<1>1. r \in Remote(S)
  BY DEF RemoteInv
<1>2. /\ s \in Remote(S)
      /\ s.pipeline = r.pipeline /\ s.out = r.out /\ s.in = r.in /\ s.state = r.state
      /\ s.handshake = r.handshake /\ s.idle = i /\ s.status = r.status
      /\ s.caller = r.caller /\ s.asked = r.asked /\ s.closes = r.closes
  BY <1>1 DEF Remote
<1> HIDE DEF s
<1>3. i => Len(r.pipeline) = 0
  OBVIOUS
<1>4. RemoteInv(s, u, S)
  BY <1>2, <1>3 DEF RemoteInv
<1> QED
  BY <1>2, <1>4 DEF s

\* Nothing is lost on the way: a batch that enters the pipeline of an open
\* stream after the handshake is sent, in the pipeline's order.
LEMMA FillKeeps ==
  ASSUME NEW u, NEW S, NEW r, RemoteInv(r, u, S), NEW q \in Seq(S),
         auth \in User, tokenCounter \in Nat
  PROVE  /\ RemoteInv(FillWritePipeline(r, q), u, S)
         /\ Follows(FillWritePipeline(r, q), r)
<1> DEFINE new  == AtMost(Room(r), Waiting(r, q))
           full == Grown(r, new)
           sent == IF r.state = "Open" /\ r.handshake THEN Send(full, new) ELSE full
           idle == sent.idle \/ (r.state = "Open" /\ full.pipeline = <<>>)
           done == [sent EXCEPT !.idle = idle]
<1>1. /\ r \in Remote(S) /\ r.pipeline \in Seq(S) /\ Len(r.pipeline) \in Nat
      /\ Len(r.pipeline) <= MaxPendingWrites
  <2>1. r \in Remote(S) /\ Len(r.pipeline) <= MaxPendingWrites
    BY DEF RemoteInv
  <2>2. r.pipeline \in Seq(S)
    BY <2>1 DEF Remote
  <2> QED
    BY <2>1, <2>2, SeqBasics
<1>2. Room(r) \in Nat
  BY <1>1, PipelineAssumption DEF Room
<1>3. /\ new \in Seq(S) /\ Len(new) \in Nat
      /\ Len(r.pipeline) + Len(new) <= MaxPendingWrites
  <2>1. Waiting(r, q) \in Seq(S)
    BY WaitingType
  <2>2. new \in Seq(S) /\ Len(new) <= Room(r)
    BY <1>2, <2>1, AtMostType
  <2> HIDE DEF new
  <2>3. Len(new) \in Nat
    BY <2>2, SeqBasics
  <2> QED
    BY <1>1, <1>2, <2>2, <2>3, PipelineAssumption DEF Room
<1> HIDE DEF new
<1>4. /\ full.pipeline = r.pipeline \o new
      /\ full.pipeline \in Seq(S) /\ Len(full.pipeline) = Len(r.pipeline) + Len(new)
  <2>1. full.pipeline = r.pipeline \o new
    BY <1>1 DEF Remote, Grown
  <2> QED
    BY <1>1, <1>3, <2>1, ConcatProperties
<1> HIDE DEF full
<1>5. /\ RemoteInv(sent, u, S)
      /\ sent.pipeline = full.pipeline /\ sent.state = r.state
      /\ sent.asked = r.asked /\ sent.closes = r.closes
  <2>1. CASE r.state = "Open" /\ r.handshake
    <3>1. sent = Send(full, new)
      BY <2>1
    <3>2. /\ RemoteInv(Send(full, new), u, S)
          /\ Send(full, new).state = "Open"
          /\ Send(full, new).pipeline = full.pipeline
          /\ Send(full, new).asked = r.asked /\ Send(full, new).closes = r.closes
      BY <1>3, <2>1, SendKeeps DEF full
    <3> QED
      BY <2>1, <3>1, <3>2
  <2>2. CASE ~(r.state = "Open" /\ r.handshake)
    <3>1. ~r.handshake
      BY <1>1, <2>2 DEF RemoteInv
    <3>2. RemoteInv(full, u, S)
      BY <1>3, <3>1, GrowKeeps DEF full
    <3>3. full.state = r.state /\ full.asked = r.asked /\ full.closes = r.closes
      BY <1>1 DEF full, Remote, Grown
    <3>4. sent = full
      BY <2>2
    <3> QED
      BY <3>2, <3>3, <3>4
  <2> QED
    BY <2>1, <2>2
<1> HIDE DEF sent
<1>6. idle \in BOOLEAN /\ (idle => sent.state = "Open" /\ sent.pipeline = <<>>)
  <2>1. sent \in Remote(S) /\ (sent.idle => sent.state = "Open" /\ Len(sent.pipeline) = 0)
    BY <1>5 DEF RemoteInv
  <2>2. sent.pipeline \in Seq(S) /\ sent.idle \in BOOLEAN
    BY <2>1 DEF Remote
  <2>3. sent.idle => sent.pipeline = <<>>
    BY <2>1, <2>2, SeqBasics
  <2> QED
    BY <1>5, <2>1, <2>2, <2>3
<1> HIDE DEF idle
<1>7. /\ RemoteInv(done, u, S)
      /\ done.state = r.state /\ done.asked = r.asked /\ done.closes = r.closes
  BY <1>5, <1>6, IdleKeeps
<1>8. FillWritePipeline(r, q) = StartIfNeeded(done)
  BY DEF FillWritePipeline, new, full, sent, idle, Grown
<1> HIDE DEF done
<1>9. RemoteInv(StartIfNeeded(done), u, S) /\ Follows(StartIfNeeded(done), done)
  BY <1>7, StartIfNeededKeeps
<1>10. Follows(StartIfNeeded(done), r)
  BY <1>7, <1>9 DEF Follows, Request
<1> QED
  BY <1>8, <1>9, <1>10

LEMMA FollowsKeeps ==
  ASSUME NEW s, NEW r, NEW ts, Follows(s, r), AskedInv(r.asked), AnswersInv(r, ts),
         r.closes \in Nat, tokenCounter \in Nat
  PROVE  AskedInv(s.asked) /\ AnswersInv(s, ts)
<1>1. CASE s.asked = r.asked /\ s.state = r.state
  BY <1>1 DEF Follows, AnswersInv
<1>2. CASE s.asked = r.asked /\ s.state = "Backoff" /\ r.state # "Starting"
  BY <1>2 DEF Follows, AnswersInv
<1>3. CASE s.asked = r.asked \cup {Request(r)} /\ s.state = "Starting" /\ r.state # "Starting"
  <2>1. /\ Request(r).closes = r.closes /\ Request(r).counter = tokenCounter
        /\ Request(r).user = auth
    BY DEF Request
  <2>2. AskedInv(s.asked)
    BY <1>3, <2>1 DEF AskedInv
  <2>3. AnswersInv(s, ts)
    BY <1>3, <2>1 DEF Follows, AnswersInv
  <2> QED
    BY <2>2, <2>3
<1> QED
  BY <1>1, <1>2, <1>3 DEF Follows

\* Answers to what a stream asked for before it was closed are never taken for
\* later ones.
LEMMA CloseAnswers ==
  ASSUME NEW s, NEW r, NEW ts \in Seq(Task), AnswersInv(r, ts), r.closes \in Nat,
         r.asked \subseteq [closes : Nat, counter : Nat, user : User],
         s.closes = r.closes + 1, s.asked = r.asked
  PROVE  AnswersInv(s, ts)
<1>1. ASSUME NEW k \in DOMAIN ts, ts[k].kind = "token"
      PROVE  ts[k].closes < s.closes
  <2>1. ts[k] \in Task
    OBVIOUS
  <2>2. ts[k].closes \in Nat
    BY <1>1, <2>1 DEF Task
  <2>3. ts[k].closes >= r.closes => ts[k].closes = r.closes
    BY <1>1 DEF AnswersInv
  <2> QED
    BY <2>2, <2>3
<1>2. ASSUME NEW a \in s.asked
      PROVE  a.closes < s.closes
  <2>1. a.closes \in Nat
    OBVIOUS
  <2>2. a.closes >= r.closes => a.closes = r.closes
    BY <1>2 DEF AnswersInv
  <2> QED
    BY <2>1, <2>2
<1>3. s.closes \in Nat
  OBVIOUS
<1>4. {k \in DOMAIN ts : ts[k].kind = "token" /\ ts[k].closes >= s.closes} = {}
  <2>1. ASSUME NEW k \in DOMAIN ts, ts[k].kind = "token" PROVE ~(ts[k].closes >= s.closes)
    <3>1. ts[k] \in Task
      OBVIOUS
    <3>2. ts[k].closes \in Nat
      BY <2>1, <3>1 DEF Task
    <3> QED
      BY <1>1, <1>3, <2>1, <3>2
  <2> QED
    BY <2>1
<1>5. {a \in s.asked : a.closes >= s.closes} = {}
  <2>1. ASSUME NEW a \in s.asked PROVE ~(a.closes >= s.closes)
    <3>1. a.closes \in Nat
      OBVIOUS
    <3> QED
      BY <1>2, <1>3, <3>1
  <2> QED
    BY <2>1
<1> QED
  BY <1>4, <1>5, Zenon DEF AnswersInv

-----------------------------------------------------------------------------
(* Batch ids *)

LEMMA LeastNat ==
  ASSUME NEW T \in SUBSET Nat, T # {}
  PROVE  \E x \in T : \A y \in T : x <= y
<1>1. \E x \in T : \A y \in T : ~(<<y, x>> \in OpToRel(<, Nat))
  BY NatLessThanWellFounded, WFMin
<1>2. \A x, y \in Nat : y < x => <<y, x>> \in OpToRel(<, Nat)
  BY DEF OpToRel
<1>3. PICK x \in T : \A y \in T : ~(<<y, x>> \in OpToRel(<, Nat))
  BY <1>1
<1>4. \A y \in T : ~(y < x)
  BY <1>2, <1>3
<1> QED
  BY <1>4

\* A finite set of numbers has a greatest one: else take one of least size that
\* has none, and remove an element.
LEMMA MaxOfNats ==
  ASSUME NEW S \in SUBSET Nat, IsFiniteSet(S), S # {}
  PROVE  Max(S) \in S /\ \A x \in S : Max(S) >= x
<1> DEFINE Greatest(X) == \E x \in X : \A y \in X : x >= y
           Bad == {X \in SUBSET S : X # {} /\ ~Greatest(X)}
           Sizes == {Cardinality(X) : X \in Bad}
<1>1. \A X \in SUBSET S : IsFiniteSet(X) /\ Cardinality(X) \in Nat
  BY FS_Subset, FS_CardinalityType
<1>2. Bad = {}
  <2> SUFFICES ASSUME Bad # {} PROVE FALSE
    OBVIOUS
  <2>1. Sizes \in SUBSET Nat /\ Sizes # {}
    BY <1>1
  <2>2. PICK n \in Sizes : \A m \in Sizes : n <= m
    BY <2>1, LeastNat
  <2>3. PICK X \in Bad : Cardinality(X) = n
    BY <2>2
  <2>4. PICK e \in X : TRUE
    BY <2>3
  <2>5. IsFiniteSet(X \ {e}) /\ Cardinality(X \ {e}) = n - 1 /\ n \in Nat
    BY <1>1, <2>1, <2>3, <2>4, FS_RemoveElement
  <2>6. X \ {e} \notin Bad
    <3>1. X \ {e} \in Bad => n - 1 \in Sizes
      BY <2>5
    <3>2. n - 1 \notin Sizes
      BY <2>1, <2>2, <2>5
    <3> QED
      BY <3>1, <3>2
  <2>7. CASE X \ {e} = {}
    BY <2>3, <2>4, <2>7
  <2>8. CASE X \ {e} # {}
    <3>1. PICK m \in X \ {e} : \A y \in X \ {e} : m >= y
      BY <2>6, <2>8, <2>3
    <3>2. m \in Nat /\ e \in Nat /\ X \subseteq Nat
      BY <2>3, <2>4, <3>1
    <3>3. CASE m >= e
      BY <2>3, <3>1, <3>2, <3>3
    <3>4. CASE e >= m
      BY <2>3, <2>4, <3>1, <3>2, <3>4
    <3> QED
      BY <3>2, <3>3, <3>4
  <2> QED
    BY <2>7, <2>8
<1>3. Greatest(S)
  BY <1>2
<1> QED
  BY <1>3 DEF Max

\* The image of a finite set under a function.
LEMMA FiniteImage ==
  ASSUME NEW S, IsFiniteSet(S), NEW f, DOMAIN f = S, NEW T, T = {f[x] : x \in S},
         f = [x \in S |-> f[x]]
  PROVE  IsFiniteSet(T)
<1>1. f \in Surjection(S, T)
  BY DEF Surjection
<1> QED
  BY <1>1, FS_Surjection

LEMMA HighestIdType ==
  ASSUME queue \in [User -> Seq(Batch)]
  PROVE  HighestId \in Nat /\ \A u \in User : \A b \in ToSet(queue[u]) : b.id <= HighestId
<1> DEFINE ids == [u \in User |-> {b.id : b \in ToSet(queue[u])}]
           all == {ids[u] : u \in User}
<1>1. ASSUME NEW u \in User
      PROVE  IsFiniteSet(ids[u]) /\ ids[u] \subseteq Nat
  <2> DEFINE q == queue[u]
             f == [i \in 1..Len(q) |-> q[i].id]
  <2>1. q \in Seq(Batch)
    OBVIOUS
  <2>2. Len(q) \in Nat /\ DOMAIN q = 1..Len(q) /\ \A i \in 1..Len(q) : q[i] \in Batch
    BY <2>1, SeqBasics
  <2>3. ids[u] = {f[i] : i \in 1..Len(q)}
    BY <2>2 DEF ToSet
  <2>4. \A i \in 1..Len(q) : f[i] \in Nat
    BY <2>2 DEF Batch
  <2>5. IsFiniteSet(1..Len(q))
    BY <2>2, FS_Interval
  <2> HIDE DEF q
  <2>6. f = [i \in 1..Len(q) |-> f[i]] /\ DOMAIN f = 1..Len(q)
    OBVIOUS
  <2> HIDE DEF f
  <2> QED
    <3>1. IsFiniteSet({f[i] : i \in 1..Len(q)})
      BY <2>5, <2>6, FiniteImage
    <3>2. {f[i] : i \in 1..Len(q)} \subseteq Nat
      BY <2>4
    <3> QED
      BY <2>3, <3>1, <3>2, Zenon
<1>2. ids = [u \in User |-> ids[u]] /\ DOMAIN ids = User
  OBVIOUS
<1>3. {0} \cup UNION {{b.id : b \in ToSet(queue[u])} : u \in User} = {0} \cup UNION all
  OBVIOUS
<1> HIDE DEF ids
<1>4. IsFiniteSet(all)
  BY <1>2, FiniteImage, PipelineAssumption
<1>5. \A u \in User : \A b \in ToSet(queue[u]) : b.id \in {0} \cup UNION all
  BY DEF ids
<1>6. IsFiniteSet(UNION all) /\ UNION all \subseteq Nat
  BY <1>1, <1>4, FS_UNION
<1> HIDE DEF all
<1>7. IsFiniteSet({0} \cup UNION all) /\ {0} \cup UNION all \in SUBSET Nat
  <2>1. IsFiniteSet({0})
    BY FS_Singleton
  <2>2. {0} \cup UNION all \in SUBSET Nat
    BY <1>6
  <2> QED
    BY <1>6, <2>1, <2>2, FS_Union
<1> DEFINE nats == {0} \cup UNION all
<1>8. Max(nats) \in Nat /\ \A n \in nats : Max(nats) >= n /\ n \in Nat
  BY <1>7, MaxOfNats
<1>9. HighestId = Max(nats)
  BY <1>3 DEF HighestId
<1> HIDE DEF nats
<1> QED
  BY <1>5, <1>8, <1>9 DEF nats

-----------------------------------------------------------------------------
(* The worker queue *)

\* Whose turn it is at a place depends on the operations before it only.
LEMMA UserAtAgrees ==
  ASSUME NEW ts, NEW tt, NEW me, NEW u, NEW k \in Nat,
         \A i \in 1..(k - 1) : ts[i] = tt[i], UserAt(ts, me, k, u)
  PROVE  UserAt(tt, me, k, u)
<1>1. CASE NoneOf(ts, 1, k - 1) /\ u = me
  BY <1>1 DEF UserAt, NoneOf
<1>2. ASSUME NEW j \in 1..(k - 1), ts[j].kind = "credential", ts[j].user = u,
             NoneOf(ts, j + 1, k - 1)
      PROVE  UserAt(tt, me, k, u)
  BY <1>2 DEF UserAt, NoneOf
<1> QED
  BY <1>1, <1>2 DEF UserAt

LEMMA UserAtAppend ==
  ASSUME NEW ts \in Seq(Task), NEW e \in Task, NEW me, NEW u, NEW v,
         UserAt(ts, me, Len(ts) + 1, u),
         v = IF e.kind = "credential" THEN e.user ELSE u
  PROVE  UserAt(Append(ts, e), me, Len(Append(ts, e)) + 1, v)
<1> DEFINE tt == Append(ts, e)
           n == Len(ts) + 1
<1>1. /\ n \in Nat \ {0} /\ Len(tt) = n /\ tt[n] = e
      /\ \A i \in 1..(n - 1) : tt[i] = ts[i]
  BY AppendProperties, SeqBasics
<1> HIDE DEF tt, n
<1>2. UserAt(ts, me, n, u)
  BY DEF n
<1>3. UserAt(tt, me, n, u)
  BY <1>1, <1>2, UserAtAgrees
<1>4. UserAt(tt, me, n + 1, v)
  <2>1. CASE e.kind = "credential"
    <3>1. NoneOf(tt, n + 1, n)
      BY <1>1 DEF NoneOf
    <3> QED
      BY <1>1, <2>1, <3>1 DEF UserAt
  <2>2. CASE e.kind # "credential"
    <3>1. \A i \in Nat : NoneOf(tt, i, n - 1) => NoneOf(tt, i, n)
      BY <1>1, <2>2 DEF NoneOf
    <3>2. v = u
      BY <2>2
    <3>3. CASE NoneOf(tt, 1, n - 1) /\ u = me
      BY <1>1, <3>1, <3>2, <3>3 DEF UserAt
    <3>4. ASSUME NEW j \in 1..(n - 1), tt[j].kind = "credential", tt[j].user = u,
                 NoneOf(tt, j + 1, n - 1)
          PROVE  UserAt(tt, me, n + 1, v)
      <4>1. j \in 1..n /\ NoneOf(tt, j + 1, n)
        BY <1>1, <3>1, <3>4
      <4> QED
        BY <1>1, <3>2, <3>4, <4>1 DEF UserAt
    <3> QED
      BY <1>3, <3>3, <3>4 DEF UserAt
  <2> QED
    BY <2>1, <2>2
<1> QED
  BY <1>1, <1>4 DEF tt

After(t, me) == IF t.kind = "credential" THEN t.user ELSE me

LEMMA UserAtTail ==
  ASSUME NEW ts \in Seq(Task), ts # <<>>, NEW me, NEW u, NEW k \in Nat,
         k <= Len(ts), UserAt(ts, me, k + 1, u), k > 0
  PROVE  UserAt(Tail(ts), After(Head(ts), me), k, u)
<1> DEFINE tt == Tail(ts)
           now == After(Head(ts), me)
<1>1. Len(ts) \in Nat /\ Head(ts) = ts[1] /\ \A i \in 1..(k - 1) : tt[i] = ts[i + 1]
  BY HeadTailProperties, SeqBasics
<1> HIDE DEF tt
<1>2. \A i \in Nat \ {0} : NoneOf(ts, i + 1, k) => NoneOf(tt, i, k - 1)
  <2> SUFFICES ASSUME NEW i \in Nat \ {0}, NoneOf(ts, i + 1, k), NEW h \in i..(k - 1)
               PROVE  tt[h].kind # "credential"
    BY DEF NoneOf
  <2>1. h + 1 \in (i + 1)..k /\ h \in 1..(k - 1)
    OBVIOUS
  <2> QED
    BY <1>1, <2>1 DEF NoneOf
<1>3. CASE NoneOf(ts, 1, k) /\ u = me
  <2>1. ts[1].kind # "credential" /\ NoneOf(ts, 2, k)
    BY <1>3 DEF NoneOf
  <2>2. now = me /\ NoneOf(tt, 1, k - 1)
    BY <1>1, <1>2, <2>1 DEF After
  <2> QED
    BY <1>3, <2>2 DEF UserAt, tt
<1>4. ASSUME NEW j \in 1..k, ts[j].kind = "credential", ts[j].user = u, NoneOf(ts, j + 1, k)
      PROVE  UserAt(tt, now, k, u)
  <2>1. CASE j = 1
    <3>1. now = u /\ NoneOf(tt, 1, k - 1)
      BY <1>1, <1>2, <1>4, <2>1 DEF After
    <3> QED
      BY <3>1 DEF UserAt
  <2>2. CASE j > 1
    <3> DEFINE i == j - 1
    <3>1. i \in 1..(k - 1) /\ j = i + 1
      BY <2>2
    <3> HIDE DEF i
    <3>2. tt[i] = ts[j]
      BY <1>1, <3>1
    <3>3. NoneOf(tt, i + 1, k - 1)
      BY <1>2, <1>4, <3>1
    <3> QED
      BY <1>4, <3>1, <3>2, <3>3 DEF UserAt
  <2> QED
    BY <2>1, <2>2
<1>5. (k + 1) - 1 = k
  OBVIOUS
<1> QED
  BY <1>3, <1>4, <1>5 DEF UserAt, tt

LEMMA TasksAppend ==
  ASSUME NEW ts \in Seq(Task), NEW me, NEW by, TasksInv(ts, me, by), NEW e \in Task,
         e.kind = "write" => /\ e.w \in DOMAIN by
                             /\ UserAt(ts, me, Len(ts) + 1, by[e.w]),
         e.kind = "token" => UserAt(ts, me, Len(ts) + 1, e.user)
  PROVE  TasksInv(Append(ts, e), me, by)
<1> DEFINE tt == Append(ts, e)
           n == Len(ts) + 1
<1>1. /\ n \in Nat \ {0} /\ Len(tt) = n /\ tt[n] = e /\ DOMAIN tt = 1..n
      /\ DOMAIN ts = 1..(n - 1) /\ \A i \in 1..(n - 1) : tt[i] = ts[i]
  BY AppendProperties, SeqBasics
<1> HIDE DEF tt
<1> SUFFICES ASSUME NEW k \in 1..n
             PROVE  /\ tt[k].kind = "write" => /\ tt[k].w \in DOMAIN by
                                               /\ UserAt(tt, me, k, by[tt[k].w])
                    /\ tt[k].kind = "token" => UserAt(tt, me, k, tt[k].user)
  BY <1>1 DEF TasksInv, tt
<1> DEFINE t == IF k = n THEN e ELSE ts[k]
<1>2. tt[k] = t /\ k \in Nat /\ \A i \in 1..(k - 1) : ts[i] = tt[i]
  BY <1>1
<1>3. /\ t.kind = "write" => t.w \in DOMAIN by /\ UserAt(ts, me, k, by[t.w])
      /\ t.kind = "token" => UserAt(ts, me, k, t.user)
  BY <1>1 DEF TasksInv
<1> HIDE DEF t, n
<1> QED
  BY <1>2, <1>3, UserAtAgrees

LEMMA TasksTail ==
  ASSUME NEW ts \in Seq(Task), ts # <<>>, NEW me, NEW by, TasksInv(ts, me, by)
  PROVE  TasksInv(Tail(ts), After(Head(ts), me), by)
<1> DEFINE tt == Tail(ts)
           now == After(Head(ts), me)
<1>1. /\ Len(ts) \in Nat /\ Len(tt) = Len(ts) - 1 /\ DOMAIN tt = 1..(Len(ts) - 1)
      /\ DOMAIN ts = 1..Len(ts) /\ \A i \in 1..(Len(ts) - 1) : tt[i] = ts[i + 1]
  BY HeadTailProperties, SeqBasics
<1>2. \A u : \A k \in 1..(Len(ts) - 1) : UserAt(ts, me, k + 1, u) => UserAt(tt, now, k, u)
  BY <1>1, UserAtTail
<1> HIDE DEF tt, now
<1> SUFFICES ASSUME NEW k \in 1..(Len(ts) - 1)
             PROVE  /\ tt[k].kind = "write" => /\ tt[k].w \in DOMAIN by
                                               /\ UserAt(tt, now, k, by[tt[k].w])
                    /\ tt[k].kind = "token" => UserAt(tt, now, k, tt[k].user)
  BY <1>1 DEF TasksInv, tt, now
<1>3. tt[k] = ts[k + 1] /\ k + 1 \in DOMAIN ts
  BY <1>1
<1> QED
  BY <1>2, <1>3 DEF TasksInv

LEMMA AnswersAppend ==
  ASSUME NEW ts \in Seq(Task), NEW r, r.closes \in Nat, AnswersInv(r, ts), NEW e \in Task,
         NEW s, s.closes = r.closes, s.state = r.state,
         \/ e.kind # "token" /\ s.asked = r.asked
         \/ \E a \in r.asked : e.closes = a.closes /\ s.asked = r.asked \ {a}
  PROVE  AnswersInv(s, Append(ts, e))
<1> DEFINE tt == Append(ts, e)
           n == Len(ts) + 1
           due(x) == {k \in DOMAIN x : x[k].kind = "token" /\ x[k].closes >= r.closes}
           new == IF e.kind = "token" /\ e.closes >= r.closes THEN {n} ELSE {}
           asked(y) == {a \in y.asked : a.closes >= r.closes}
<1>1. /\ n \in Nat \ {0} /\ tt[n] = e /\ DOMAIN tt = 1..n
      /\ DOMAIN ts = 1..(n - 1) /\ \A i \in 1..(n - 1) : tt[i] = ts[i]
  BY AppendProperties, SeqBasics
<1> HIDE DEF tt, n
<1>2. due(tt) = due(ts) \cup new
  BY <1>1
<1>3. /\ \A k \in due(ts) : ts[k].closes = r.closes
      /\ \A a \in asked(r) : a.closes = r.closes
      /\ r.state # "Starting" => due(ts) = {} /\ asked(r) = {}
      /\ \A k, l \in due(ts) : k = l
      /\ \A a, b \in asked(r) : a = b
      /\ due(ts) = {} \/ asked(r) = {}
  BY DEF AnswersInv
<1>4. \A k \in due(tt) : tt[k].closes = r.closes
  BY <1>1, <1>2, <1>3
<1>5. CASE new = {}
  <2>1. asked(s) \subseteq asked(r) /\ due(tt) = due(ts)
    BY <1>2, <1>5
  <2> QED
    BY <1>3, <1>4, <2>1 DEF AnswersInv, tt
<1>6. CASE new # {}
  <2>1. e.kind = "token" /\ e.closes >= r.closes /\ new = {n}
    BY <1>6
  <2>2. PICK a \in r.asked : e.closes = a.closes /\ s.asked = r.asked \ {a}
    BY <2>1
  <2>3. a \in asked(r)
    BY <2>1, <2>2
  <2>4. asked(s) = {} /\ due(ts) = {} /\ r.state = "Starting"
    BY <1>3, <2>2, <2>3
  <2>5. due(tt) = {n}
    BY <1>2, <2>1, <2>4
  <2> QED
    BY <1>4, <2>4, <2>5 DEF AnswersInv, tt
<1> QED
  BY <1>5, <1>6

LEMMA AnswersTail ==
  ASSUME NEW ts \in Seq(Task), ts # <<>>, NEW r, r.closes \in Nat, AnswersInv(r, ts)
  PROVE  /\ AnswersInv(r, Tail(ts))
         /\ Head(ts).kind = "token" /\ Head(ts).closes = r.closes =>
              \A s : s.closes = r.closes /\ s.asked = r.asked => AnswersInv(s, Tail(ts))
<1> DEFINE tt == Tail(ts)
           due(x) == {k \in DOMAIN x : x[k].kind = "token" /\ x[k].closes >= r.closes}
           asked == {a \in r.asked : a.closes >= r.closes}
<1>1. /\ Len(ts) \in Nat /\ DOMAIN tt = 1..(Len(ts) - 1) /\ DOMAIN ts = 1..Len(ts)
      /\ Len(ts) > 0 /\ Head(ts) = ts[1] /\ \A i \in 1..(Len(ts) - 1) : tt[i] = ts[i + 1]
  BY HeadTailProperties, SeqBasics
<1> HIDE DEF tt
<1>2. \A k \in due(tt) : k \in 1..(Len(ts) - 1) /\ k + 1 \in due(ts) /\ tt[k] = ts[k + 1]
  BY <1>1
<1>3. /\ \A k \in due(ts) : ts[k].closes = r.closes
      /\ \A a \in asked : a.closes = r.closes
      /\ r.state # "Starting" => due(ts) = {} /\ asked = {}
      /\ \A k, l \in due(ts) : k = l
      /\ \A a, b \in asked : a = b
      /\ due(ts) = {} \/ asked = {}
  BY DEF AnswersInv
<1>4. /\ \A k \in due(tt) : tt[k].closes = r.closes
      /\ due(ts) = {} => due(tt) = {}
  BY <1>2, <1>3
<1>5. \A k, l \in due(tt) : k = l
  <2> SUFFICES ASSUME NEW k \in due(tt), NEW l \in due(tt) PROVE k = l
    OBVIOUS
  <2>1. k + 1 = l + 1 /\ k \in Nat /\ l \in Nat
    BY <1>1, <1>2, <1>3
  <2> QED
    BY <2>1
<1>6. AnswersInv(r, tt)
  BY <1>3, <1>4, <1>5 DEF AnswersInv
<1>7. ASSUME Head(ts).kind = "token", Head(ts).closes = r.closes,
             NEW s, s.closes = r.closes, s.asked = r.asked
      PROVE  AnswersInv(s, tt)
  <2>1. 1 \in due(ts)
    BY <1>1, <1>7
  <2>2. due(tt) = {}
    BY <1>1, <1>2, <1>3, <2>1
  <2>3. asked = {}
    BY <1>3, <2>1
  <2> QED
    BY <1>7, <2>2, <2>3 DEF AnswersInv
<1> QED
  BY <1>6, <1>7 DEF tt

-----------------------------------------------------------------------------
(* The initial state, and what steps have in common *)

LEMMA RemoteMono ==
  ASSUME NEW u, NEW S, NEW T, S \subseteq T, NEW r, RemoteInv(r, u, S)
  PROVE  RemoteInv(r, u, T)
<1>1. r \in Remote(S)
  BY DEF RemoteInv
<1>2. Seq(S) \subseteq Seq(T) /\ Seq(S \cup {Handshake}) \subseteq Seq(T \cup {Handshake})
  OBVIOUS
<1>3. r \in Remote(T)
  BY <1>1, <1>2 DEF Remote
<1> QED
  BY <1>3 DEF RemoteInv

LEMMA BatchBasics ==
  /\ Handshake \notin Batch
  /\ \A u, by : Of(u, by) \subseteq Batch
BY PipelineAssumption DEF Handshake, Batch, Write, Of

\* A stream that has never been started fits any account.
LEMMA ClosedInv ==
  ASSUME NEW u, NEW S, NEW ts, \A k \in DOMAIN ts : ts[k].kind # "token"
  PROVE  RemoteInv(Closed, u, S) /\ AskedInv(Closed.asked) /\ AnswersInv(Closed, ts)
         /\ Closed.closes = 0
<1>1. Closed \in Remote(S)
  BY DEF Closed, Remote
<1>2. RemoteInv(Closed, u, S)
  BY <1>1, PipelineAssumption DEF RemoteInv, Closed
<1> QED
  BY <1>2 DEF AskedInv, AnswersInv, Closed

\* From what an action leaves of the state, the invariant after it.
LEMMA Collect ==
  ASSUME auth' \in User, tokenCounter' \in Nat, tasks' \in Seq(Task), user' \in User,
         nextId' \in Nat, callbacks' \in [User -> SUBSET Batch],
         log' \in Seq([w : Write, as : User]),
         issuer' \in Seq(User), Len(issuer') <= MaxWrites,
         ends' \subseteq [w : Write, ok : BOOLEAN, told : SUBSET Write],
         refused' \subseteq Write, lost' \subseteq Write,
         failures' \in Nat, restarts' \in Nat, Upsets' <= MaxUpsets,
         queue' \in [User -> Seq(Batch)],
         \A u \in User : queue'[u] \in Seq(Of(u, issuer')),
         RemoteInv(remote', user', Of(user', issuer')),
         AskedInv(remote.asked)', AnswersInv(remote', tasks'),
         TasksInv(tasks', user', issuer'), UserAt(tasks', user', Len(tasks') + 1, auth'),
         \A i \in DOMAIN log' : log'[i].w \in DOMAIN issuer' /\ log'[i].as = issuer'[log'[i].w]
  PROVE  IInv'
<1>1. RemoteInv(remote', user', Batch)
  BY BatchBasics, RemoteMono
<1>2. remote' \in Remote(Batch) /\ Len(remote'.pipeline) <= MaxPendingWrites
  BY <1>1 DEF RemoteInv
<1>3. TypeOK'
  BY <1>2 DEF TypeOK
<1> QED
  BY <1>3 DEF IInv, RightAccount

LEMMA InitIInv == Init => IInv
<1> SUFFICES ASSUME Init PROVE IInv
  OBVIOUS
<1>1. RemoteInv(remote, user, Of(user, issuer)) /\ AskedInv(remote.asked)
      /\ AnswersInv(remote, tasks)
  BY ClosedInv DEF Init
<1>2. RemoteInv(remote, user, Batch)
  BY <1>1, BatchBasics, RemoteMono
<1>3. remote \in Remote(Batch) /\ Len(remote.pipeline) <= MaxPendingWrites
  BY <1>2 DEF RemoteInv
<1>4. Upsets <= MaxUpsets
  BY PipelineAssumption DEF Init, Upsets
<1>5. TypeOK
  BY <1>3, <1>4, PipelineAssumption DEF Init, TypeOK
<1>6. \A u \in User : queue[u] \in Seq(Of(u, issuer))
  BY DEF Init
<1>7. TasksInv(tasks, user, issuer) /\ UserAt(tasks, user, Len(tasks) + 1, auth)
  BY DEF Init, TasksInv, UserAt, NoneOf
<1>8. RightAccount /\ \A i \in DOMAIN log : log[i].w \in DOMAIN issuer
  BY DEF Init, RightAccount
<1> QED
  BY <1>1, <1>5, <1>6, <1>7, <1>8 DEF IInv

LEMMA RemoteStep ==
  ASSUME IInv, RemoteOnly, RemoteInv(remote', user, Of(user, issuer)),
         AskedInv(remote'.asked), AnswersInv(remote', tasks)
  PROVE  IInv'
<1>1. /\ auth' = auth /\ tokenCounter' = tokenCounter /\ tasks' = tasks /\ user' = user
      /\ nextId' = nextId /\ callbacks' = callbacks /\ log' = log /\ issuer' = issuer
      /\ ends' = ends /\ refused' = refused /\ lost' = lost /\ queue' = queue
      /\ failures' = failures /\ restarts' = restarts
  BY DEF RemoteOnly, authVars, storeVars, history
<1>2. Upsets' = Upsets
  BY <1>1 DEF Upsets
<1>3. AskedInv(remote.asked)'
  BY <1>1 DEF AskedInv
<1> QED
  BY <1>1, <1>2, <1>3, Collect DEF IInv, TypeOK, RightAccount

\* A batch that leaves takes only itself out of the queue of the account.
LEMMA CompleteStep ==
  ASSUME IInv, NEW b \in Of(user, issuer), NEW ok \in BOOLEAN, Complete(b, ok),
         UNCHANGED <<authVars, tasks, user, nextId, log, refused, history>>,
         RemoteInv(remote', user, Of(user, issuer)),
         AskedInv(remote'.asked), AnswersInv(remote', tasks)
  PROVE  IInv'
<1>1. /\ auth' = auth /\ tokenCounter' = tokenCounter /\ tasks' = tasks /\ user' = user
      /\ nextId' = nextId /\ log' = log /\ issuer' = issuer
      /\ refused' = refused /\ lost' = lost
      /\ failures' = failures /\ restarts' = restarts
  BY DEF authVars, history
<1>2. Upsets' = Upsets
  BY <1>1 DEF Upsets
<1>3. AskedInv(remote.asked)'
  BY <1>1 DEF AskedInv
<1> DEFINE mine == {c \in callbacks[user] : c.id = b.id}
           q == Without(queue[user], b)
           e == [w |-> b.w, ok |-> ok, told |-> {c.w : c \in mine}]
<1>4. /\ callbacks' = [callbacks EXCEPT ![user] = @ \ mine]
      /\ queue' = [queue EXCEPT ![user] = q]
      /\ ends' = ends \cup {e}
  BY DEF Complete
<1>5. /\ user \in User /\ callbacks \in [User -> SUBSET Batch]
      /\ queue \in [User -> Seq(Batch)] /\ queue[user] \in Seq(Of(user, issuer))
      /\ b \in Batch
  BY BatchBasics DEF IInv, TypeOK
<1>6. q \in Seq(Of(user, issuer)) /\ q \in Seq(Batch)
  BY <1>5, WithoutType
<1>7. e \in [w : Write, ok : BOOLEAN, told : SUBSET Write]
  BY <1>5 DEF Batch
<1> HIDE DEF mine, q, e
<1>8. /\ callbacks' \in [User -> SUBSET Batch]
      /\ queue' \in [User -> Seq(Batch)]
      /\ \A u \in User : queue'[u] = IF u = user THEN q ELSE queue[u]
  BY <1>4, <1>5, <1>6
<1>9. \A u \in User : queue'[u] \in Seq(Of(u, issuer))
  BY <1>6, <1>8 DEF IInv
<1> QED
  BY <1>1, <1>2, <1>3, <1>4, <1>7, <1>8, <1>9, Collect DEF IInv, TypeOK, RightAccount

-----------------------------------------------------------------------------
(* The write stream *)

\* What the invariant says of the stream, with the types its steps need.
LEMMA StreamFacts ==
  ASSUME IInv
  PROVE  /\ RemoteInv(remote, user, Of(user, issuer))
         /\ remote \in Remote(Of(user, issuer)) /\ remote.closes \in Nat
         /\ remote.asked \subseteq [closes : Nat, counter : Nat, user : User]
         /\ AskedInv(remote.asked) /\ AnswersInv(remote, tasks)
         /\ auth \in User /\ tokenCounter \in Nat /\ tasks \in Seq(Task) /\ user \in User
         /\ queue[user] \in Seq(Of(user, issuer))
<1>1. RemoteInv(remote, user, Of(user, issuer)) /\ user \in User
  BY DEF IInv, TypeOK
<1>2. remote \in Remote(Of(user, issuer))
  BY <1>1 DEF RemoteInv
<1>3. /\ remote.closes \in Nat
      /\ remote.asked \subseteq [closes : Nat, counter : Nat, user : User]
  BY <1>2 DEF Remote
<1> QED
  BY <1>1, <1>2, <1>3 DEF IInv, TypeOK

LEMMA CloseSound ==
  ASSUME IInv, NEW graceful \in BOOLEAN, NEW v
  PROVE  LET c == Close(remote, graceful)
         IN  /\ RemoteInv(c, v, Of(user, issuer)) /\ AskedInv(c.asked)
             /\ AnswersInv(c, tasks) /\ c.closes \in Nat
             /\ c.pipeline = remote.pipeline
             /\ c.state = IF graceful THEN "Initial" ELSE "Error"
<1> DEFINE c == Close(remote, graceful)
<1>1. /\ RemoteInv(c, v, Of(user, issuer)) /\ c.asked = remote.asked
      /\ c.closes = remote.closes + 1 /\ c.pipeline = remote.pipeline
      /\ c.state = IF graceful THEN "Initial" ELSE "Error"
  BY StreamFacts, CloseKeeps
<1> HIDE DEF c
<1>2. AnswersInv(c, tasks) /\ c.closes \in Nat
  BY <1>1, StreamFacts, CloseAnswers
<1> QED
  BY <1>1, <1>2, StreamFacts DEF c

LEMMA StopSound ==
  ASSUME IInv, NEW v
  PROVE  /\ RemoteInv(Stop(remote), v, Of(user, issuer)) /\ AskedInv(Stop(remote).asked)
         /\ AnswersInv(Stop(remote), tasks) /\ Stop(remote).closes \in Nat
         /\ Stop(remote).state \in {"Initial", "Error"}
<1> DEFINE c == Stop(remote)
<1>1. /\ RemoteInv(c, v, Of(user, issuer)) /\ c.asked = remote.asked
      /\ c.state \in {"Initial", "Error"}
      /\ \/ c.closes = remote.closes + 1
         \/ c.closes = remote.closes /\ c.state = remote.state
  BY StreamFacts, StopKeeps
<1> HIDE DEF c
<1>2. AnswersInv(c, tasks) /\ c.closes \in Nat
  <2>1. CASE c.closes = remote.closes + 1
    BY <1>1, <2>1, StreamFacts, CloseAnswers
  <2>2. CASE c.closes = remote.closes /\ c.state = remote.state
    BY <1>1, <2>2, StreamFacts DEF AnswersInv
  <2> QED
    BY <1>1, <2>1, <2>2
<1> QED
  BY <1>1, <1>2, StreamFacts DEF c

LEMMA BackoffElapsesKeeps ==
  ASSUME IInv, BackoffElapses
  PROVE  IInv'
<1> DEFINE s == [remote EXCEPT !.state = "Initial"]
<1>1. remote.state = "Backoff" /\ remote' = Start(s) /\ RemoteOnly
  BY DEF BackoffElapses
<1>2. /\ s \in Remote(Of(user, issuer)) /\ s.state = "Initial"
      /\ s.pipeline = remote.pipeline /\ s.asked = remote.asked
      /\ s.closes = remote.closes /\ s.in = remote.in /\ s.out = remote.out
      /\ s.status = remote.status /\ s.handshake = remote.handshake /\ s.idle = remote.idle
  BY StreamFacts DEF Remote
<1> HIDE DEF s
<1>3. RemoteInv(s, user, Of(user, issuer)) /\ s.pipeline # <<>>
  <2>1. /\ Len(remote.pipeline) > 0 /\ Len(remote.pipeline) <= MaxPendingWrites
        /\ remote.in = <<>> /\ remote.out = <<>> /\ remote.status = "None"
        /\ ~remote.handshake /\ ~remote.idle
    BY <1>1, StreamFacts DEF RemoteInv
  <2>2. RemoteInv(s, user, Of(user, issuer))
    BY <1>2, <2>1 DEF RemoteInv
  <2> QED
    BY <1>2, <2>1, <2>2
<1>4. AnswersInv(s, tasks)
  BY <1>1, <1>2, StreamFacts DEF AnswersInv
<1>5. RemoteInv(Start(s), user, Of(user, issuer)) /\ Follows(Start(s), s)
  BY <1>2, <1>3, StreamFacts, StartKeeps
<1>6. AskedInv(Start(s).asked) /\ AnswersInv(Start(s), tasks)
  BY <1>2, <1>4, <1>5, StreamFacts, FollowsKeeps
<1> QED
  BY <1>1, <1>5, <1>6, RemoteStep

LEMMA IdleTimerFiresKeeps ==
  ASSUME IInv, IdleTimerFires
  PROVE  IInv'
BY StopSound, RemoteStep DEF IdleTimerFires

LEMMA StreamFailsKeeps ==
  ASSUME IInv, StreamFails
  PROVE  IInv'
<1> DEFINE c == Close(remote, FALSE)
<1>1. remote' = StartIfNeeded(c) /\ RemoteOnly
  BY DEF StreamFails
<1>2. /\ RemoteInv(c, user, Of(user, issuer)) /\ AskedInv(c.asked)
      /\ AnswersInv(c, tasks) /\ c.closes \in Nat
  BY CloseSound
<1> HIDE DEF c
<1>3. RemoteInv(StartIfNeeded(c), user, Of(user, issuer)) /\ Follows(StartIfNeeded(c), c)
  BY <1>2, StreamFacts, StartIfNeededKeeps
<1>4. AskedInv(StartIfNeeded(c).asked) /\ AnswersInv(StartIfNeeded(c), tasks)
  BY <1>2, <1>3, StreamFacts, FollowsKeeps
<1> QED
  BY <1>1, <1>3, <1>4, RemoteStep

\* The whole pipeline is sent once the handshake has been answered.
LEMMA ReadHandshakeKeeps ==
  ASSUME IInv, ReadHandshake
  PROVE  IInv'
<1> DEFINE S == Of(user, issuer)
           p == remote.pipeline
           o == remote.out \o p
           s == [remote EXCEPT !.handshake = TRUE, !.in = <<>>, !.out = o, !.idle = FALSE]
<1>1. remote.in # <<>> /\ ~remote.handshake /\ RemoteOnly
  BY DEF ReadHandshake
<1>2. /\ remote \in Remote(S) /\ p \in Seq(S) /\ remote.out \in Seq(S \cup {Handshake})
      /\ p \in Seq(S \cup {Handshake})
  BY StreamFacts DEF Remote
<1>3. /\ remote.state = "Open" /\ Len(p) > 0 /\ remote.in = <<Handshake>>
      /\ remote.status = "None" => remote.out = <<>>
      /\ Len(p) <= MaxPendingWrites /\ remote.caller = user
  BY <1>1, StreamFacts DEF RemoteInv
<1>4. p # <<>> /\ Tail(remote.in) = <<>>
  BY <1>3
<1>5. o \in Seq(S \cup {Handshake})
  BY <1>2, ConcatProperties
<1>6. remote.status = "None" => <<>> \o o = p
  <2> SUFFICES ASSUME remote.status = "None" PROVE <<>> \o o = p
    OBVIOUS
  <2>1. o = <<>> \o p
    BY <1>3
  <2>2. <<>> \o p = p
    BY <1>2, ConcatEmptySeq
  <2> QED
    BY <2>1, <2>2, Zenon
<1>7. remote' = s
  BY <1>2, <1>4 DEF ReadHandshake, Send, Remote
<1> HIDE DEF o, S
<1>8. /\ s \in Remote(S) /\ s.state = "Open" /\ s.handshake /\ s.in = <<>> /\ s.out = o
      /\ s.pipeline = p /\ ~s.idle /\ s.caller = user /\ s.status = remote.status
      /\ s.closes = remote.closes /\ s.asked = remote.asked
  <2>1. /\ s.handshake = TRUE /\ s.in = <<>> /\ s.out = o /\ s.idle = FALSE
        /\ s.pipeline = p /\ s.state = remote.state /\ s.caller = remote.caller
        /\ s.status = remote.status /\ s.closes = remote.closes /\ s.asked = remote.asked
    BY <1>2 DEF Remote
  <2>2. <<>> \in Seq(S \cup {Handshake})
    OBVIOUS
  <2>3. s \in Remote(S)
    BY <1>2, <1>5, <2>2 DEF Remote
  <2> QED
    BY <1>3, <2>1, <2>3
<1> HIDE DEF s, p
<1>9. RemoteInv(s, user, S)
  BY <1>3, <1>6, <1>8 DEF RemoteInv
<1>10. AskedInv(s.asked) /\ AnswersInv(s, tasks)
  BY <1>3, <1>8, StreamFacts DEF AnswersInv
<1> QED
  BY <1>1, <1>7, <1>9, <1>10, RemoteStep DEF S

\* An acknowledgement takes the front off the pipeline and off what has been
\* answered.
LEMMA ReadResultKeeps ==
  ASSUME IInv, ReadResult
  PROVE  IInv'
<1> DEFINE S == Of(user, issuer)
           T == S \cup {Handshake}
           p == remote.pipeline
           b == Head(p)
           tin == Tail(remote.in)
           tp == Tail(p)
           s == [remote EXCEPT !.in = tin, !.pipeline = tp]
           f == FillWritePipeline(s, queue'[user])
<1>1. /\ remote.in # <<>> /\ remote.handshake /\ Complete(b, TRUE) /\ remote' = f
      /\ UNCHANGED <<authVars, tasks, user, nextId, log, refused, history>>
  BY DEF ReadResult
<1>2. /\ remote \in Remote(S) /\ p \in Seq(S) /\ remote.out \in Seq(T)
      /\ remote.in \in Seq(T) /\ p \in Seq(T)
  BY StreamFacts DEF Remote
<1>3. /\ remote.state = "Open" /\ Len(p) <= MaxPendingWrites /\ remote.caller = user
      /\ Len(remote.in) <= Len(p) /\ \A i \in 1..Len(remote.in) : remote.in[i] = p[i]
      /\ remote.status = "None" => remote.in \o remote.out = p
      /\ remote.idle => Len(p) = 0
  BY <1>1, StreamFacts DEF RemoteInv
<1>4. /\ tin \in Seq(T) /\ Len(tin) = Len(remote.in) - 1 /\ Len(remote.in) \in Nat \ {0}
      /\ \A i \in 1..Len(tin) : tin[i] = remote.in[i + 1]
  BY <1>1, <1>2, HeadTailProperties, SeqBasics
<1>5. Len(p) \in Nat \ {0} /\ p # <<>>
  BY <1>2, <1>3, <1>4, SeqBasics
<1>6. /\ b \in S /\ tp \in Seq(S) /\ Len(tp) = Len(p) - 1
      /\ \A i \in 1..Len(tp) : tp[i] = p[i + 1]
  BY <1>2, <1>5, HeadTailProperties
<1>7. remote.status = "None" => tin \o remote.out = tp
  <2>1. tin \o remote.out = Tail(remote.in \o remote.out)
    BY <1>1, <1>2, TailConcat
  <2> QED
    BY <1>3, <2>1, Zenon
<1> HIDE DEF S, tin, tp
<1>8. /\ s \in Remote(S) /\ s.in = tin /\ s.pipeline = tp /\ s.out = remote.out
      /\ s.state = remote.state /\ s.handshake = remote.handshake /\ s.idle = remote.idle
      /\ s.caller = remote.caller /\ s.status = remote.status
      /\ s.asked = remote.asked /\ s.closes = remote.closes
  BY <1>2, <1>4, <1>6 DEF Remote
<1>9. RemoteInv(s, user, S)
  <2>1. /\ s.state = "Open" /\ s.caller = user /\ ~s.idle /\ s.handshake
        /\ Len(s.pipeline) <= MaxPendingWrites
    <3>1. ~remote.idle
      BY <1>3, <1>5
    <3>2. Len(tp) <= MaxPendingWrites
      BY <1>3, <1>5, <1>6, PipelineAssumption
    <3> HIDE DEF s
    <3> QED
      BY <1>1, <1>3, <1>8, <3>1, <3>2
  <2>2. Len(s.in) <= Len(s.pipeline)
    BY <1>3, <1>4, <1>5, <1>6, <1>8
  <2>3. ASSUME NEW i \in 1..Len(s.in) PROVE s.in[i] = s.pipeline[i]
    <3>1. i \in 1..Len(tin) /\ i \in 1..Len(tp) /\ i + 1 \in 1..Len(remote.in)
      BY <1>3, <1>4, <1>5, <1>6, <1>8
    <3>2. tin[i] = remote.in[i + 1] /\ tp[i] = p[i + 1] /\ remote.in[i + 1] = p[i + 1]
      BY <1>3, <1>4, <1>6, <3>1
    <3> QED
      BY <1>8, <3>2
  <2>4. s.status = "None" => s.in \o s.out = s.pipeline
    BY <1>7, <1>8
  <2> HIDE DEF s
  <2> QED
    BY <1>8, <2>1, <2>2, <2>3, <2>4 DEF RemoteInv
<1>10. AskedInv(s.asked) /\ AnswersInv(s, tasks) /\ s.closes \in Nat
  BY <1>8, StreamFacts DEF AnswersInv
<1> HIDE DEF s, p, b
<1>11. queue'[user] \in Seq(S)
  <2>1. queue'[user] = Without(queue[user], b)
    BY <1>1 DEF Complete, IInv, TypeOK
  <2> QED
    BY <2>1, StreamFacts, WithoutType DEF S
<1>12. RemoteInv(f, user, S) /\ Follows(f, s)
  BY <1>9, <1>11, StreamFacts, FillKeeps
<1>13. AskedInv(f.asked) /\ AnswersInv(f, tasks)
  BY <1>10, <1>12, StreamFacts, FollowsKeeps
<1> HIDE DEF f
<1> QED
  BY <1>1, <1>6, <1>12, <1>13, CompleteStep DEF S

LEMMA WriteRejectedKeeps ==
  ASSUME IInv, WriteRejected
  PROVE  IInv'
<1> DEFINE S == Of(user, issuer)
           b == Head(remote.pipeline)
           c == Close(remote, FALSE)
           tp == Tail(c.pipeline)
           s == [c EXCEPT !.state = "Initial", !.pipeline = tp]
           f == FillWritePipeline(s, queue'[user])
<1>1. /\ remote.pipeline # <<>> /\ Complete(b, FALSE) /\ remote' = f
      /\ UNCHANGED <<authVars, tasks, user, nextId, log, refused, history>>
  BY DEF WriteRejected, FrontToBlame
<1>2. /\ RemoteInv(c, user, S) /\ AskedInv(c.asked) /\ AnswersInv(c, tasks)
      /\ c.closes \in Nat /\ c.pipeline = remote.pipeline /\ c.state = "Error"
  BY CloseSound
<1> HIDE DEF c, S
<1>3. c \in Remote(S) /\ Len(c.pipeline) <= MaxPendingWrites
  BY <1>2 DEF RemoteInv
<1>4. c.pipeline \in Seq(S)
  BY <1>3 DEF Remote
<1>5. /\ b \in S /\ tp \in Seq(S) /\ Len(tp) = Len(c.pipeline) - 1
      /\ Len(c.pipeline) \in Nat
  BY <1>1, <1>2, <1>4, HeadTailProperties, SeqBasics
<1> HIDE DEF tp
<1>6. /\ s \in Remote(S) /\ s.state = "Initial" /\ s.pipeline = tp /\ s.in = c.in
      /\ s.out = c.out /\ s.status = c.status /\ s.handshake = c.handshake
      /\ s.idle = c.idle /\ s.asked = c.asked /\ s.closes = c.closes
  BY <1>3, <1>5 DEF Remote
<1>7. RemoteInv(s, user, S)
  <2>1. /\ c.in = <<>> /\ c.out = <<>> /\ c.status = "None" /\ ~c.handshake /\ ~c.idle
    BY <1>2 DEF RemoteInv
  <2>2. Len(tp) <= MaxPendingWrites
    BY <1>3, <1>5, PipelineAssumption
  <2> HIDE DEF s
  <2> QED
    BY <1>6, <2>1, <2>2 DEF RemoteInv
<1>8. AnswersInv(s, tasks)
  BY <1>2, <1>6 DEF AnswersInv
<1> HIDE DEF s, b
<1>9. queue'[user] \in Seq(S)
  <2>1. queue'[user] = Without(queue[user], b)
    BY <1>1 DEF Complete, IInv, TypeOK
  <2> QED
    BY <2>1, StreamFacts, WithoutType DEF S
<1>10. RemoteInv(f, user, S) /\ Follows(f, s)
  BY <1>7, <1>9, StreamFacts, FillKeeps
<1>11. AskedInv(f.asked) /\ AnswersInv(f, tasks)
  BY <1>2, <1>6, <1>8, <1>10, StreamFacts, FollowsKeeps
<1> HIDE DEF f
<1> QED
  BY <1>1, <1>5, <1>10, <1>11, CompleteStep DEF S

-----------------------------------------------------------------------------
(* gRPC and the backend *)

\* What arrives at the backend is the handshake first, then batches of the
\* account the call was opened for.
LEMMA ArrivedFacts ==
  ASSUME IInv, Arrived
  PROVE  /\ remote.state = "Open" /\ remote.caller = user /\ Len(remote.pipeline) <= MaxPendingWrites
         /\ remote.handshake =>
              /\ Head(remote.out) \in Of(user, issuer)
              /\ remote.in \o remote.out = remote.pipeline
         /\ ~remote.handshake =>
              /\ Len(remote.pipeline) > 0
              /\ remote.in = <<>> /\ remote.out = <<Handshake>>
         /\ remote.idle => Len(remote.pipeline) = 0
<1> DEFINE S == Of(user, issuer)
           T == S \cup {Handshake}
<1>1. remote.status = "None" /\ remote.out # <<>> /\ remote \in Remote(S)
  BY StreamFacts DEF Arrived
<1>2. /\ remote.pipeline \in Seq(S) /\ remote.in \in Seq(T) /\ remote.out \in Seq(T)
  BY <1>1 DEF Remote
<1>3. remote.state = "Open"
  BY <1>1, StreamFacts DEF RemoteInv
<1>4. /\ remote.caller = user /\ Len(remote.pipeline) <= MaxPendingWrites
      /\ remote.idle => Len(remote.pipeline) = 0
      /\ remote.handshake => remote.in \o remote.out = remote.pipeline
      /\ ~remote.handshake =>
              /\ Len(remote.pipeline) > 0
              /\ remote.in = <<>> /\ remote.out = <<Handshake>>
  BY <1>1, <1>3, StreamFacts DEF RemoteInv
<1>5. remote.handshake => Head(remote.out) \in S
  <2> SUFFICES ASSUME remote.handshake PROVE Head(remote.out) \in S
    OBVIOUS
  <2>1. remote.in \o remote.out \in Seq(S)
    BY <1>2, <1>4, Zenon
  <2> HIDE DEF S, T
  <2> QED
    BY <1>1, <1>2, <2>1, SecondPart
<1> QED
  BY <1>3, <1>4, <1>5

LEMMA ServeKeeps ==
  ASSUME IInv, Serve
  PROVE  IInv'
<1> DEFINE S == Of(user, issuer)
           T == S \cup {Handshake}
           h == Head(remote.out)
           i == Append(remote.in, h)
           o == Tail(remote.out)
           s == [remote EXCEPT !.out = o, !.in = i]
<1>1. /\ Arrived /\ remote' = s
      /\ log' = IF h = Handshake THEN log ELSE Append(log, [w |-> h.w, as |-> remote.caller])
      /\ UNCHANGED <<authVars, tasks, storeVars, ends, refused, history>>
  BY DEF Serve
<1>2. /\ remote \in Remote(S) /\ remote.pipeline \in Seq(S) /\ remote.out \in Seq(T)
      /\ remote.in \in Seq(T) /\ remote.out # <<>> /\ remote.status = "None"
  BY <1>1, StreamFacts DEF Remote, Arrived
<1>3. h \in T /\ i \in Seq(T) /\ o \in Seq(T)
  BY <1>2, HeadTailProperties, AppendProperties
<1>4. remote.handshake => i \o o = remote.pipeline
  <2>1. i \o o = remote.in \o remote.out
    BY <1>2, MoveHead
  <2> QED
    BY <1>1, <2>1, ArrivedFacts, Zenon
<1>5. ~remote.handshake => i = <<Handshake>> /\ o = <<>> /\ h = Handshake
  <2> SUFFICES ASSUME ~remote.handshake
               PROVE  i = <<Handshake>> /\ o = <<>> /\ h = Handshake
    OBVIOUS
  <2>1. remote.in = <<>> /\ remote.out = <<Handshake>>
    BY <1>1, ArrivedFacts
  <2>2. h = Handshake /\ o = <<>>
    BY <2>1
  <2>3. Append(<<>>, Handshake) = <<Handshake>>
    OBVIOUS
  <2> QED
    BY <2>1, <2>2, <2>3, Zenon
<1> HIDE DEF i, o
<1>6. /\ s \in Remote(S) /\ s.in = i /\ s.out = o /\ s.pipeline = remote.pipeline
      /\ s.state = remote.state /\ s.handshake = remote.handshake /\ s.idle = remote.idle
      /\ s.caller = remote.caller /\ s.status = remote.status
      /\ s.asked = remote.asked /\ s.closes = remote.closes
  BY <1>2, <1>3 DEF Remote
<1> HIDE DEF s, T
<1>7. /\ s.state = "Open" /\ s.caller = user /\ Len(s.pipeline) <= MaxPendingWrites
      /\ s.idle => Len(s.pipeline) = 0
      /\ ~s.handshake => /\ Len(s.pipeline) > 0 /\ s.in = <<Handshake>> /\ s.out = <<>>
      /\ s.handshake => s.in \o s.out = s.pipeline
  BY <1>1, <1>4, <1>5, <1>6, ArrivedFacts
<1>8. s.handshake => /\ Len(s.in) <= Len(s.pipeline)
                     /\ \A j \in 1..Len(s.in) : s.in[j] = s.pipeline[j]
  <2>1. s.in \in Seq(T) /\ s.out \in Seq(T)
    BY <1>3, <1>6
  <2>2. ASSUME s.handshake
        PROVE  /\ Len(s.in) <= Len(s.pipeline)
               /\ \A j \in 1..Len(s.in) : s.in[j] = s.pipeline[j]
    <3> DEFINE si == s.in
               so == s.out
               sp == s.pipeline
    <3>1. si \in Seq(T) /\ so \in Seq(T) /\ si \o so = sp
      BY <1>7, <2>1, <2>2
    <3> HIDE DEF si, so, sp
    <3>2. Len(si) <= Len(sp) /\ \A j \in 1..Len(si) : si[j] = sp[j]
      BY <3>1, FirstPart
    <3> QED
      BY <3>2 DEF si, sp
  <2> QED
    BY <2>2
<1>9. RemoteInv(s, user, S)
  BY <1>6, <1>7, <1>8 DEF RemoteInv
<1>10. AnswersInv(s, tasks) /\ AskedInv(s.asked)
  BY <1>6, StreamFacts DEF AnswersInv
<1>11. /\ auth' = auth /\ tokenCounter' = tokenCounter /\ tasks' = tasks /\ user' = user
       /\ nextId' = nextId /\ callbacks' = callbacks /\ issuer' = issuer
       /\ ends' = ends /\ refused' = refused /\ lost' = lost /\ queue' = queue
       /\ failures' = failures /\ restarts' = restarts
  BY <1>1 DEF authVars, storeVars, history
<1>12. Upsets' = Upsets /\ AskedInv(remote.asked)'
  BY <1>1, <1>10, <1>11 DEF Upsets, AskedInv
<1>13. /\ log' \in Seq([w : Write, as : User])
       /\ \A k \in DOMAIN log' : log'[k].w \in DOMAIN issuer /\ log'[k].as = issuer[log'[k].w]
  <2>1. /\ log \in Seq([w : Write, as : User])
        /\ \A k \in DOMAIN log : log[k].w \in DOMAIN issuer /\ log[k].as = issuer[log[k].w]
    BY DEF IInv, TypeOK, RightAccount
  <2>2. CASE h = Handshake
    BY <1>1, <2>1, <2>2
  <2>3. CASE h # Handshake
    <3> DEFINE e == [w |-> h.w, as |-> remote.caller]
    <3>1. h \in S
      BY <1>1, <1>5, <2>3, ArrivedFacts
    <3>2. h.w \in Write /\ h.w \in DOMAIN issuer /\ issuer[h.w] = user
      BY <3>1 DEF S, Of, Batch
    <3>3. /\ e \in [w : Write, as : User] /\ e.w \in DOMAIN issuer /\ e.as = issuer[e.w]
      BY <1>1, <3>2, ArrivedFacts, StreamFacts
    <3>4. log' = Append(log, e)
      BY <1>1, <2>3
    <3> HIDE DEF e
    <3> QED
      BY <2>1, <3>3, <3>4, AppendProperties
  <2> QED
    BY <2>2, <2>3
<1> HIDE DEF h
<1> QED
  BY <1>1, <1>9, <1>10, <1>11, <1>12, <1>13, Collect DEF IInv, TypeOK, S

LEMMA RefuseKeeps ==
  ASSUME IInv, Refuse
  PROVE  IInv'
<1> DEFINE S == Of(user, issuer)
           o == Tail(remote.out)
           s == [remote EXCEPT !.out = o, !.status = "Permanent"]
<1>1. /\ Arrived /\ Head(remote.out) # Handshake /\ remote' = s
      /\ refused' = refused \cup {Head(remote.out).w}
      /\ UNCHANGED <<authVars, tasks, storeVars, log, ends, history>>
  BY DEF Refuse
<1>2. remote.handshake
  BY <1>1, ArrivedFacts
<1>3. remote \in Remote(S) /\ remote.out # <<>> /\ o \in Seq(S \cup {Handshake})
  BY <1>1, StreamFacts, HeadTailProperties DEF Remote, Arrived
<1> HIDE DEF o
<1>4. /\ s \in Remote(S) /\ s.in = remote.in /\ s.pipeline = remote.pipeline
      /\ s.state = remote.state /\ s.handshake = remote.handshake /\ s.idle = remote.idle
      /\ s.caller = remote.caller /\ s.status = "Permanent"
      /\ s.asked = remote.asked /\ s.closes = remote.closes
  BY <1>3 DEF Remote
<1> HIDE DEF s
<1>5. RemoteInv(s, user, S)
  BY <1>1, <1>2, <1>4, ArrivedFacts, StreamFacts DEF RemoteInv
<1>6. AnswersInv(s, tasks) /\ AskedInv(s.asked)
  BY <1>4, StreamFacts DEF AnswersInv
<1>7. Head(remote.out).w \in Write
  BY <1>1, <1>2, ArrivedFacts DEF Of, Batch
<1>8. /\ auth' = auth /\ tokenCounter' = tokenCounter /\ tasks' = tasks /\ user' = user
      /\ nextId' = nextId /\ callbacks' = callbacks /\ log' = log /\ issuer' = issuer
      /\ ends' = ends /\ lost' = lost /\ queue' = queue
      /\ failures' = failures /\ restarts' = restarts
  BY <1>1 DEF authVars, storeVars, history
<1>9. Upsets' = Upsets /\ AskedInv(remote.asked)'
  BY <1>1, <1>6, <1>8 DEF Upsets, AskedInv
<1> QED
  BY <1>1, <1>5, <1>6, <1>7, <1>8, <1>9, Collect DEF IInv, TypeOK, RightAccount, S

LEMMA CallBreaksKeeps ==
  ASSUME IInv, CallBreaks
  PROVE  IInv'
<1> DEFINE S == Of(user, issuer)
           r == remote'
<1>1. /\ remote.state = "Open" /\ remote.status = "None"
      /\ Upsets < MaxUpsets /\ failures' = failures + 1
      /\ UNCHANGED <<authVars, tasks, storeVars, log, ends, refused, issuer, lost, restarts>>
  BY DEF CallBreaks
<1>2. remote \in Remote(S)
  BY StreamFacts
<1>3. /\ r \in Remote(S) /\ r.in = remote.in /\ r.pipeline = remote.pipeline
      /\ r.state = remote.state /\ r.handshake = remote.handshake /\ r.idle = remote.idle
      /\ r.caller = remote.caller /\ r.status # "None"
      /\ r.asked = remote.asked /\ r.closes = remote.closes
  <2>1. CASE r = [remote EXCEPT !.status = "Transient"]
    BY <1>2, <2>1 DEF Remote
  <2>2. CASE /\ remote.out # <<>>
             /\ r = [remote EXCEPT !.out = Tail(@), !.status = "Permanent"]
    <3> DEFINE o == Tail(remote.out)
    <3>1. o \in Seq(S \cup {Handshake})
      BY <1>2, <2>2, HeadTailProperties DEF Remote
    <3> HIDE DEF o
    <3>2. r = [remote EXCEPT !.out = o, !.status = "Permanent"]
      BY <2>2 DEF o
    <3> QED
      BY <1>2, <3>1, <3>2 DEF Remote
  <2> QED
    BY <2>1, <2>2 DEF CallBreaks
<1> HIDE DEF r
<1>4. RemoteInv(r, user, S)
  BY <1>1, <1>3, StreamFacts DEF RemoteInv
<1>5. AnswersInv(r, tasks) /\ AskedInv(r.asked)
  BY <1>3, StreamFacts DEF AnswersInv
<1>6. /\ auth' = auth /\ tokenCounter' = tokenCounter /\ tasks' = tasks /\ user' = user
      /\ nextId' = nextId /\ callbacks' = callbacks /\ log' = log /\ issuer' = issuer
      /\ ends' = ends /\ lost' = lost /\ queue' = queue /\ refused' = refused
      /\ restarts' = restarts
  BY <1>1 DEF authVars, storeVars
<1>7. failures' \in Nat /\ Upsets' <= MaxUpsets
  <2>1. tokenCounter \in Nat /\ failures \in Nat /\ restarts \in Nat /\ MaxUpsets \in Nat
    BY PipelineAssumption DEF IInv, TypeOK
  <2> QED
    BY <1>1, <1>6, <2>1 DEF Upsets
<1>8. AskedInv(remote.asked)'
  BY <1>5, <1>6 DEF AskedInv, r
<1> QED
  BY <1>4, <1>5, <1>6, <1>7, <1>8, Collect DEF IInv, TypeOK, RightAccount, S, r

-----------------------------------------------------------------------------
(* The app, Firebase Auth, and the end of the process *)

\* A later issuer changes nothing for the writes there are.
LEMMA IssueKeeps ==
  ASSUME IInv, Issue
  PROVE  IInv'
<1> DEFINE by == Append(issuer, auth)
           n == Len(issuer) + 1
           e == [kind |-> "write", w |-> n]
<1>1. /\ Len(issuer) < MaxWrites /\ issuer' = by /\ tasks' = Append(tasks, e)
      /\ UNCHANGED <<authVars, storeVars, remote, log, ends, refused, lost, failures, restarts>>
  BY DEF Issue
<1>2. issuer \in Seq(User) /\ auth \in User /\ tasks \in Seq(Task)
  BY DEF IInv, TypeOK
<1>3. /\ by \in Seq(User) /\ Len(by) = n /\ n \in Nat \ {0} /\ by[n] = auth
      /\ DOMAIN issuer = 1..(n - 1) /\ DOMAIN by = 1..n
      /\ \A w \in DOMAIN issuer : by[w] = issuer[w]
  BY <1>2, AppendProperties, SeqBasics
<1>4. n \in Write /\ n <= MaxWrites
  BY <1>1, <1>2, <1>3, PipelineAssumption DEF Write
<1>5. e \in Task /\ e.kind = "write" /\ e.w = n
  BY <1>4 DEF Task
<1> HIDE DEF by, n, e
<1>6. \A w \in DOMAIN issuer : w \in DOMAIN by /\ by[w] = issuer[w]
  BY <1>3
<1>7. \A u : Of(u, issuer) \subseteq Of(u, by)
  BY <1>6 DEF Of
<1>8. RemoteInv(remote, user, Of(user, by))
  BY <1>7, StreamFacts, RemoteMono
<1>9. TasksInv(tasks, user, by)
  BY <1>6 DEF IInv, TasksInv
<1>10. UserAt(tasks, user, Len(tasks) + 1, auth)
  BY DEF IInv
<1>11. TasksInv(Append(tasks, e), user, by)
  <2>1. n \in DOMAIN by /\ by[n] = auth
    BY <1>3
  <2> QED
    BY <1>2, <1>5, <1>9, <1>10, <2>1, TasksAppend
<1>12. UserAt(Append(tasks, e), user, Len(Append(tasks, e)) + 1, auth)
  BY <1>2, <1>5, <1>10, UserAtAppend
<1>13. AnswersInv(remote, Append(tasks, e))
  BY <1>2, <1>5, StreamFacts, AnswersAppend
<1>14. Append(tasks, e) \in Seq(Task)
  BY <1>2, <1>5, AppendProperties
<1>15. /\ auth' = auth /\ tokenCounter' = tokenCounter /\ remote' = remote /\ user' = user
       /\ nextId' = nextId /\ callbacks' = callbacks /\ log' = log
       /\ ends' = ends /\ lost' = lost /\ queue' = queue /\ refused' = refused
       /\ failures' = failures /\ restarts' = restarts
  BY <1>1 DEF authVars, storeVars
<1>16. Upsets' = Upsets /\ AskedInv(remote.asked)'
  BY <1>15, StreamFacts DEF Upsets, AskedInv
<1>17. \A u \in User : queue[u] \in Seq(Of(u, by))
  <2> SUFFICES ASSUME NEW u \in User PROVE queue[u] \in Seq(Of(u, by))
    OBVIOUS
  <2> DEFINE A == Of(u, issuer)
             B == Of(u, by)
  <2>1. queue[u] \in Seq(A) /\ A \subseteq B
    BY <1>7 DEF IInv
  <2> HIDE DEF A, B
  <2>2. queue[u] \in Seq(B)
    BY <2>1
  <2> QED
    BY <2>2 DEF B
<1>18. \A k \in DOMAIN log : log[k].w \in DOMAIN by /\ log[k].as = by[log[k].w]
  BY <1>6 DEF IInv, RightAccount
<1> QED
  BY <1>1, <1>3, <1>4, <1>8, <1>11, <1>12, <1>13, <1>14, <1>15, <1>16, <1>17, <1>18, Collect
     DEF IInv, TypeOK

LEMMA AuthChangesKeeps ==
  ASSUME IInv, NEW u \in User, AuthChanges(u)
  PROVE  IInv'
<1> DEFINE e == [kind |-> "credential", user |-> u]
           tt == Append(tasks, e)
<1>1. /\ Upsets < MaxUpsets /\ auth' = u /\ tokenCounter' = tokenCounter + 1
      /\ tasks' = tt
      /\ UNCHANGED <<storeVars, remote, log, ends, refused, history>>
  BY DEF AuthChanges
<1>2. e \in Task /\ e.kind = "credential" /\ e.user = u
  BY DEF Task
<1> HIDE DEF e
<1>3. /\ tasks \in Seq(Task) /\ TasksInv(tasks, user, issuer)
      /\ UserAt(tasks, user, Len(tasks) + 1, auth)
  BY DEF IInv, TypeOK
<1>4. tt \in Seq(Task) /\ TasksInv(tt, user, issuer)
  BY <1>2, <1>3, AppendProperties, TasksAppend
<1>5. UserAt(tt, user, Len(tt) + 1, u)
  BY <1>2, <1>3, UserAtAppend
<1>6. AnswersInv(remote, tt)
  BY <1>2, <1>3, StreamFacts, AnswersAppend
<1> HIDE DEF tt
<1>7. /\ remote' = remote /\ user' = user
      /\ nextId' = nextId /\ callbacks' = callbacks /\ log' = log /\ issuer' = issuer
      /\ ends' = ends /\ lost' = lost /\ queue' = queue /\ refused' = refused
      /\ failures' = failures /\ restarts' = restarts
  BY <1>1 DEF storeVars, history
<1>8. tokenCounter' \in Nat /\ Upsets' <= MaxUpsets
  <2>1. tokenCounter \in Nat /\ failures \in Nat /\ restarts \in Nat /\ MaxUpsets \in Nat
    BY PipelineAssumption DEF IInv, TypeOK
  <2> QED
    BY <1>1, <1>7, <2>1 DEF Upsets
<1>9. AskedInv(remote.asked)'
  <2> SUFFICES ASSUME NEW a \in remote.asked
               PROVE  a.counter <= tokenCounter' /\ a.counter # tokenCounter'
    BY <1>7 DEF AskedInv
  <2>1. a \in [closes : Nat, counter : Nat, user : User]
    BY StreamFacts
  <2>2. AskedInv(remote.asked) /\ tokenCounter \in Nat
    BY StreamFacts
  <2>3. a.counter \in Nat /\ a.counter <= tokenCounter
    BY <2>1, <2>2 DEF AskedInv
  <2> QED
    BY <1>1, <2>2, <2>3
<1> QED
  BY <1>1, <1>4, <1>5, <1>6, <1>7, <1>8, <1>9, Collect DEF IInv, TypeOK, RightAccount

Asking(r, A) == [r EXCEPT !.asked = A]

LEMMA AskKeeps ==
  ASSUME NEW u, NEW S, NEW r, RemoteInv(r, u, S),
         NEW A \in SUBSET [closes : Nat, counter : Nat, user : User]
  PROVE  /\ RemoteInv(Asking(r, A), u, S) /\ Asking(r, A).asked = A
         /\ Asking(r, A).closes = r.closes /\ Asking(r, A).state = r.state
<1> DEFINE s == Asking(r, A)
<1>1. r \in Remote(S)
  BY DEF RemoteInv
<1>2. /\ s \in Remote(S) /\ s.in = r.in /\ s.out = r.out /\ s.pipeline = r.pipeline
      /\ s.state = r.state /\ s.handshake = r.handshake /\ s.idle = r.idle
      /\ s.caller = r.caller /\ s.status = r.status /\ s.asked = A /\ s.closes = r.closes
  BY <1>1 DEF Remote, Asking
<1> HIDE DEF s
<1>3. RemoteInv(s, u, S)
  BY <1>2 DEF RemoteInv
<1> QED
  BY <1>2, <1>3 DEF s

\* An answer to a request that no notification has overtaken: the token is for
\* the account at the end of the worker queue.
LEMMA AnswerKeeps ==
  ASSUME IInv, NEW a \in remote.asked, a.counter = tokenCounter, NEW ok \in BOOLEAN,
         tasks' = Append(tasks, [kind |-> "token", closes |-> a.closes,
                                 user |-> a.user, ok |-> ok]),
         remote' = [remote EXCEPT !.asked = @ \ {a}],
         UNCHANGED <<authVars, storeVars, log, ends, refused, issuer, lost, restarts>>,
         failures' \in Nat, Upsets' <= MaxUpsets
  PROVE  IInv'
<1> DEFINE e == [kind |-> "token", closes |-> a.closes, user |-> a.user, ok |-> ok]
           tt == Append(tasks, e)
           A == remote.asked \ {a}
           s == Asking(remote, A)
<1>1. /\ a.closes \in Nat /\ a.user \in User /\ a.user = auth
      /\ A \in SUBSET [closes : Nat, counter : Nat, user : User]
  BY StreamFacts DEF AskedInv
<1>2. e \in Task /\ e.kind = "token" /\ e.closes = a.closes /\ e.user = auth
  BY <1>1 DEF Task
<1> HIDE DEF e
<1>3. /\ tasks \in Seq(Task) /\ TasksInv(tasks, user, issuer)
      /\ UserAt(tasks, user, Len(tasks) + 1, auth)
  BY DEF IInv, TypeOK
<1>4. tt \in Seq(Task) /\ TasksInv(tt, user, issuer)
  BY <1>2, <1>3, AppendProperties, TasksAppend
<1>5. UserAt(tt, user, Len(tt) + 1, auth)
  BY <1>2, <1>3, UserAtAppend
<1>6. /\ RemoteInv(s, user, Of(user, issuer)) /\ s.asked = A /\ s.closes = remote.closes
      /\ s.state = remote.state
  BY <1>1, StreamFacts, AskKeeps
<1> HIDE DEF s
<1>7. AnswersInv(s, tt)
  BY <1>2, <1>3, <1>6, StreamFacts, AnswersAppend
<1>8. tasks' = tt /\ remote' = s
  BY DEF e, s, Asking
<1> HIDE DEF tt
<1>9. /\ auth' = auth /\ tokenCounter' = tokenCounter /\ user' = user
      /\ nextId' = nextId /\ callbacks' = callbacks /\ log' = log /\ issuer' = issuer
      /\ ends' = ends /\ lost' = lost /\ queue' = queue /\ refused' = refused
      /\ restarts' = restarts
  BY DEF authVars, storeVars
<1>10. AskedInv(remote.asked)'
  BY <1>6, <1>8, <1>9, StreamFacts DEF AskedInv
<1> QED
  BY <1>4, <1>5, <1>6, <1>7, <1>8, <1>9, <1>10, Collect DEF IInv, TypeOK, RightAccount

LEMMA TokenAnsweredKeeps ==
  ASSUME IInv, NEW a \in remote.asked, TokenAnswered(a)
  PROVE  IInv'
<1>1. UNCHANGED <<authVars, storeVars, log, ends, refused, history>>
  BY DEF TokenAnswered
<1>2. CASE a.counter = tokenCounter
  <2>1. /\ tasks' = Append(tasks, [kind |-> "token", closes |-> a.closes,
                                   user |-> a.user, ok |-> TRUE])
        /\ remote' = [remote EXCEPT !.asked = @ \ {a}]
    BY <1>2 DEF TokenAnswered
  <2>2. UNCHANGED <<authVars, storeVars, log, ends, refused, issuer, lost, restarts>>
    BY <1>1 DEF history
  <2>3. failures' \in Nat /\ Upsets' <= MaxUpsets
    BY <1>1 DEF IInv, TypeOK, Upsets, history, authVars
  <2> QED
    BY <1>2, <2>1, <2>2, <2>3, AnswerKeeps
<1>3. CASE a.counter # tokenCounter
  <2> DEFINE b == [a EXCEPT !.counter = tokenCounter, !.user = auth]
             A == (remote.asked \ {a}) \cup {b}
             s == Asking(remote, A)
  <2>1. a \in [closes : Nat, counter : Nat, user : User]
    BY StreamFacts
  <2>2. /\ b \in [closes : Nat, counter : Nat, user : User] /\ b.closes = a.closes
        /\ b.counter = tokenCounter /\ b.user = auth
    BY <2>1, StreamFacts
  <2>3. remote' = s /\ tasks' = tasks
    BY <1>3 DEF TokenAnswered, Asking
  <2> HIDE DEF b
  <2>4. A \in SUBSET [closes : Nat, counter : Nat, user : User]
    BY <2>2, StreamFacts
  <2>5. AskedInv(A)
    BY <2>2, StreamFacts DEF AskedInv
  <2>6. /\ RemoteInv(s, user, Of(user, issuer)) /\ s.asked = A
        /\ s.closes = remote.closes /\ s.state = remote.state
    BY <2>4, StreamFacts, AskKeeps
  <2> HIDE DEF s
  <2>7. AnswersInv(s, tasks)
    BY <2>2, <2>6, StreamFacts DEF AnswersInv
  <2> QED
    BY <1>1, <2>3, <2>5, <2>6, <2>7, RemoteStep DEF RemoteOnly
<1> QED
  BY <1>2, <1>3

LEMMA TokenRefusedKeeps ==
  ASSUME IInv, NEW a \in remote.asked, TokenRefused(a)
  PROVE  IInv'
<1>1. /\ a.counter = tokenCounter /\ Upsets < MaxUpsets /\ failures' = failures + 1
      /\ tasks' = Append(tasks, [kind |-> "token", closes |-> a.closes,
                                 user |-> a.user, ok |-> FALSE])
      /\ remote' = [remote EXCEPT !.asked = @ \ {a}]
      /\ UNCHANGED <<authVars, storeVars, log, ends, refused, issuer, lost, restarts>>
  BY DEF TokenRefused
<1>2. tokenCounter \in Nat /\ failures \in Nat /\ restarts \in Nat /\ MaxUpsets \in Nat
  BY PipelineAssumption DEF IInv, TypeOK
<1>3. failures' \in Nat /\ Upsets' <= MaxUpsets
  BY <1>1, <1>2 DEF Upsets, authVars
<1> QED
  BY <1>1, <1>3, AnswerKeeps

\* What is left after a restart is on disk; it is sent in the name of the
\* account that is signed in by then.
LEMMA RestartKeeps ==
  ASSUME IInv, Restart
  PROVE  IInv'
<1> DEFINE f == FillWritePipeline(Closed, queue[auth])
<1>1. /\ Upsets < MaxUpsets /\ restarts' = restarts + 1 /\ tasks' = <<>>
      /\ lost' = lost \cup {t.w : t \in {s \in ToSet(tasks) : s.kind = "write"}}
      /\ user' = auth /\ nextId' = HighestId + 1
      /\ callbacks' = [u \in User |-> {}] /\ remote' = f
      /\ UNCHANGED <<authVars, queue, log, ends, refused, issuer, failures>>
  BY DEF Restart
<1>2. RemoteInv(Closed, auth, Of(auth, issuer)) /\ AskedInv(Closed.asked)
      /\ AnswersInv(Closed, <<>>) /\ Closed.closes = 0
  BY ClosedInv
<1>3. auth \in User /\ queue[auth] \in Seq(Of(auth, issuer)) /\ tokenCounter \in Nat
  BY DEF IInv, TypeOK
<1>4. RemoteInv(f, auth, Of(auth, issuer)) /\ Follows(f, Closed)
  BY <1>2, <1>3, FillKeeps
<1>5. AskedInv(f.asked) /\ AnswersInv(f, <<>>)
  BY <1>2, <1>3, <1>4, FollowsKeeps
<1> HIDE DEF f
<1>6. lost' \subseteq Write
  <2>1. lost \subseteq Write /\ tasks \in Seq(Task)
    BY DEF IInv, TypeOK
  <2>2. ASSUME NEW k \in DOMAIN tasks, tasks[k].kind = "write" PROVE tasks[k].w \in Write
    <3>1. tasks[k] \in Task
      BY <2>1
    <3> QED
      BY <2>2, <3>1 DEF Task
  <2> QED
    BY <1>1, <2>1, <2>2 DEF ToSet
<1>7. HighestId \in Nat
  BY HighestIdType DEF IInv, TypeOK
<1>8. /\ auth' = auth /\ tokenCounter' = tokenCounter
      /\ log' = log /\ issuer' = issuer /\ ends' = ends /\ queue' = queue
      /\ refused' = refused /\ failures' = failures
  BY <1>1 DEF authVars
<1>9. restarts' \in Nat /\ Upsets' <= MaxUpsets
  <2>1. tokenCounter \in Nat /\ failures \in Nat /\ restarts \in Nat /\ MaxUpsets \in Nat
    BY PipelineAssumption DEF IInv, TypeOK
  <2> QED
    BY <1>1, <1>8, <2>1 DEF Upsets
<1>10. AskedInv(remote.asked)'
  BY <1>1, <1>5, <1>8 DEF AskedInv
<1>11. TasksInv(<<>>, auth, issuer) /\ UserAt(<<>>, auth, Len(<<>>) + 1, auth)
  BY DEF TasksInv, UserAt, NoneOf
<1>12. nextId' \in Nat /\ callbacks' \in [User -> SUBSET Batch]
  BY <1>1, <1>7
<1> QED
  BY <1>1, <1>3, <1>4, <1>5, <1>6, <1>8, <1>9, <1>10, <1>11, <1>12, Collect
     DEF IInv, TypeOK, RightAccount

-----------------------------------------------------------------------------
(* Operations of the worker queue *)

\* Those who wait in the queue are for the same accounts when its head has run.
LEMMA RunFacts ==
  ASSUME IInv, tasks # <<>>, NEW t, t = Head(tasks), NEW now, now = After(t, user)
  PROVE  /\ t \in Task /\ Tail(tasks) \in Seq(Task)
         /\ TasksInv(Tail(tasks), now, issuer)
         /\ UserAt(Tail(tasks), now, Len(Tail(tasks)) + 1, auth)
         /\ t.kind = "write" => t.w \in DOMAIN issuer /\ issuer[t.w] = user
         /\ t.kind = "token" => t.user = user
<1>1. /\ tasks \in Seq(Task) /\ TasksInv(tasks, user, issuer)
      /\ UserAt(tasks, user, Len(tasks) + 1, auth)
  BY DEF IInv, TypeOK
<1>2. /\ t \in Task /\ Tail(tasks) \in Seq(Task) /\ Len(Tail(tasks)) = Len(tasks) - 1
      /\ Len(tasks) \in Nat \ {0} /\ t = tasks[1] /\ 1 \in DOMAIN tasks
  BY <1>1, HeadTailProperties, SeqBasics
<1>3. TasksInv(Tail(tasks), now, issuer)
  BY <1>1, TasksTail
<1>4. UserAt(Tail(tasks), now, Len(tasks), auth)
  BY <1>1, <1>2, UserAtTail
<1>5. Len(Tail(tasks)) + 1 = Len(tasks)
  BY <1>2
<1>6. \A u : UserAt(tasks, user, 1, u) => u = user
  BY DEF UserAt
<1> QED
  BY <1>1, <1>2, <1>3, <1>4, <1>5, <1>6 DEF TasksInv

\* A batch is made under the account that issued its write.
LEMMA RunWriteKeeps ==
  ASSUME IInv, RunWrite
  PROVE  IInv'
<1> DEFINE S == Of(user, issuer)
           t == Head(tasks)
           b == [id |-> nextId, w |-> t.w]
           known == {c \in callbacks[user] : c.id = nextId}
           q == Append(queue[user], b)
           f == FillWritePipeline(remote, q)
           tt == Tail(tasks)
<1>1. /\ tasks # <<>> /\ t.kind = "write"
      /\ queue' = [queue EXCEPT ![user] = q]
      /\ callbacks' = [callbacks EXCEPT ![user] = IF known = {} THEN @ \cup {b} ELSE @]
      /\ remote' = f /\ nextId' = nextId + 1 /\ tasks' = tt
      /\ UNCHANGED <<authVars, user, log, ends, refused, history>>
  BY DEF RunWrite, IsNext
<1>2. /\ t \in Task /\ tt \in Seq(Task) /\ TasksInv(tt, user, issuer)
      /\ UserAt(tt, user, Len(tt) + 1, auth)
      /\ t.w \in DOMAIN issuer /\ issuer[t.w] = user
  BY <1>1, RunFacts DEF After
<1>3. t.w \in Write /\ nextId \in Nat
  BY <1>1, <1>2 DEF Task, IInv, TypeOK
<1>4. AnswersInv(remote, tt)
  BY <1>1, StreamFacts, AnswersTail
<1> HIDE DEF t, tt
<1>5. b \in Batch /\ b \in S
  BY <1>2, <1>3 DEF Of, Batch
<1>6. /\ queue \in [User -> Seq(Batch)] /\ callbacks \in [User -> SUBSET Batch]
      /\ user \in User
  BY DEF IInv, TypeOK
<1> HIDE DEF b
<1>7. q \in Seq(Batch) /\ q \in Seq(S)
  BY <1>5, <1>6, StreamFacts, AppendProperties
<1> HIDE DEF q, known
<1>8. RemoteInv(f, user, S) /\ Follows(f, remote)
  BY <1>7, StreamFacts, FillKeeps
<1>9. AskedInv(f.asked) /\ AnswersInv(f, tt)
  BY <1>4, <1>8, StreamFacts, FollowsKeeps
<1> HIDE DEF f
<1>10. /\ queue' \in [User -> Seq(Batch)] /\ callbacks' \in [User -> SUBSET Batch]
       /\ \A u \in User : queue'[u] = IF u = user THEN q ELSE queue[u]
  BY <1>1, <1>5, <1>6, <1>7
<1>11. \A u \in User : queue'[u] \in Seq(Of(u, issuer))
  BY <1>7, <1>10 DEF IInv
<1>12. /\ auth' = auth /\ tokenCounter' = tokenCounter /\ user' = user
       /\ log' = log /\ issuer' = issuer /\ ends' = ends /\ refused' = refused
       /\ lost' = lost /\ failures' = failures /\ restarts' = restarts
  BY <1>1 DEF authVars, history
<1>13. Upsets' = Upsets /\ AskedInv(remote.asked)'
  BY <1>1, <1>9, <1>12 DEF Upsets, AskedInv
<1>14. nextId' \in Nat
  BY <1>1, <1>3
<1> QED
  BY <1>1, <1>2, <1>8, <1>9, <1>10, <1>11, <1>12, <1>13, <1>14, Collect
     DEF IInv, TypeOK, RightAccount, S

\* A stream that is stopped and has nothing to send fits any account.
LEMMA EmptiedStream ==
  ASSUME IInv, NEW v
  PROVE  LET s == [Stop(remote) EXCEPT !.pipeline = <<>>]
         IN  /\ RemoteInv(s, v, Of(v, issuer)) /\ AskedInv(s.asked)
             /\ AnswersInv(s, tasks) /\ s.closes \in Nat
             /\ s.pipeline = <<>> /\ ~s.handshake
<1> DEFINE c == Stop(remote)
           s == [c EXCEPT !.pipeline = <<>>]
<1>1. /\ RemoteInv(c, v, Of(user, issuer)) /\ AskedInv(c.asked)
      /\ AnswersInv(c, tasks) /\ c.closes \in Nat /\ c.state \in {"Initial", "Error"}
  BY StopSound
<1> HIDE DEF c
<1>2. /\ c \in Remote(Of(user, issuer)) /\ c.in = <<>> /\ c.out = <<>>
      /\ c.status = "None" /\ ~c.handshake /\ ~c.idle
  BY <1>1 DEF RemoteInv
<1>3. /\ s \in Remote(Of(v, issuer)) /\ s.pipeline = <<>> /\ s.in = <<>> /\ s.out = <<>>
      /\ s.status = "None" /\ ~s.handshake /\ ~s.idle
      /\ s.state = c.state /\ s.asked = c.asked /\ s.closes = c.closes
  <2>1. /\ s.pipeline = <<>> /\ s.in = c.in /\ s.out = c.out /\ s.status = c.status
        /\ s.handshake = c.handshake /\ s.idle = c.idle /\ s.state = c.state
        /\ s.asked = c.asked /\ s.closes = c.closes /\ s.caller = c.caller
    BY <1>2 DEF Remote
  <2>2. c = [pipeline |-> c.pipeline, state |-> c.state, handshake |-> c.handshake,
             idle |-> c.idle, closes |-> c.closes, asked |-> c.asked,
             caller |-> c.caller, out |-> <<>>, in |-> <<>>, status |-> c.status]
    BY <1>2 DEF Remote
  <2>3. s = [pipeline |-> <<>>, state |-> c.state, handshake |-> c.handshake,
             idle |-> c.idle, closes |-> c.closes, asked |-> c.asked,
             caller |-> c.caller, out |-> <<>>, in |-> <<>>, status |-> c.status]
    BY <2>2
  <2>4. /\ c.state \in {"Initial", "Starting", "Open", "Error", "Backoff"}
        /\ c.handshake \in BOOLEAN /\ c.idle \in BOOLEAN /\ c.closes \in Nat
        /\ c.asked \in SUBSET [closes : Nat, counter : Nat, user : User]
        /\ c.caller \in User \cup {Nobody}
        /\ c.status \in {"None", "Transient", "Permanent"}
    BY <1>2 DEF Remote
  <2> HIDE DEF s
  <2>5. s \in Remote(Of(v, issuer))
    BY <2>3, <2>4 DEF Remote
  <2> QED
    BY <1>2, <2>1, <2>5
<1> HIDE DEF s
<1>4. RemoteInv(s, v, Of(v, issuer))
  BY <1>1, <1>3, PipelineAssumption DEF RemoteInv
<1>5. AnswersInv(s, tasks) /\ AskedInv(s.asked)
  BY <1>1, <1>3 DEF AnswersInv
<1> QED
  BY <1>1, <1>3, <1>4, <1>5 DEF s, c

\* The stream of the account before is dropped, and the pipeline is filled from
\* the queue of the new one.
LEMMA RunCredentialKeeps ==
  ASSUME IInv, RunCredential
  PROVE  IInv'
<1> DEFINE v == Head(tasks).user
           s == [Stop(remote) EXCEPT !.pipeline = <<>>]
           f == FillWritePipeline(s, queue[v])
           tt == Tail(tasks)
<1>1. /\ tasks # <<>> /\ Head(tasks).kind = "credential" /\ user' = v
      /\ nextId' = IF v = user THEN nextId ELSE HighestId + 1
      /\ remote' = f /\ tasks' = tt
      /\ UNCHANGED <<authVars, queue, callbacks, log, ends, refused, history>>
  BY DEF RunCredential, IsNext
<1>2. /\ Head(tasks) \in Task /\ tt \in Seq(Task) /\ TasksInv(tt, v, issuer)
      /\ UserAt(tt, v, Len(tt) + 1, auth)
  BY <1>1, RunFacts DEF After
<1>3. v \in User
  BY <1>1, <1>2 DEF Task
<1>4. /\ RemoteInv(s, v, Of(v, issuer)) /\ AskedInv(s.asked)
      /\ AnswersInv(s, tasks) /\ s.closes \in Nat
  BY EmptiedStream
<1> HIDE DEF v, s
<1>5. AnswersInv(s, tt)
  BY <1>1, <1>4, StreamFacts, AnswersTail
<1>6. queue[v] \in Seq(Of(v, issuer))
  BY <1>3 DEF IInv
<1>7. RemoteInv(f, v, Of(v, issuer)) /\ Follows(f, s)
  BY <1>4, <1>6, StreamFacts, FillKeeps
<1>8. AskedInv(f.asked) /\ AnswersInv(f, tt)
  BY <1>4, <1>5, <1>7, StreamFacts, FollowsKeeps
<1> HIDE DEF f, tt
<1>9. nextId' \in Nat
  BY <1>1, HighestIdType DEF IInv, TypeOK
<1>10. /\ auth' = auth /\ tokenCounter' = tokenCounter /\ queue' = queue
       /\ callbacks' = callbacks /\ log' = log /\ issuer' = issuer /\ ends' = ends
       /\ refused' = refused /\ lost' = lost /\ failures' = failures /\ restarts' = restarts
  BY <1>1 DEF authVars, history
<1>11. Upsets' = Upsets /\ AskedInv(remote.asked)'
  BY <1>1, <1>8, <1>10 DEF Upsets, AskedInv
<1> QED
  BY <1>1, <1>2, <1>3, <1>7, <1>8, <1>9, <1>10, <1>11, Collect
     DEF IInv, TypeOK, RightAccount

\* The call is opened for the account that is current when the token arrives.
LEMMA RunTokenKeeps ==
  ASSUME IInv, RunToken
  PROVE  IInv'
<1> DEFINE S == Of(user, issuer)
           t == Head(tasks)
           tt == Tail(tasks)
<1>1. /\ tasks # <<>> /\ t.kind = "token" /\ tasks' = tt
      /\ remote' = IF t.closes # remote.closes THEN remote
                   ELSE IF t.ok
                     THEN [remote EXCEPT !.state = "Open", !.caller = t.user,
                                         !.out = <<Handshake>>]
                     ELSE StartIfNeeded(Close(remote, FALSE))
      /\ UNCHANGED <<authVars, storeVars, log, ends, refused, history>>
  BY DEF RunToken, IsNext
<1>2. /\ t \in Task /\ tt \in Seq(Task) /\ TasksInv(tt, user, issuer)
      /\ UserAt(tt, user, Len(tt) + 1, auth) /\ t.user = user
  BY <1>1, RunFacts DEF After
<1>3. AnswersInv(remote, tt)
  BY <1>1, StreamFacts, AnswersTail
<1>4. RemoteInv(remote', user, S) /\ AskedInv(remote'.asked) /\ AnswersInv(remote', tt)
  <2>1. CASE t.closes # remote.closes
    <3>1. remote' = remote
      BY <1>1, <2>1
    <3> HIDE DEF tt
    <3> QED
      BY <1>3, <3>1, StreamFacts
  <2>2. CASE t.closes = remote.closes /\ t.ok
    <3> DEFINE s == [remote EXCEPT !.state = "Open", !.caller = user, !.out = <<Handshake>>]
    <3>1. remote' = s
      BY <1>1, <1>2, <2>2
    <3>2. remote.state = "Starting"
      <4>1. t = tasks[1] /\ 1 \in DOMAIN tasks /\ remote.closes \in Nat
        BY <1>1, StreamFacts
      <4> QED
        BY <1>1, <2>2, <4>1, StreamFacts DEF AnswersInv
    <3>3. /\ Len(remote.pipeline) > 0 /\ Len(remote.pipeline) <= MaxPendingWrites
          /\ remote.in = <<>> /\ ~remote.handshake /\ ~remote.idle
      BY <3>2, StreamFacts DEF RemoteInv
    <3>4. /\ s.state = "Open" /\ s.caller = user /\ s.out = <<Handshake>>
          /\ s.pipeline = remote.pipeline /\ s.in = remote.in /\ s.idle = remote.idle
          /\ s.handshake = remote.handshake /\ s.status = remote.status
          /\ s.asked = remote.asked /\ s.closes = remote.closes
      BY StreamFacts DEF Remote
    <3>5. s \in Remote(S)
      <4>1. <<Handshake>> \in Seq(S \cup {Handshake}) /\ user \in User
        BY StreamFacts
      <4> QED
        BY <4>1, StreamFacts DEF Remote
    <3> HIDE DEF s
    <3>6. RemoteInv(s, user, S)
      BY <3>3, <3>4, <3>5 DEF RemoteInv
    <3>7. AnswersInv(s, tt)
      BY <1>1, <2>2, <3>4, StreamFacts, AnswersTail
    <3> QED
      BY <3>1, <3>4, <3>6, <3>7, StreamFacts
  <2>3. CASE t.closes = remote.closes /\ ~t.ok
    <3> DEFINE c == Close(remote, FALSE)
    <3>1. remote' = StartIfNeeded(c)
      BY <1>1, <2>3
    <3>2. /\ RemoteInv(c, user, S) /\ AskedInv(c.asked)
          /\ AnswersInv(c, tasks) /\ c.closes \in Nat
      BY CloseSound
    <3> HIDE DEF c
    <3>3. AnswersInv(c, tt)
      BY <1>1, <3>2, StreamFacts, AnswersTail
    <3>4. RemoteInv(StartIfNeeded(c), user, S) /\ Follows(StartIfNeeded(c), c)
      BY <3>2, StreamFacts, StartIfNeededKeeps
    <3>5. AskedInv(StartIfNeeded(c).asked) /\ AnswersInv(StartIfNeeded(c), tt)
      BY <3>2, <3>3, <3>4, StreamFacts, FollowsKeeps
    <3> QED
      BY <3>1, <3>4, <3>5
  <2> QED
    BY <2>1, <2>2, <2>3
<1> HIDE DEF t, tt
<1>5. /\ auth' = auth /\ tokenCounter' = tokenCounter /\ user' = user
      /\ nextId' = nextId /\ callbacks' = callbacks /\ log' = log /\ issuer' = issuer
      /\ ends' = ends /\ lost' = lost /\ queue' = queue /\ refused' = refused
      /\ failures' = failures /\ restarts' = restarts
  BY <1>1 DEF authVars, storeVars, history
<1>6. Upsets' = Upsets /\ AskedInv(remote.asked)'
  BY <1>4, <1>5 DEF Upsets, AskedInv
<1> QED
  BY <1>1, <1>2, <1>4, <1>5, <1>6, Collect DEF IInv, TypeOK, RightAccount, S

-----------------------------------------------------------------------------
(* Theorems *)

LEMMA NextIInv == IInv /\ [Next]_vars => IInv'
<1> SUFFICES ASSUME IInv, [Next]_vars PROVE IInv'
  OBVIOUS
<1>1. CASE Issue
  BY <1>1, IssueKeeps
<1>2. CASE Restart
  BY <1>2, RestartKeeps
<1>3. ASSUME NEW u \in User, AuthChanges(u) PROVE IInv'
  BY <1>3, AuthChangesKeeps
<1>4. ASSUME NEW a \in remote.asked, TokenAnswered(a) PROVE IInv'
  BY <1>4, TokenAnsweredKeeps
<1>5. ASSUME NEW a \in remote.asked, TokenRefused(a) PROVE IInv'
  BY <1>5, TokenRefusedKeeps
<1>6. CASE RunTask
  BY <1>6, RunWriteKeeps, RunCredentialKeeps, RunTokenKeeps DEF RunTask
<1>7. CASE BackoffElapses \/ IdleTimerFires
  BY <1>7, BackoffElapsesKeeps, IdleTimerFiresKeeps
<1>8. CASE ReadHandshake \/ ReadResult
  BY <1>8, ReadHandshakeKeeps, ReadResultKeeps
<1>9. CASE StreamFails \/ WriteRejected
  BY <1>9, StreamFailsKeeps, WriteRejectedKeeps
<1>10. CASE Serve \/ Refuse \/ CallBreaks
  BY <1>10, ServeKeeps, RefuseKeeps, CallBreaksKeeps
<1>11. CASE UNCHANGED vars
  <2>1. /\ auth' = auth /\ tokenCounter' = tokenCounter /\ tasks' = tasks /\ user' = user
        /\ nextId' = nextId /\ callbacks' = callbacks /\ log' = log /\ issuer' = issuer
        /\ ends' = ends /\ refused' = refused /\ lost' = lost /\ queue' = queue
        /\ failures' = failures /\ restarts' = restarts /\ remote' = remote
    BY <1>11 DEF vars, authVars, storeVars, history
  <2>2. RemoteOnly
    BY <2>1 DEF RemoteOnly, authVars, storeVars, history
  <2> QED
    BY <2>1, <2>2, StreamFacts, RemoteStep
<1> QED
  BY <1>1, <1>2, <1>3, <1>4, <1>5, <1>6, <1>7, <1>8, <1>9, <1>10, <1>11 DEF Next

THEOREM Invariance == Spec => []IInv
<1>1. Init => IInv
  BY InitIInv
<1>2. IInv /\ [Next]_vars => IInv'
  BY NextIInv
<1> QED
  BY <1>1, <1>2, PTL DEF Spec

\* The state always has its type; in particular the pipeline never exceeds its
\* limit, although batches enter it from three handlers.
THEOREM TypeCorrect == Spec => []TypeOK
<1>1. IInv => TypeOK
  BY DEF IInv
<1> QED
  BY <1>1, Invariance, PTL

\* No write reaches the backend in the name of an account other than the one
\* it was issued under.
THEOREM WritesGoOutUnderTheirAccount == Spec => []RightAccount
<1>1. IInv => RightAccount
  BY DEF IInv
<1> QED
  BY <1>1, Invariance, PTL

\* The timer only ever stops a stream that has nothing left to do.
THEOREM IdleStreamHasNothingToDo == Spec => []IdleOnlyWhenDone
<1>1. IInv => IdleOnlyWhenDone
  BY StreamFacts DEF RemoteInv, Remote, IdleOnlyWhenDone
<1> QED
  BY <1>1, Invariance, PTL

\* The assertion in ResumeStartWithCredentials never fails.
THEOREM AssertionInResumeHolds == Spec => []CredentialsAreAwaited
<1>1. IInv => CredentialsAreAwaited
  <2> SUFFICES ASSUME IInv, NEW k \in DOMAIN tasks, tasks[k].kind = "token",
                      tasks[k].closes = remote.closes
               PROVE  remote.state = "Starting"
    BY DEF CredentialsAreAwaited, ToSet
  <2>1. AnswersInv(remote, tasks) /\ remote.closes \in Nat
    BY StreamFacts
  <2> QED
    BY <2>1 DEF AnswersInv
<1> QED
  BY <1>1, Invariance, PTL

\* Responses carry no batch id; their order alone says which batch they are for.
THEOREM ResponsesBelongToTheFront == Spec => []RepliesMatchPipeline
<1>1. IInv => RepliesMatchPipeline
  <2> DEFINE T == Of(user, issuer) \cup {Handshake}
             in == remote.in
             out == remote.out
             p == remote.pipeline
  <2> SUFFICES ASSUME IInv PROVE RepliesMatchPipeline
    OBVIOUS
  <2>1. in \in Seq(T) /\ out \in Seq(T) /\ p \in Seq(T)
    BY StreamFacts DEF Remote
  <2>2. ASSUME remote.handshake
        PROVE  IsPrefix(in, p) /\ (remote.status = "None" => in \o out = p)
    <3>1. /\ Len(in) <= Len(p) /\ \A i \in 1..Len(in) : in[i] = p[i]
          /\ remote.status = "None" => in \o out = p
      BY <2>2, StreamFacts DEF RemoteInv
    <3> HIDE DEF in, p, out
    <3>2. SubSeq(in, 1, Len(in)) = SubSeq(p, 1, Len(in))
      BY <2>1, <3>1
    <3> QED
      BY <3>1, <3>2 DEF IsPrefix
  <2>3. ASSUME remote.state = "Open", ~remote.handshake, remote.status = "None"
        PROVE  in \o out = <<Handshake>> /\ p # <<>>
    <3>1. /\ \/ in = <<>> /\ out = <<Handshake>>
             \/ in = <<Handshake>> /\ out = <<>>
          /\ Len(p) > 0
      BY <2>3, StreamFacts DEF RemoteInv
    <3>2. <<>> \o <<Handshake>> = <<Handshake>> /\ <<Handshake>> \o <<>> = <<Handshake>>
      OBVIOUS
    <3>3. in \o out = <<Handshake>>
      BY <3>1, <3>2, Zenon
    <3> QED
      BY <3>1, <3>3
  <2> QED
    BY <2>2, <2>3 DEF RepliesMatchPipeline
<1> QED
  BY <1>1, Invariance, PTL

-----------------------------------------------------------------------------
(***************************************************************************)
(* What the write path promises: no write is forgotten, applied out of     *)
(* order or told another's outcome, whatever fails and whoever signs in;   *)
(* so it implements PendingWrites.                                         *)
(***************************************************************************)

(* Queues *)

LEMMA BeginsSame ==
  ASSUME NEW S, NEW q \in Seq(S)
  PROVE  Begins(<<>>, q) /\ Begins(q, q)
BY SeqBasics DEF Begins

LEMMA BeginsTrans ==
  ASSUME NEW S, NEW p \in Seq(S), NEW q \in Seq(S), NEW r \in Seq(S),
         Begins(p, q), Begins(q, r)
  PROVE  Begins(p, r)
BY SeqBasics DEF Begins

\* What a queue begins with and a part of the rest.
LEMMA BeginsMore ==
  ASSUME NEW S, NEW p \in Seq(S), NEW q \in Seq(S), Begins(p, q),
         NEW m \in Nat, m <= Len(q)
  PROVE  LET r == p \o SubSeq(q, Len(p) + 1, m)
         IN  r \in Seq(S) /\ Begins(r, q) /\ Begins(p, r)
<1> DEFINE n == Len(p)
           t == SubSeq(q, n + 1, m)
           r == p \o t
<1>1. n \in Nat /\ Len(q) \in Nat /\ n <= Len(q) /\ \A i \in 1..n : p[i] = q[i]
  BY SeqBasics DEF Begins
<1>2. \A i \in (n + 1)..m : q[i] \in S
  BY <1>1, SeqBasics
<1> HIDE DEF n
<1>3. /\ t \in Seq(S) /\ Len(t) = IF n + 1 <= m THEN m - (n + 1) + 1 ELSE 0
      /\ \A i \in 1..(m - (n + 1) + 1) : t[i] = q[n + 1 + i - 1]
  BY <1>1, <1>2, SubSeqProperties
<1> HIDE DEF t
<1>4. /\ r \in Seq(S) /\ Len(r) = n + Len(t)
      /\ \A i \in 1..(n + Len(t)) : r[i] = IF i <= n THEN p[i] ELSE t[i - n]
  BY <1>3, ConcatProperties DEF n
<1> HIDE DEF r
<1>5. Len(r) <= Len(q) /\ n <= Len(r) /\ \A i \in 1..n : p[i] = r[i]
  BY <1>1, <1>3, <1>4
<1>6. ASSUME NEW i \in 1..Len(r) PROVE r[i] = q[i]
  <2>1. CASE i <= n
    BY <1>1, <1>4, <2>1
  <2>2. CASE ~(i <= n)
    <3>1. i - n \in 1..(m - (n + 1) + 1) /\ n + 1 + (i - n) - 1 = i /\ i \in 1..(n + Len(t))
      BY <1>1, <1>3, <1>4, <2>2
    <3> QED
      BY <1>3, <1>4, <2>2, <3>1
  <2> QED
    BY <2>1, <2>2
<1> QED
  BY <1>4, <1>5, <1>6 DEF Begins, r, t, n

LEMMA BeginsTail ==
  ASSUME NEW S, NEW p \in Seq(S), NEW q \in Seq(S), Begins(p, q), p # <<>>
  PROVE  /\ q # <<>> /\ Head(p) = Head(q) /\ Head(q) = q[1]
         /\ Tail(p) \in Seq(S) /\ Tail(q) \in Seq(S)
         /\ Begins(Tail(p), Tail(q))
<1>1. Len(p) \in Nat \ {0} /\ Len(q) \in Nat \ {0} /\ p[1] = q[1] /\ Len(p) <= Len(q)
      /\ \A i \in 1..Len(p) : p[i] = q[i]
  BY SeqBasics DEF Begins
<1>2. q # <<>>
  BY <1>1
<1>3. /\ Tail(p) \in Seq(S) /\ Tail(q) \in Seq(S)
      /\ Len(Tail(p)) = Len(p) - 1 /\ Len(Tail(q)) = Len(q) - 1
      /\ \A i \in 1..(Len(p) - 1) : Tail(p)[i] = p[i + 1]
      /\ \A i \in 1..(Len(q) - 1) : Tail(q)[i] = q[i + 1]
  BY <1>2, HeadTailProperties
<1>4. \A i \in 1..(Len(p) - 1) : i + 1 \in 1..Len(p) /\ i \in 1..(Len(q) - 1)
  BY <1>1
<1> QED
  BY <1>1, <1>2, <1>3, <1>4 DEF Begins

LEMMA AscendingTail ==
  ASSUME NEW q \in Seq(Batch), q # <<>>, Ascending(q)
  PROVE  /\ Ascending(Tail(q))
         /\ \A i \in 1..Len(Tail(q)) : q[1].id < Tail(q)[i].id /\ q[1].w < Tail(q)[i].w
<1>1. /\ Len(q) \in Nat \ {0} /\ DOMAIN q = 1..Len(q) /\ Len(Tail(q)) = Len(q) - 1
      /\ Tail(q) \in Seq(Batch) /\ \A i \in 1..(Len(q) - 1) : Tail(q)[i] = q[i + 1]
  BY HeadTailProperties, SeqBasics
<1>2. DOMAIN Tail(q) = 1..(Len(q) - 1)
  BY <1>1, SeqBasics
<1>3. \A i \in 1..(Len(q) - 1) : 1 < i + 1 /\ i + 1 \in 1..Len(q)
  BY <1>1
<1> HIDE DEF Ascending
<1>4. \A i \in 1..(Len(q) - 1) : q[1].id < q[i + 1].id /\ q[1].w < q[i + 1].w
  BY <1>1, <1>3 DEF Ascending
<1>5. \A i, j \in 1..(Len(q) - 1) : i < j => i + 1 < j + 1
  BY <1>1
<1>6. \A i, j \in 1..(Len(q) - 1) : i < j =>
        q[i + 1].id < q[j + 1].id /\ q[i + 1].w < q[j + 1].w
  BY <1>1, <1>3, <1>5 DEF Ascending
<1>7. Ascending(Tail(q))
  BY <1>1, <1>2, <1>6 DEF Ascending
<1> QED
  BY <1>1, <1>4, <1>7

LEMMA AscendingAppend ==
  ASSUME NEW q \in Seq(Batch), Ascending(q), NEW b \in Batch,
         \A i \in DOMAIN q : q[i].id < b.id /\ q[i].w < b.w
  PROVE  Ascending(Append(q, b))
<1> DEFINE n == Len(q) + 1
           a == Append(q, b)
<1>1. /\ n \in Nat \ {0} /\ DOMAIN q = 1..(n - 1) /\ DOMAIN a = 1..n
      /\ \A i \in 1..(n - 1) : a[i] = q[i]
      /\ a[n] = b
  BY AppendProperties, SeqBasics
<1> HIDE DEF a, n
<1> QED
  BY <1>1 DEF Ascending, a

\* Ids are new to the queue, so a batch is where it was found.
LEMMA SameBatch ==
  ASSUME NEW q \in Seq(Batch), Ascending(q), NEW i \in DOMAIN q, NEW j \in DOMAIN q,
         q[i].id = q[j].id \/ q[i].w = q[j].w
  PROVE  i = j
<1>1. DOMAIN q = 1..Len(q) /\ Len(q) \in Nat /\ q[i] \in Batch /\ q[j] \in Batch
  BY SeqBasics
<1>2. i \in Int /\ j \in Int /\ q[i].id \in Nat /\ q[j].id \in Nat
      /\ q[i].w \in Int /\ q[j].w \in Int
  BY <1>1, PipelineAssumption DEF Batch, Write
<1>3. ~(i < j) /\ ~(j < i)
  BY <1>2 DEF Ascending
<1> QED
  BY <1>2, <1>3

LEMMA WithoutFront ==
  ASSUME NEW q \in Seq(Batch), q # <<>>, Ascending(q)
  PROVE  Without(q, Head(q)) = Tail(q)
<1> DEFINE at == {i \in DOMAIN q : q[i].id = Head(q).id}
<1>1. Len(q) \in Nat \ {0} /\ DOMAIN q = 1..Len(q) /\ Head(q) = q[1] /\ 1 \in DOMAIN q
  BY SeqBasics
<1>2. \A i \in DOMAIN q : q[i].id = Head(q).id => i = 1
  BY <1>1, SameBatch
<1>3. at = {1}
  BY <1>1, <1>2
<1>4. Without(q, Head(q)) = RemoveAt(q, 1)
  BY <1>3 DEF Without
<1>5. SubSeq(q, 1, 1 - 1) = <<>>
  BY SubSeqEmpty
<1>6. SubSeq(q, 1 + 1, Len(q)) = Tail(q)
  BY TailIsSubSeq
<1>7. Tail(q) \in Seq(Batch)
  BY HeadTailProperties
<1>8. RemoveAt(q, 1) = <<>> \o Tail(q)
  BY <1>5, <1>6 DEF RemoveAt
<1>9. <<>> \o Tail(q) = Tail(q)
  BY <1>7, ConcatEmptySeq
<1> QED
  BY <1>4, <1>8, <1>9, Zenon

-----------------------------------------------------------------------------
(* The pipeline *)

\* What waits is what comes after the pipeline: the ids say how far that reaches.
LEMMA WaitingIsRest ==
  ASSUME NEW S \in SUBSET Batch, NEW r, r.pipeline \in Seq(S), NEW q \in Seq(S), Ascending(q),
         \A i \in DOMAIN q : q[i].id > 0, Begins(r.pipeline, q)
  PROVE  Waiting(r, q) = SubSeq(q, Len(r.pipeline) + 1, Len(q))
<1> DEFINE p == r.pipeline
           n == Len(p)
           last == IF p = <<>> THEN 0 ELSE Last(p).id
           old == {i \in DOMAIN q : q[i].id <= last}
<1>1. /\ n \in Nat /\ Len(q) \in Nat /\ DOMAIN q = 1..Len(q) /\ n <= Len(q)
      /\ \A i \in 1..n : p[i] = q[i]
      /\ p = <<>> <=> n = 0
  BY SeqBasics DEF Begins
<1>2. \A i \in 1..Len(q) : q[i].id \in Nat \ {0}
  <2>1. \A i \in 1..Len(q) : q[i] \in Batch /\ q[i].id > 0
    BY <1>1, SeqBasics
  <2> QED
    BY <2>1 DEF Batch
<1>3. old = 1..n
  <2>1. CASE n = 0
    <3>1. last = 0
      BY <1>1, <2>1
    <3> HIDE DEF last
    <3> QED
      BY <1>1, <1>2, <2>1, <3>1
  <2>2. CASE n # 0
    <3>1. last = q[n].id /\ n \in 1..Len(q)
      BY <1>1, <2>2 DEF Last
    <3> HIDE DEF last, n
    <3>2. \A i \in 1..Len(q) : i < n => q[i].id < q[n].id
      BY <1>1, <3>1 DEF Ascending
    <3>3. \A i \in 1..Len(q) : n < i => q[n].id < q[i].id
      BY <1>1, <3>1 DEF Ascending
    <3>4. \A i \in 1..Len(q) : q[i].id <= q[n].id <=> i <= n
      BY <1>1, <1>2, <3>1, <3>2, <3>3
    <3> QED
      BY <1>1, <3>1, <3>4
  <2> QED
    BY <2>1, <2>2
<1>4. Cardinality(1..n) = n
  <2> HIDE DEF n
  <2> QED
    BY <1>1, FS_Interval
<1> QED
  BY <1>3, <1>4 DEF Waiting

LEMMA AtMostOfRest ==
  ASSUME NEW S, NEW q \in Seq(S), NEW n \in Nat, n <= Len(q), NEW room \in Nat
  PROVE  \E m \in Nat : m <= Len(q) /\ AtMost(room, SubSeq(q, n + 1, Len(q))) = SubSeq(q, n + 1, m)
<1> DEFINE rest == SubSeq(q, n + 1, Len(q))
           l == Len(q) - n
           k == IF room < l THEN room ELSE l
           new == SubSeq(rest, 1, k)
           part == SubSeq(q, n + 1, n + k)
<1>1. Len(q) \in Nat /\ \A i \in 1..Len(q) : q[i] \in S
  BY SeqBasics
<1>2. l \in Nat /\ k \in Nat /\ k <= l /\ n + l = Len(q)
  BY <1>1
<1>3. Len(rest) = l /\ \A i \in 1..l : rest[i] = q[n + i]
  <2>1. /\ Len(rest) = IF n + 1 <= Len(q) THEN Len(q) - (n + 1) + 1 ELSE 0
        /\ \A i \in 1..(Len(q) - (n + 1) + 1) : rest[i] = q[n + 1 + i - 1]
    BY <1>1, SubSeqProperties
  <2> HIDE DEF rest
  <2>2. Len(q) - (n + 1) + 1 = l
    BY <1>1
  <2>3. Len(rest) = l
    <3>1. CASE n + 1 <= Len(q)
      BY <2>1, <2>2, <3>1
    <3>2. CASE ~(n + 1 <= Len(q))
      <4>1. l = 0
        BY <1>1, <3>2
      <4> QED
        BY <2>1, <3>2, <4>1
    <3> QED
      BY <3>1, <3>2
  <2> HIDE DEF l
  <2>4. ASSUME NEW i \in 1..l PROVE rest[i] = q[n + i]
    <3>1. rest[i] = q[n + 1 + i - 1]
      BY <2>1, <2>2
    <3>2. n + 1 + i - 1 = n + i
      BY <1>2
    <3> QED
      BY <3>1, <3>2
  <2> QED
    BY <2>3, <2>4
<1> HIDE DEF l
<1>4. AtMost(room, rest) = new
  <2> HIDE DEF rest
  <2> QED
    BY <1>3 DEF AtMost
<1> HIDE DEF k, rest
<1>5. /\ part \in Seq(S) /\ Len(part) = k
      /\ \A i \in 1..k : part[i] = q[n + i]
  <2>1. \A i \in (n + 1)..(n + k) : q[i] \in S
    BY <1>1, <1>2
  <2>2. /\ part \in Seq(S)
        /\ Len(part) = IF n + 1 <= n + k THEN n + k - (n + 1) + 1 ELSE 0
        /\ \A i \in 1..(n + k - (n + 1) + 1) : part[i] = q[n + 1 + i - 1]
    BY <1>2, <2>1, SubSeqProperties
  <2> HIDE DEF part
  <2>3. n + k - (n + 1) + 1 = k /\ \A i \in 1..k : n + 1 + i - 1 = n + i
    BY <1>2
  <2> QED
    BY <1>2, <2>2, <2>3
<1>6. /\ new \in Seq(S) /\ Len(new) = k /\ \A i \in 1..k : new[i] = rest[i]
  <2>1. \A i \in 1..k : i \in 1..l /\ n + i \in 1..Len(q)
    BY <1>1, <1>2
  <2>2. \A i \in 1..k : rest[i] \in S
    BY <1>1, <1>3, <2>1
  <2>3. /\ new \in Seq(S) /\ Len(new) = IF 1 <= k THEN k - 1 + 1 ELSE 0
        /\ \A i \in 1..(k - 1 + 1) : new[i] = rest[1 + i - 1]
    BY <1>2, <2>2, SubSeqProperties
  <2> HIDE DEF new
  <2>4. k - 1 + 1 = k /\ \A i \in 1..k : 1 + i - 1 = i
    BY <1>2
  <2> QED
    BY <1>2, <2>3, <2>4
<1> HIDE DEF new
<1>7. \A i \in 1..k : new[i] = part[i]
  <2>1. \A i \in 1..k : i \in 1..l
    BY <1>2
  <2> QED
    BY <1>3, <1>5, <1>6, <2>1
<1> HIDE DEF part
<1>8. new = part
  BY <1>5, <1>6, <1>7, SeqEqual
<1>9. n + k \in Nat /\ n + k <= Len(q)
  BY <1>2
<1> QED
  BY <1>4, <1>8, <1>9 DEF rest, part

\* Batches enter in the order of the queue, behind those that are there.
LEMMA FillBegins ==
  ASSUME NEW S \in SUBSET Batch, NEW r \in Remote(S), Len(r.pipeline) <= MaxPendingWrites,
         NEW q \in Seq(S), Ascending(q), \A i \in DOMAIN q : q[i].id > 0,
         Begins(r.pipeline, q)
  PROVE  LET f == FillWritePipeline(r, q)
         IN  /\ f.pipeline \in Seq(S) /\ Begins(f.pipeline, q) /\ Begins(r.pipeline, f.pipeline)
             /\ f.handshake = r.handshake /\ f.in = r.in
<1> DEFINE p == r.pipeline
           rest == SubSeq(q, Len(p) + 1, Len(q))
           room == Room(r)
           new == AtMost(room, Waiting(r, q))
           full == [r EXCEPT !.pipeline = @ \o new]
           sent == IF r.state = "Open" /\ r.handshake THEN Send(full, new) ELSE full
           done == [sent EXCEPT !.idle = @ \/ (r.state = "Open" /\ full.pipeline = <<>>)]
<1>1. r \in Remote(S) /\ p \in Seq(S) /\ Len(p) <= MaxPendingWrites
  BY DEF Remote
<1>2. /\ Len(p) \in Nat /\ Len(q) \in Nat /\ Len(p) <= Len(q)
      /\ room \in Nat
  BY <1>1, SeqBasics, PipelineAssumption DEF Begins, Room
<1>3. Waiting(r, q) = rest
  BY <1>1, WaitingIsRest
<1>4. \E m \in Nat : m <= Len(q) /\ new = SubSeq(q, Len(p) + 1, m)
  <2> HIDE DEF rest, room
  <2>1. new = AtMost(room, rest)
    BY <1>3
  <2> HIDE DEF new
  <2> QED
    BY <1>2, <2>1, AtMostOfRest DEF rest
<1>5. p \o new \in Seq(S) /\ Begins(p \o new, q) /\ Begins(p, p \o new)
  <2> HIDE DEF new
  <2> QED
    BY <1>1, <1>4, BeginsMore
<1> HIDE DEF new
<1>6. full.pipeline = p \o new /\ full.handshake = r.handshake /\ full.in = r.in
  BY <1>1 DEF Remote
<1> DEFINE Like(x, y) == x.pipeline = y.pipeline /\ x.handshake = y.handshake /\ x.in = y.in
<1>7. /\ DOMAIN full = DOMAIN r /\ {"out", "idle", "state", "asked"} \subseteq DOMAIN r
      /\ {"pipeline", "handshake", "in"} \subseteq DOMAIN r
  BY <1>1 DEF Remote
<1> HIDE DEF full
<1>8. DOMAIN Send(full, new) = DOMAIN full /\ Like(Send(full, new), full)
  <2>1. \A x, y : LET s == [full EXCEPT !.out = x, !.idle = y]
                  IN  DOMAIN s = DOMAIN full /\ Like(s, full)
    BY <1>7
  <2> QED
    BY <2>1 DEF Send
<1>9. DOMAIN sent = DOMAIN full /\ Like(sent, full)
  BY <1>8
<1> HIDE DEF sent
<1>10. DOMAIN done = DOMAIN full /\ Like(done, sent)
  BY <1>7, <1>9
<1> HIDE DEF done
<1>11. Like(StartIfNeeded(done), done)
  <2>1. \A x : LET s == [done EXCEPT !.state = x] IN Like(s, done)
    BY <1>7, <1>10
  <2>2. \A x, y : LET s == [done EXCEPT !.state = x, !.asked = y] IN Like(s, done)
    BY <1>7, <1>10
  <2> QED
    BY <2>1, <2>2 DEF StartIfNeeded, Start
<1>12. FillWritePipeline(r, q) = StartIfNeeded(done)
  BY DEF FillWritePipeline, new, full, sent, done, room
<1> QED
  BY <1>5, <1>6, <1>9, <1>10, <1>11, <1>12

-----------------------------------------------------------------------------
(* Writes on the worker queue and in the queues *)

LEMMA InQueue == \A u, w : w \in Queued(u) <=> \E i \in DOMAIN queue[u] : queue[u][i].w = w
BY DEF Queued, ToSet

LEMMA InTasks ==
  \A ts, w : w \in Writes(ts) <=> \E k \in DOMAIN ts : ts[k].kind = "write" /\ ts[k].w = w
BY DEF Writes, ToSet

LEMMA WritesAppend ==
  ASSUME NEW ts \in Seq(Task), NEW e \in Task, InOrder(ts),
         e.kind = "write" => \A w \in Writes(ts) : w < e.w
  PROVE  /\ InOrder(Append(ts, e))
         /\ Writes(Append(ts, e)) = Writes(ts) \cup IF e.kind = "write" THEN {e.w} ELSE {}
<1> DEFINE n == Len(ts) + 1
           tt == Append(ts, e)
<1>1. /\ n \in Nat \ {0} /\ DOMAIN ts = 1..(n - 1) /\ DOMAIN tt = 1..n
      /\ \A i \in 1..(n - 1) : tt[i] = ts[i]
      /\ tt[n] = e
  BY AppendProperties, SeqBasics
<1> HIDE DEF n, tt
<1>2. ASSUME NEW k \in 1..n, NEW l \in 1..n, tt[k].kind = "write", tt[l].kind = "write", k < l
      PROVE  tt[k].w < tt[l].w
  <2>1. k \in 1..(n - 1)
    BY <1>1, <1>2
  <2>2. CASE l \in 1..(n - 1)
    BY <1>1, <1>2, <2>1, <2>2 DEF InOrder
  <2>3. CASE l = n
    <3>1. tt[k].w \in Writes(ts)
      BY <1>1, <1>2, <2>1, InTasks
    <3> QED
      BY <1>1, <1>2, <2>3, <3>1
  <2> QED
    BY <1>1, <2>2, <2>3
<1>3. InOrder(tt)
  BY <1>1, <1>2 DEF InOrder
<1>4. ASSUME NEW w
      PROVE  w \in Writes(tt) <=> w \in Writes(ts) \cup IF e.kind = "write" THEN {e.w} ELSE {}
  <2>1. \A k \in 1..n : k \in 1..(n - 1) \/ k = n
    BY <1>1
  <2>2. n \in 1..n /\ \A k \in 1..(n - 1) : k \in 1..n
    BY <1>1
  <2> QED
    BY <1>1, <2>1, <2>2, InTasks
<1> QED
  BY <1>3, <1>4 DEF tt

LEMMA WritesTail ==
  ASSUME NEW ts \in Seq(Task), ts # <<>>, InOrder(ts)
  PROVE  /\ InOrder(Tail(ts))
         /\ Writes(ts) = Writes(Tail(ts)) \cup
              IF Head(ts).kind = "write" THEN {Head(ts).w} ELSE {}
         /\ Head(ts).kind = "write" => \A w \in Writes(Tail(ts)) : Head(ts).w < w
<1> DEFINE tt == Tail(ts)
           n == Len(ts)
<1>1. /\ n \in Nat \ {0} /\ DOMAIN ts = 1..n /\ DOMAIN tt = 1..(n - 1)
      /\ \A i \in 1..(n - 1) : tt[i] = ts[i + 1]
      /\ Head(ts) = ts[1]
  BY HeadTailProperties, SeqBasics
<1> HIDE DEF n, tt
<1>2. \A i \in 1..(n - 1) : i + 1 \in 1..n /\ 1 < i + 1
  BY <1>1
<1>3. InOrder(tt)
  <2>1. ASSUME NEW i \in 1..(n - 1), NEW j \in 1..(n - 1), i < j,
               tt[i].kind = "write", tt[j].kind = "write"
        PROVE  tt[i].w < tt[j].w
    <3>1. i + 1 < j + 1 /\ i + 1 \in 1..n /\ j + 1 \in 1..n
      BY <1>1, <2>1
    <3>2. tt[i] = ts[i + 1] /\ tt[j] = ts[j + 1]
      BY <1>1
    <3> QED
      BY <1>1, <2>1, <3>1, <3>2 DEF InOrder
  <2> QED
    BY <1>1, <2>1 DEF InOrder
<1>4. ASSUME NEW w
      PROVE  w \in Writes(ts) <=> w \in Writes(tt) \cup
               IF Head(ts).kind = "write" THEN {Head(ts).w} ELSE {}
  <2>1. \A k \in 1..n : k = 1 \/ \E i \in 1..(n - 1) : k = i + 1
    <3> SUFFICES ASSUME NEW k \in 1..n, k # 1 PROVE k - 1 \in 1..(n - 1) /\ k = (k - 1) + 1
      OBVIOUS
    <3> QED
      BY <1>1
  <2>2. 1 \in 1..n
    BY <1>1
  <2>3. w \in Writes(ts) <=> \E k \in 1..n : ts[k].kind = "write" /\ ts[k].w = w
    BY <1>1, InTasks
  <2>4. w \in Writes(tt) <=> \E i \in 1..(n - 1) : ts[i + 1].kind = "write" /\ ts[i + 1].w = w
    <3>1. w \in Writes(tt) <=> \E i \in 1..(n - 1) : tt[i].kind = "write" /\ tt[i].w = w
      BY <1>1, InTasks
    <3>2. \A i \in 1..(n - 1) : tt[i].kind = ts[i + 1].kind /\ tt[i].w = ts[i + 1].w
      BY <1>1
    <3> QED
      BY <3>1, <3>2
  <2> QED
    BY <1>1, <1>2, <2>1, <2>2, <2>3, <2>4
<1>5. Head(ts).kind = "write" => \A w \in Writes(tt) : Head(ts).w < w
  <2>1. 1 \in 1..n
    BY <1>1
  <2> QED
    BY <1>1, <1>2, <2>1, InTasks DEF InOrder
<1> QED
  BY <1>3, <1>4, <1>5 DEF tt

\* The types that the steps below use.
LEMMA Facts ==
  ASSUME IInv
  PROVE  /\ user \in User /\ auth \in User /\ nextId \in Nat
         /\ tasks \in Seq(Task) /\ issuer \in Seq(User) /\ DOMAIN issuer = 1..Len(issuer)
         /\ Len(issuer) \in Nat
         /\ queue \in [User -> Seq(Batch)] /\ callbacks \in [User -> SUBSET Batch]
         /\ log \in Seq([w : Write, as : User])
         /\ ends \subseteq [w : Write, ok : BOOLEAN, told : SUBSET Write]
         /\ restarts \in Nat
         /\ Writes(tasks) \subseteq DOMAIN issuer
         /\ remote.pipeline \in Seq(Of(user, issuer)) /\ Of(user, issuer) \in SUBSET Batch
         /\ remote.in \in Seq(Of(user, issuer) \cup {Handshake})
         /\ remote \in Remote(Of(user, issuer)) /\ Len(remote.pipeline) <= MaxPendingWrites
<1>1. Writes(tasks) \subseteq DOMAIN issuer
  BY InTasks DEF IInv, TasksInv
<1>2. remote \in Remote(Of(user, issuer)) /\ Len(remote.pipeline) <= MaxPendingWrites
  BY DEF IInv, RemoteInv
<1>3. /\ remote.pipeline \in Seq(Of(user, issuer))
      /\ remote.in \in Seq(Of(user, issuer) \cup {Handshake})
  BY <1>2 DEF Remote
<1> QED
  BY <1>1, <1>2, <1>3, BatchBasics, SeqBasics DEF IInv, TypeOK

LEMMA QueueFacts ==
  ASSUME IInv, NEW u \in User
  PROVE  /\ queue[u] \in Seq(Batch) /\ queue[u] \in Seq(Of(u, issuer))
         /\ DOMAIN queue[u] = 1..Len(queue[u]) /\ Len(queue[u]) \in Nat
         /\ \A i \in DOMAIN queue[u] :
              queue[u][i] \in Batch /\ queue[u][i].w \in DOMAIN issuer /\ issuer[queue[u][i].w] = u
<1> DEFINE S == Of(u, issuer)
<1>1. queue[u] \in Seq(S) /\ queue[u] \in Seq(Batch)
  BY DEF IInv, TypeOK
<1> HIDE DEF S
<1>2. /\ DOMAIN queue[u] = 1..Len(queue[u]) /\ Len(queue[u]) \in Nat
      /\ \A i \in DOMAIN queue[u] : queue[u][i] \in S
  BY <1>1, SeqBasics
<1> QED
  BY <1>1, <1>2 DEF S, Of

LEMMA QueuedFacts ==
  ASSUME IInv, NEW u \in User, NEW w \in Queued(u)
  PROVE  w \in DOMAIN issuer /\ issuer[w] = u /\ w \in Int
<1>1. w \in DOMAIN issuer /\ issuer[w] = u
  BY QueueFacts, InQueue
<1> QED
  BY <1>1, Facts

-----------------------------------------------------------------------------
(* Steps that move no write *)

LEMMA AcknowledgedLatest ==
  /\ AcknowledgedIsLatest <=> \A e \in ends : e.ok => Latest(e.w)
  /\ AcknowledgedIsLatest' <=> \A e \in ends' : e.ok => Latest(e.w)'
BY DEF AcknowledgedIsLatest, Latest

\* The log does not change for writes that have been issued.
LEMMA LogStays ==
  ASSUME UNCHANGED log, \A i \in DOMAIN log : issuer'[log[i].w] = issuer[log[i].w],
         NEW w, issuer'[w] = issuer[w]
  PROVE  Latest(w)' <=> Latest(w)
BY DEF Latest

LEMMA OrderStays ==
  ASSUME AppliedInOrder, UNCHANGED <<queue, log>>
  PROVE  AppliedInOrder'
BY DEF AppliedInOrder

\* Operations other than writes come and go, and the stream changes, but not
\* what is in the pipeline or has been answered.
LEMMA StreamStep ==
  ASSUME IInv, HistoryInv,
         UNCHANGED <<user, queue, nextId, callbacks, restarts, log, ends, lost, issuer>>,
         InOrder(tasks'), Writes(tasks') = Writes(tasks),
         remote'.pipeline = remote.pipeline,
         remote'.handshake => remote'.in = <<>> \/ (remote.handshake /\ remote'.in = remote.in)
  PROVE  HistoryInv'
<1>1. QueueInv'
  BY DEF HistoryInv, QueueInv
<1>2. OrderInv'
  <2>1. Past' = Past /\ Ended' = Ended /\ \A u : Queued(u)' = Queued(u)
    BY DEF Past, Queued, Applied, Ended
  <2> QED
    BY <2>1 DEF HistoryInv, OrderInv
<1>3. AppliedInv'
  <2>1. AppliedInOrder'
    BY OrderStays DEF HistoryInv, AppliedInv
  <2>2. \A w : Latest(w)' <=> Latest(w)
    BY LogStays
  <2>3. AcknowledgedIsLatest'
    BY <2>2, AcknowledgedLatest DEF HistoryInv, AppliedInv
  <2>4. ASSUME remote'.handshake, NEW i \in 1..Len(remote'.in)
        PROVE  Latest(remote.pipeline[i].w)'
    <3>1. remote.handshake /\ remote'.in = remote.in
      BY <2>4
    <3> QED
      BY <2>2, <2>4, <3>1 DEF HistoryInv, AppliedInv
  <2> QED
    BY <2>1, <2>3, <2>4 DEF AppliedInv
<1>4. CompletionsAreRight'
  BY DEF HistoryInv, CompletionsAreRight
<1> QED
  BY <1>1, <1>2, <1>3, <1>4 DEF HistoryInv

\* How the stream's own operations treat the pipeline.
Like(s, r) == s.pipeline = r.pipeline /\ s.handshake = r.handshake /\ s.in = r.in

LEMMA StartLike ==
  ASSUME NEW S, NEW r \in Remote(S)
  PROVE  Like(Start(r), r) /\ Like(StartIfNeeded(r), r)
<1>1. \A x : LET s == [r EXCEPT !.state = x] IN Like(s, r)
  BY DEF Remote, Like
<1>2. \A x, y : LET s == [r EXCEPT !.state = x, !.asked = y] IN Like(s, r)
  BY DEF Remote, Like
<1>3. Like(Start(r), r)
  BY <1>1, <1>2 DEF Start
<1> QED
  BY <1>3 DEF StartIfNeeded, Like

LEMMA CloseLike ==
  ASSUME NEW r, NEW graceful
  PROVE  LET c == Close(r, graceful)
         IN  c.pipeline = r.pipeline /\ ~c.handshake /\ c.in = <<>>
BY DEF Close, Closed

LEMMA ReopenLike ==
  ASSUME IInv, NEW graceful \in BOOLEAN
  PROVE  LET c == StartIfNeeded(Close(remote, graceful))
         IN  c.pipeline = remote.pipeline /\ ~c.handshake
<1> DEFINE c == Close(remote, graceful)
<1>1. c \in Remote(Of(user, issuer))
  BY CloseSound DEF RemoteInv
<1>2. c.pipeline = remote.pipeline /\ ~c.handshake
  BY CloseLike
<1> HIDE DEF c
<1>3. Like(StartIfNeeded(c), c)
  BY <1>1, StartLike
<1> QED
  BY <1>2, <1>3 DEF Like, c

LEMMA StopLike ==
  ASSUME NEW r
  PROVE  /\ Stop(r).pipeline = r.pipeline
         /\ Stop(r).handshake => r.handshake /\ Stop(r).in = r.in
BY CloseLike DEF Stop

LEMMA BackoffElapsesPromise ==
  ASSUME IInv, HistoryInv, BackoffElapses
  PROVE  HistoryInv'
<1> DEFINE s == [remote EXCEPT !.state = "Initial"]
<1>1. remote' = Start(s) /\ RemoteOnly
  BY DEF BackoffElapses
<1>2. s \in Remote(Of(user, issuer)) /\ Like(s, remote)
  BY StreamFacts DEF Remote, Like
<1> HIDE DEF s
<1>3. Like(remote', remote)
  BY <1>1, <1>2, StartLike DEF Like
<1> QED
  BY <1>1, <1>3, StreamStep
     DEF Like, RemoteOnly, storeVars, history, HistoryInv, OrderInv

LEMMA IdleTimerFiresPromise ==
  ASSUME IInv, HistoryInv, IdleTimerFires
  PROVE  HistoryInv'
BY StopLike, StreamStep
   DEF IdleTimerFires, RemoteOnly, storeVars, history, HistoryInv, OrderInv

LEMMA StreamFailsPromise ==
  ASSUME IInv, HistoryInv, StreamFails
  PROVE  HistoryInv'
BY ReopenLike, StreamStep
   DEF StreamFails, RemoteOnly, storeVars, history, HistoryInv, OrderInv

\* Nothing is acknowledged with the handshake.
LEMMA ReadHandshakePromise ==
  ASSUME IInv, HistoryInv, ReadHandshake
  PROVE  HistoryInv'
<1> DEFINE t == Tail(remote.in)
           s == [remote EXCEPT !.handshake = TRUE, !.in = t]
           f == Send(s, remote.pipeline)
<1>1. remote.in # <<>> /\ ~remote.handshake /\ RemoteOnly /\ remote' = f
  BY DEF ReadHandshake
<1>2. remote.in = <<Handshake>>
  BY <1>1, StreamFacts DEF RemoteInv
<1>3. t = <<>>
  BY <1>2
<1> HIDE DEF t
<1>4. remote \in Remote(Of(user, issuer))
  BY StreamFacts
<1>5. \A x, y : LET z == [s EXCEPT !.out = x, !.idle = y] IN Like(z, s)
  BY <1>4 DEF Remote, Like
<1>6. s.pipeline = remote.pipeline /\ s.in = t
  BY <1>4 DEF Remote
<1> HIDE DEF s
<1>7. Like(f, s)
  BY <1>5 DEF Send, Like
<1> HIDE DEF f
<1> QED
  BY <1>1, <1>3, <1>6, <1>7, StreamStep
     DEF Like, RemoteOnly, storeVars, history, HistoryInv, OrderInv

LEMMA RefusePromise ==
  ASSUME IInv, HistoryInv, Refuse
  PROVE  HistoryInv'
<1> DEFINE o == Tail(remote.out)
<1>1. /\ remote' = [remote EXCEPT !.out = o, !.status = "Permanent"]
      /\ UNCHANGED <<authVars, tasks, storeVars, log, ends, history>>
  BY DEF Refuse
<1> HIDE DEF o
<1>2. Like(remote', remote)
  BY <1>1, StreamFacts DEF Remote, Like
<1> QED
  BY <1>1, <1>2, StreamStep DEF Like, storeVars, history, HistoryInv, OrderInv

LEMMA CallBreaksPromise ==
  ASSUME IInv, HistoryInv, CallBreaks
  PROVE  HistoryInv'
<1>1. UNCHANGED <<authVars, tasks, storeVars, log, ends, refused, issuer, lost, restarts>>
  BY DEF CallBreaks
<1>2. \A x : Like([remote EXCEPT !.status = x], remote)
  BY StreamFacts DEF Remote, Like
<1>3. \A x, y : Like([remote EXCEPT !.out = x, !.status = y], remote)
  BY StreamFacts DEF Remote, Like
<1>4. Like(remote', remote)
  <2> DEFINE o == Tail(remote.out)
  <2>1. CASE remote' = [remote EXCEPT !.status = "Transient"]
    BY <1>2, <2>1
  <2>2. CASE remote' = [remote EXCEPT !.out = o, !.status = "Permanent"]
    <3> HIDE DEF o
    <3> QED
      BY <1>3, <2>2
  <2> QED
    BY <2>1, <2>2 DEF CallBreaks
<1> QED
  BY <1>1, <1>4, StreamStep DEF Like, storeVars, HistoryInv, OrderInv

\* An operation that is not a write comes to the worker queue.
LEMMA OtherTask ==
  ASSUME IInv, HistoryInv, NEW e \in Task, e.kind # "write"
  PROVE  InOrder(Append(tasks, e)) /\ Writes(Append(tasks, e)) = Writes(tasks)
BY Facts, WritesAppend DEF HistoryInv, OrderInv

LEMMA AuthChangesPromise ==
  ASSUME IInv, HistoryInv, NEW u \in User, AuthChanges(u)
  PROVE  HistoryInv'
<1> DEFINE e == [kind |-> "credential", user |-> u]
<1>1. tasks' = Append(tasks, e) /\ UNCHANGED <<storeVars, remote, log, ends, refused, history>>
  BY DEF AuthChanges
<1>2. e \in Task /\ e.kind # "write"
  BY DEF Task
<1> HIDE DEF e
<1>3. InOrder(tasks') /\ Writes(tasks') = Writes(tasks)
  BY <1>1, <1>2, OtherTask
<1> QED
  BY <1>1, <1>3, StreamStep DEF storeVars, history

LEMMA TokenPromise ==
  ASSUME IInv, HistoryInv, NEW a \in remote.asked, TokenAnswered(a) \/ TokenRefused(a)
  PROVE  HistoryInv'
<1>1. UNCHANGED <<authVars, storeVars, log, ends, issuer, lost, restarts>>
  BY DEF TokenAnswered, TokenRefused, history
<1>2. \A x : Like([remote EXCEPT !.asked = x], remote)
  BY StreamFacts DEF Remote, Like
<1>3. Like(remote', remote)
  BY <1>2 DEF TokenAnswered, TokenRefused
<1>4. InOrder(tasks') /\ Writes(tasks') = Writes(tasks)
  <2>1. a.closes \in Nat /\ a.user \in User
    BY StreamFacts
  <2>2. CASE tasks' = tasks
    BY <2>2 DEF HistoryInv, OrderInv
  <2>3. ASSUME NEW ok \in BOOLEAN,
               tasks' = Append(tasks, [kind |-> "token", closes |-> a.closes,
                                       user |-> a.user, ok |-> ok])
        PROVE  InOrder(tasks') /\ Writes(tasks') = Writes(tasks)
    <3> DEFINE e == [kind |-> "token", closes |-> a.closes, user |-> a.user, ok |-> ok]
    <3>1. e \in Task /\ e.kind # "write"
      BY <2>1 DEF Task
    <3>2. tasks' = Append(tasks, e)
      BY <2>3
    <3> HIDE DEF e
    <3> QED
      BY <3>1, <3>2, OtherTask
  <2> QED
    BY <2>2, <2>3 DEF TokenAnswered, TokenRefused
<1> QED
  BY <1>1, <1>3, <1>4, StreamStep DEF Like, storeVars

LEMMA RunTokenPromise ==
  ASSUME IInv, HistoryInv, RunToken
  PROVE  HistoryInv'
<1> DEFINE t == Head(tasks)
<1>1. /\ tasks # <<>> /\ t.kind = "token" /\ tasks' = Tail(tasks)
      /\ remote' = IF t.closes # remote.closes THEN remote
                   ELSE IF t.ok
                     THEN [remote EXCEPT !.state = "Open", !.caller = t.user,
                                         !.out = <<Handshake>>]
                     ELSE StartIfNeeded(Close(remote, FALSE))
      /\ UNCHANGED <<authVars, storeVars, log, ends, refused, history>>
  BY DEF RunToken, IsNext
<1>2. InOrder(tasks') /\ Writes(tasks') = Writes(tasks)
  <2>1. tasks \in Seq(Task) /\ InOrder(tasks) /\ tasks # <<>>
    BY <1>1, Facts DEF HistoryInv, OrderInv
  <2>2. InOrder(Tail(tasks)) /\ Writes(tasks) = Writes(Tail(tasks)) \cup
          IF t.kind = "write" THEN {t.w} ELSE {}
    BY <2>1, WritesTail
  <2>3. t.kind # "write"
    BY <1>1
  <2>4. Writes(tasks) = Writes(Tail(tasks))
    BY <2>2, <2>3
  <2> QED
    BY <1>1, <2>2, <2>4
<1>3. Like([remote EXCEPT !.state = "Open", !.caller = t.user, !.out = <<Handshake>>], remote)
  BY StreamFacts DEF Remote, Like
<1> HIDE DEF t
<1>4. /\ remote'.pipeline = remote.pipeline
      /\ remote'.handshake => remote.handshake /\ remote'.in = remote.in
  BY <1>1, <1>3, ReopenLike DEF Like
<1> QED
  BY <1>1, <1>2, <1>4, StreamStep DEF storeVars, history

-----------------------------------------------------------------------------
(* The app, and the end of the process *)

\* Where writes are does not change while queues, log and ends do not.
LEMMA SamePlaces ==
  ASSUME UNCHANGED <<queue, log, ends>>
  PROVE  /\ \A u : Queued(u)' = Queued(u)
         /\ Applied' = Applied /\ Ended' = Ended
BY DEF Queued, Applied, Ended

LEMMA PastIn ==
  /\ \A u \in User : Queued(u) \subseteq Past
  /\ Applied \subseteq Past /\ Ended \subseteq Past /\ lost \subseteq Past
BY DEF Past

LEMMA AppliedFacts ==
  ASSUME IInv
  PROVE  /\ \A i \in DOMAIN log : log[i].w \in Applied /\ log[i].w \in DOMAIN issuer
                                 /\ log[i].w \in Int
         /\ \A w \in Applied : \E i \in DOMAIN log : log[i].w = w
<1>1. \A i \in DOMAIN log : log[i].w \in DOMAIN issuer
  BY DEF IInv
<1> QED
  BY <1>1, Facts DEF Applied, ToSet

\* A write is newer than all that have left the worker queue.
LEMMA IssuePromise ==
  ASSUME IInv, HistoryInv, Issue
  PROVE  HistoryInv'
<1> DEFINE n == Len(issuer) + 1
           e == [kind |-> "write", w |-> n]
<1>1. /\ issuer' = Append(issuer, auth) /\ tasks' = Append(tasks, e) /\ Len(issuer) < MaxWrites
      /\ UNCHANGED <<authVars, storeVars, remote, log, ends, refused, lost, failures, restarts>>
  BY DEF Issue
<1>2. /\ issuer' \in Seq(User) /\ n \in Nat \ {0}
      /\ DOMAIN issuer = 1..(n - 1) /\ DOMAIN issuer' = 1..n
      /\ \A w \in DOMAIN issuer : issuer'[w] = issuer[w]
  BY <1>1, Facts, AppendProperties, SeqBasics
<1>3. e \in Task /\ e.kind = "write" /\ e.w = n
  BY <1>1, <1>2, Facts, PipelineAssumption DEF Task, Write
<1> HIDE DEF e, n
<1>4. \A x \in DOMAIN issuer : x \in Int /\ x < n /\ x \in DOMAIN issuer'
  BY <1>2
<1>5. InOrder(tasks') /\ Writes(tasks') = Writes(tasks) \cup {n}
  <2>1. \A w \in Writes(tasks) : w < n
    BY <1>4, Facts
  <2>2. tasks \in Seq(Task) /\ InOrder(tasks)
    BY Facts DEF HistoryInv, OrderInv
  <2>3. /\ InOrder(Append(tasks, e))
        /\ Writes(Append(tasks, e)) = Writes(tasks) \cup IF e.kind = "write" THEN {e.w} ELSE {}
    BY <1>3, <2>1, <2>2, WritesAppend
  <2> QED
    BY <1>1, <1>3, <2>3
<1>6. /\ UNCHANGED <<user, queue, nextId, callbacks, restarts, log, ends, lost>>
      /\ remote' = remote
  BY <1>1 DEF storeVars
<1>7. /\ \A u : Queued(u)' = Queued(u)
      /\ Applied' = Applied /\ Ended' = Ended /\ Past' = Past
  BY <1>6, SamePlaces DEF Past
<1>8. QueueInv'
  BY <1>6 DEF HistoryInv, QueueInv
<1>9. OrderInv'
  <2>1. InOrder(tasks)' /\ (Past \subseteq DOMAIN issuer)'
    BY <1>4, <1>5, <1>7 DEF HistoryInv, OrderInv
  <2>2. \A w \in Writes(tasks'), x \in Past : x < w
    BY <1>4, <1>5 DEF HistoryInv, OrderInv
  <2>3. \A d \in ends : d.w \in DOMAIN issuer
    BY PastIn DEF Ended, HistoryInv, OrderInv
  <2>4. \A d \in ends : \A w \in Queued(issuer'[d.w]) : d.w < w
    BY <1>2, <2>3 DEF HistoryInv, OrderInv
  <2>5. \A w \in DOMAIN issuer' :
          w \in Writes(tasks') \cup Queued(issuer'[w]) \cup Ended \cup lost
    <3>1. \A w \in DOMAIN issuer' : w \in DOMAIN issuer \/ w = n
      BY <1>2
    <3> QED
      BY <1>2, <1>5, <3>1 DEF HistoryInv, OrderInv
  <2> QED
    BY <1>6, <1>7, <2>1, <2>2, <2>4, <2>5 DEF HistoryInv, OrderInv
<1>10. AppliedInv'
  <2>1. \A w \in DOMAIN issuer : Latest(w)' <=> Latest(w)
    BY <1>2, <1>6, AppliedFacts, LogStays
  <2>2. AppliedInOrder'
    BY <1>6, OrderStays DEF HistoryInv, AppliedInv
  <2>3. AcknowledgedIsLatest'
    <3>1. \A d \in ends : d.w \in DOMAIN issuer
      BY PastIn DEF Ended, HistoryInv, OrderInv
    <3> QED
      BY <1>6, <2>1, <3>1, AcknowledgedLatest DEF HistoryInv, AppliedInv
  <2>4. ASSUME remote.handshake, NEW i \in 1..Len(remote.in)
        PROVE  Latest(remote.pipeline[i].w)'
    <3>1. Len(remote.in) <= Len(remote.pipeline) /\ Len(remote.in) \in Nat
          /\ Len(remote.pipeline) \in Nat
      BY <2>4, StreamFacts, Facts, SeqBasics DEF RemoteInv
    <3>2. i \in 1..Len(remote.pipeline)
      BY <3>1
    <3>3. remote.pipeline[i] \in Of(user, issuer)
      BY <3>2, Facts, SeqBasics
    <3>4. remote.pipeline[i].w \in DOMAIN issuer
      BY <3>3 DEF Of
    <3> DEFINE w == remote.pipeline[i].w
    <3>5. Latest(w)
      BY <2>4 DEF HistoryInv, AppliedInv
    <3>6. w' = w
      BY <1>6
    <3> HIDE DEF w
    <3>7. Latest(w)'
      BY <2>1, <3>4, <3>5, <3>6 DEF w
    <3> QED
      BY <3>6, <3>7 DEF w
  <2> QED
    BY <1>6, <2>2, <2>3, <2>4 DEF AppliedInv
<1>11. CompletionsAreRight'
  BY <1>6 DEF HistoryInv, CompletionsAreRight
<1> QED
  BY <1>8, <1>9, <1>10, <1>11 DEF HistoryInv

\* A fresh pipeline has the first batches of the account's queue.
LEMMA FreshPipeline ==
  ASSUME IInv, QueueInv, NEW v \in User, NEW r \in Remote(Of(v, issuer)),
         r.pipeline = <<>>, ~r.handshake
  PROVE  LET f == FillWritePipeline(r, queue[v])
         IN  Begins(f.pipeline, queue[v]) /\ ~f.handshake
<1> DEFINE S == Of(v, issuer)
           q == queue[v]
<1>1. q \in Seq(S) /\ S \in SUBSET Batch
  BY QueueFacts, BatchBasics
<1>2. Ascending(q)
  BY DEF QueueInv
<1>3. \A i \in DOMAIN q : q[i].id > 0
  <2>1. nextId \in Nat
    BY Facts
  <2>2. \A i \in DOMAIN q : q[i].id \in 1..(nextId - 1)
    BY DEF QueueInv, ToSet
  <2> QED
    BY <2>1, <2>2
<1>4. Begins(r.pipeline, q) /\ Len(r.pipeline) <= MaxPendingWrites
  BY <1>1, BeginsSame, PipelineAssumption
<1> HIDE DEF S, q
<1> QED
  BY <1>1, <1>2, <1>3, <1>4, FillBegins DEF S, q

\* What has been on disk stays, and only the rest is lost.
LEMMA RestartPromise ==
  ASSUME IInv, HistoryInv, Restart
  PROVE  HistoryInv'
<1>1. /\ restarts' = restarts + 1 /\ tasks' = <<>>
      /\ lost' = lost \cup Writes(tasks)
      /\ user' = auth /\ nextId' = HighestId + 1
      /\ callbacks' = [u \in User |-> {}] /\ remote' = FillWritePipeline(Closed, queue[auth])
      /\ UNCHANGED <<queue, log, ends, issuer>>
  BY DEF Restart, Writes
<1>2. QueueInv /\ OrderInv /\ AppliedInv /\ CompletionsAreRight
  BY DEF HistoryInv
<1>3. Begins(remote'.pipeline, queue[auth]) /\ ~remote'.handshake
  <2>1. Closed \in Remote(Of(auth, issuer)) /\ Closed.pipeline = <<>> /\ ~Closed.handshake
    BY DEF Closed, Remote
  <2> QED
    BY <1>1, <1>2, <2>1, FreshPipeline, Facts
<1>4. QueueInv'
  <2>1. \A u \in User : \A b \in ToSet(queue[u]) : b.id \in 1..(nextId' - 1)
    <3>1. HighestId \in Nat /\ \A u \in User : \A b \in ToSet(queue[u]) : b.id <= HighestId
      BY HighestIdType, Facts
    <3>2. \A u \in User : \A b \in ToSet(queue[u]) : b.id \in 1..(nextId - 1)
      BY <1>2 DEF QueueInv
    <3> QED
      BY <1>1, <3>1, <3>2, Facts
  <2>2. restarts' # 0
    BY <1>1, Facts
  <2>3. nextId' > 0
    BY <1>1, HighestIdType, Facts
  <2> QED
    BY <1>1, <1>2, <1>3, <2>1, <2>2, <2>3 DEF QueueInv
<1>5. OrderInv'
  <2>1. /\ \A u : Queued(u)' = Queued(u)
        /\ Applied' = Applied /\ Ended' = Ended
    BY <1>1, SamePlaces
  <2>2. Past' = Past \cup Writes(tasks)
    BY <1>1, <2>1 DEF Past
  <2>3. Writes(tasks') = {} /\ InOrder(tasks')
    BY <1>1, InTasks DEF InOrder
  <2>4. \A w \in Writes(tasks) : w \notin Past
    BY <1>2, Facts DEF OrderInv
  <2>5. \A w \in lost' : w \notin Ended /\ \A u \in User : w \notin Queued(u)
    BY <1>1, <1>2, <2>4, PastIn DEF OrderInv
  <2>6. (Past \subseteq DOMAIN issuer)'
    BY <1>1, <1>2, <2>2, Facts DEF OrderInv
  <2>7. \A w \in DOMAIN issuer : w \in Queued(issuer[w]) \cup Ended \cup lost'
    BY <1>1, <1>2 DEF OrderInv
  <2> QED
    BY <1>1, <1>2, <2>1, <2>3, <2>5, <2>6, <2>7 DEF OrderInv
<1>6. AppliedInv'
  <2>1. \A w : Latest(w)' <=> Latest(w)
    BY <1>1, LogStays
  <2>2. AppliedInOrder' /\ AcknowledgedIsLatest'
    BY <1>1, <1>2, <2>1, OrderStays, AcknowledgedLatest DEF AppliedInv
  <2> QED
    BY <1>3, <2>2 DEF AppliedInv
<1>7. CompletionsAreRight'
  <2>1. restarts' # 0
    BY <1>1, Facts
  <2> QED
    BY <1>1, <1>2, <2>1 DEF CompletionsAreRight
<1> QED
  BY <1>4, <1>5, <1>6, <1>7 DEF HistoryInv

-----------------------------------------------------------------------------
(* Operations of the worker queue *)

LEMMA Appended ==
  ASSUME NEW S, NEW q \in Seq(S), NEW b \in S
  PROVE  /\ Append(q, b) \in Seq(S) /\ Begins(q, Append(q, b))
         /\ ToSet(Append(q, b)) = ToSet(q) \cup {b}
<1> DEFINE n == Len(q) + 1
           a == Append(q, b)
<1>1. /\ n \in Nat \ {0} /\ DOMAIN q = 1..(n - 1) /\ DOMAIN a = 1..n /\ Len(q) = n - 1
      /\ a \in Seq(S) /\ Len(a) = n /\ \A i \in 1..(n - 1) : a[i] = q[i]
      /\ a[n] = b
  BY AppendProperties, SeqBasics
<1> HIDE DEF a, n
<1>2. Begins(q, a)
  BY <1>1 DEF Begins
<1>3. \A i \in 1..n : i \in 1..(n - 1) \/ i = n
  BY <1>1
<1>4. n \in 1..n /\ \A i \in 1..(n - 1) : i \in 1..n
  BY <1>1
<1>5. ToSet(a) = ToSet(q) \cup {b}
  <2>1. \A x : x \in ToSet(a) <=> \E i \in 1..n : a[i] = x
    BY <1>1 DEF ToSet
  <2>2. \A x : x \in ToSet(q) <=> \E i \in 1..(n - 1) : q[i] = x
    BY <1>1 DEF ToSet
  <2> QED
    BY <1>1, <1>3, <1>4, <2>1, <2>2
<1> QED
  BY <1>1, <1>2, <1>5 DEF a

\* The writes in A reach into queue q from its front.
Reached(q, A) == \A j \in DOMAIN q : \A i \in 1..(j - 1) : q[j].w \in A => q[i].w \in A

LEMMA OrderIsReached ==
  /\ AppliedInOrder <=> \A u \in User : Reached(queue[u], Applied)
  /\ AppliedInOrder' <=> \A u \in User : Reached(queue'[u], Applied')
BY DEF AppliedInOrder, Reached, Applied

LEMMA ReachedAppend ==
  ASSUME NEW q \in Seq(Batch), NEW b \in Batch, NEW A, Reached(q, A), b.w \notin A
  PROVE  Reached(Append(q, b), A)
<1> DEFINE n == Len(q) + 1
           a == Append(q, b)
<1>1. /\ n \in Nat \ {0} /\ DOMAIN q = 1..(n - 1) /\ DOMAIN a = 1..n
      /\ \A i \in 1..(n - 1) : a[i] = q[i]
      /\ a[n] = b
  BY AppendProperties, SeqBasics
<1> HIDE DEF a, n
<1>2. ASSUME NEW j \in 1..n, NEW i \in 1..(j - 1), a[j].w \in A
      PROVE  a[i].w \in A
  <2>1. j # n
    BY <1>1, <1>2
  <2>2. j \in 1..(n - 1) /\ i \in 1..(n - 1)
    BY <1>1, <2>1
  <2> QED
    BY <1>1, <1>2, <2>2 DEF Reached
<1> QED
  BY <1>1, <1>2 DEF Reached, a

\* What has been answered stays the first part of the pipeline.
LEMMA AnsweredStays ==
  ASSUME IInv, HistoryInv, remote.handshake, remote'.in = remote.in,
         NEW S, remote'.pipeline \in Seq(S), Begins(remote.pipeline, remote'.pipeline),
         \A w : Latest(w)' <=> Latest(w)
  PROVE  (\A i \in 1..Len(remote.in) : Latest(remote.pipeline[i].w))'
<1>1. /\ Len(remote.in) <= Len(remote.pipeline) /\ Len(remote.in) \in Nat
      /\ Len(remote.pipeline) \in Nat
  BY StreamFacts, Facts, SeqBasics DEF RemoteInv
<1>2. ASSUME NEW i \in 1..Len(remote.in)
      PROVE  Latest(remote.pipeline[i].w)'
  <2> DEFINE w == remote.pipeline[i].w
  <2>1. Latest(w)
    BY DEF HistoryInv, AppliedInv
  <2>2. w' = w
    BY <1>1 DEF Begins
  <2> HIDE DEF w
  <2>3. Latest(w)'
    BY <2>1, <2>2 DEF w
  <2> QED
    BY <2>2, <2>3 DEF w
<1> QED
  BY <1>2

LEMMA PastOlder ==
  ASSUME IInv, OrderInv
  PROVE  \A w \in Writes(tasks), x \in Past : x < w /\ x # w /\ x \in Int
<1>1. \A x \in Past : x \in Int
  BY Facts DEF OrderInv
<1>2. \A w \in Writes(tasks) : w \in Int
  BY Facts
<1> QED
  BY <1>1, <1>2 DEF OrderInv

\* A new batch comes last in its queue, with a write newer than all before.
LEMMA RunWritePromise ==
  ASSUME IInv, HistoryInv, RunWrite
  PROVE  HistoryInv'
<1> DEFINE S == Of(user, issuer)
           t == Head(tasks)
           b == [id |-> nextId, w |-> t.w]
           known == {c \in callbacks[user] : c.id = nextId}
           old == queue[user]
           q == Append(old, b)
           f == FillWritePipeline(remote, q)
           tt == Tail(tasks)
<1>1. /\ tasks # <<>> /\ t.kind = "write"
      /\ queue' = [queue EXCEPT ![user] = q]
      /\ callbacks' = [callbacks EXCEPT ![user] = IF known = {} THEN @ \cup {b} ELSE @]
      /\ remote' = f /\ nextId' = nextId + 1 /\ tasks' = tt
      /\ UNCHANGED <<user, log, ends, issuer, lost, restarts>>
  BY DEF RunWrite, IsNext, history
<1>2. QueueInv /\ OrderInv /\ AppliedInv /\ CompletionsAreRight
  BY DEF HistoryInv
<1>3. t \in Task /\ t.w \in DOMAIN issuer /\ issuer[t.w] = user
  BY <1>1, RunFacts DEF After
<1>4. /\ InOrder(tt) /\ Writes(tasks) = Writes(tt) \cup {t.w}
      /\ \A w \in Writes(tt) : t.w < w
  <2>1. tasks \in Seq(Task) /\ InOrder(tasks) /\ tasks # <<>>
    BY <1>1, <1>2, Facts DEF OrderInv
  <2>2. /\ InOrder(tt)
        /\ Writes(tasks) = Writes(tt) \cup IF t.kind = "write" THEN {t.w} ELSE {}
        /\ t.kind = "write" => \A w \in Writes(tt) : t.w < w
    BY <2>1, WritesTail
  <2> HIDE DEF t, tt
  <2> QED
    BY <1>1, <2>2
<1> HIDE DEF t, tt
<1>5. t.w \in Write /\ t.w \in Int /\ nextId \in Nat /\ user \in User
  <2>1. nextId \in Nat /\ user \in User
    BY Facts
  <2>2. t.w \in Write
    BY <1>1, <1>3 DEF Task
  <2> QED
    BY <2>1, <2>2, PipelineAssumption DEF Write
<1>6. \A x \in Past : x < t.w /\ x # t.w
  BY <1>2, <1>4, <1>5, PastOlder
<1>7. b \in Batch /\ b \in S /\ b.id = nextId /\ b.w = t.w
  BY <1>3, <1>5 DEF Of, Batch
<1> HIDE DEF b
<1>8. /\ old \in Seq(S) /\ S \in SUBSET Batch /\ old \in Seq(Batch)
      /\ DOMAIN old = 1..Len(old)
      /\ queue \in [User -> Seq(Batch)] /\ callbacks \in [User -> SUBSET Batch]
  BY <1>5, QueueFacts, Facts
<1>9. \A c \in ToSet(old) : c.id \in 1..(nextId - 1) /\ c.w \in Queued(user)
  BY <1>2, <1>5 DEF QueueInv, Queued
<1>10. known = {}
  <2>1. \A c \in callbacks[user] : c \in ToSet(old)
    BY <1>2, <1>5 DEF QueueInv
  <2> QED
    BY <1>5, <1>9, <2>1
<1>11. q \in Seq(S) /\ Begins(old, q) /\ ToSet(q) = ToSet(old) \cup {b}
  BY <1>7, <1>8, Appended
<1>12. Ascending(q) /\ q \in Seq(Batch)
  <2>1. \A i \in DOMAIN old : old[i] \in ToSet(old)
    BY DEF ToSet
  <2>2. \A i \in DOMAIN old : old[i].id < b.id /\ old[i].w < b.w
    BY <1>5, <1>6, <1>7, <1>9, <2>1, PastIn
  <2>3. Ascending(old)
    BY <1>2, <1>5 DEF QueueInv
  <2> HIDE DEF old
  <2> QED
    BY <1>7, <1>8, <2>2, <2>3, AscendingAppend, AppendProperties
<1>13. \A c \in ToSet(q) : c.id \in 1..((nextId + 1) - 1)
  BY <1>2, <1>5, <1>7, <1>9, <1>11 DEF QueueInv
<1>14. Begins(remote.pipeline, q)
  <2>1. Begins(remote.pipeline, old)
    BY <1>2 DEF QueueInv
  <2> HIDE DEF old, q
  <2> QED
    BY <1>8, <1>11, <2>1, Facts, BeginsTrans
<1> HIDE DEF q, known
<1>15. /\ f.pipeline \in Seq(S) /\ Begins(f.pipeline, q) /\ Begins(remote.pipeline, f.pipeline)
       /\ f.handshake = remote.handshake /\ f.in = remote.in
  <2>1. \A i \in DOMAIN q : q[i].id > 0
    BY <1>5, <1>13 DEF ToSet
  <2>2. remote \in Remote(S) /\ Len(remote.pipeline) <= MaxPendingWrites
    BY Facts
  <2> HIDE DEF S
  <2> QED
    BY <1>8, <1>11, <1>12, <1>14, <2>1, <2>2, FillBegins
<1> HIDE DEF f
<1>16. /\ \A u \in User : queue'[u] = IF u = user THEN q ELSE queue[u]
       /\ \A u \in User : callbacks'[u] = IF u = user THEN callbacks[u] \cup {b} ELSE callbacks[u]
  BY <1>1, <1>5, <1>8, <1>10
<1>17. \A u \in User : Queued(u)' = IF u = user THEN Queued(u) \cup {t.w} ELSE Queued(u)
  BY <1>7, <1>11, <1>16 DEF Queued, old
<1>18. Applied' = Applied /\ Ended' = Ended /\ lost' = lost
  BY <1>1 DEF Applied, Ended
<1>19. Past' = Past \cup {t.w}
  BY <1>5, <1>17, <1>18 DEF Past
<1>20. QueueInv'
  <2>1. ASSUME NEW u \in User
        PROVE  /\ Ascending(queue'[u])
               /\ \A c \in ToSet(queue'[u]) : c.id \in 1..(nextId' - 1)
               /\ callbacks'[u] \subseteq ToSet(queue'[u])
               /\ restarts = 0 => callbacks'[u] = ToSet(queue'[u])
    <3>1. CASE u = user
      <4>1. /\ queue'[u] = q /\ callbacks'[u] = callbacks[user] \cup {b}
            /\ nextId' = nextId + 1
        BY <1>1, <1>16, <3>1
      <4>2. callbacks[user] \subseteq ToSet(old) /\ (restarts = 0 => callbacks[user] = ToSet(old))
        BY <1>2, <1>5 DEF QueueInv
      <4> HIDE DEF old
      <4> QED
        BY <1>11, <1>12, <1>13, <4>1, <4>2
    <3>2. CASE u # user
      BY <1>1, <1>2, <1>5, <1>16, <3>2 DEF QueueInv
    <3> QED
      BY <3>1, <3>2
  <2>2. Begins(remote'.pipeline, queue'[user'])
    BY <1>1, <1>5, <1>15, <1>16
  <2>3. nextId' > 0
    BY <1>1, <1>5
  <2> QED
    BY <1>1, <2>1, <2>2, <2>3 DEF QueueInv
<1>21. OrderInv'
  <2>1. InOrder(tasks') /\ (Past \subseteq DOMAIN issuer)'
    BY <1>1, <1>2, <1>3, <1>4, <1>19 DEF OrderInv
  <2>2. \A w \in Writes(tasks'), x \in Past' : x < w
    BY <1>1, <1>2, <1>4, <1>19 DEF OrderInv
  <2>3. (\A e \in ends : \A w \in Queued(issuer[e.w]) : e.w < w)'
    <3>1. ASSUME NEW e \in ends, NEW u \in User, u = issuer[e.w], NEW w \in Queued(u)'
          PROVE  e.w < w
      <4>1. e.w < t.w
        BY <1>6, PastIn DEF Ended
      <4>2. w \in Queued(u) => e.w < w
        BY <1>2, <3>1 DEF OrderInv
      <4> QED
        BY <1>17, <4>1, <4>2
    <3>2. \A e \in ends : issuer[e.w] \in User
      BY <1>2, PastIn, Facts DEF Ended, OrderInv
    <3> QED
      BY <1>1, <3>1, <3>2
  <2>4. \A w \in lost' : w \notin Ended' /\ \A u \in User : w \notin Queued(u)'
    BY <1>2, <1>6, <1>17, <1>18, PastIn DEF OrderInv
  <2>5. (\A w \in DOMAIN issuer :
           w \in Writes(tasks) \cup Queued(issuer[w]) \cup Ended \cup lost)'
    <3>1. ASSUME NEW w \in DOMAIN issuer, NEW u \in User, u = issuer[w]
          PROVE  w \in Writes(tt) \cup Queued(u)' \cup Ended \cup lost
      <4>1. w \in Writes(tasks) \cup Queued(u) \cup Ended \cup lost
        BY <1>2, <3>1 DEF OrderInv
      <4>2. w = t.w => u = user
        BY <1>3, <3>1
      <4> QED
        BY <1>4, <1>17, <4>1, <4>2
    <3>2. \A w \in DOMAIN issuer : issuer[w] \in User
      BY Facts
    <3> QED
      BY <1>1, <1>18, <3>1, <3>2
  <2> QED
    BY <2>1, <2>2, <2>3, <2>4, <2>5 DEF OrderInv
<1>22. AppliedInv'
  <2>1. \A w : Latest(w)' <=> Latest(w)
    BY <1>1, LogStays
  <2>2. AcknowledgedIsLatest'
    BY <1>1, <1>2, <2>1, AcknowledgedLatest DEF AppliedInv
  <2>3. AppliedInOrder'
    <3>1. \A u \in User : Reached(queue[u], Applied)
      BY <1>2, OrderIsReached DEF AppliedInv
    <3>2. Reached(q, Applied)
      BY <1>5, <1>6, <1>7, <1>8, <3>1, PastIn, ReachedAppend DEF q, old
    <3> QED
      BY <1>16, <1>18, <3>1, <3>2, OrderIsReached
  <2>4. remote'.handshake => (\A i \in 1..Len(remote.in) : Latest(remote.pipeline[i].w))'
    BY <1>1, <1>15, <2>1, AnsweredStays
  <2> QED
    BY <2>2, <2>3, <2>4 DEF AppliedInv
<1>23. CompletionsAreRight'
  BY <1>1, <1>2 DEF CompletionsAreRight
<1> QED
  BY <1>20, <1>21, <1>22, <1>23 DEF HistoryInv

\* Another account's pipeline comes from that account's queue.
LEMMA RunCredentialPromise ==
  ASSUME IInv, HistoryInv, RunCredential
  PROVE  HistoryInv'
<1> DEFINE v == Head(tasks).user
           s == [Stop(remote) EXCEPT !.pipeline = <<>>]
<1>1. /\ tasks # <<>> /\ Head(tasks).kind = "credential" /\ user' = v
      /\ nextId' = IF v = user THEN nextId ELSE HighestId + 1
      /\ remote' = FillWritePipeline(s, queue[v]) /\ tasks' = Tail(tasks)
      /\ UNCHANGED <<queue, callbacks, log, ends, issuer, lost, restarts>>
  BY DEF RunCredential, IsNext, history
<1>2. QueueInv /\ OrderInv /\ AppliedInv /\ CompletionsAreRight
  BY DEF HistoryInv
<1>3. InOrder(tasks') /\ Writes(tasks') = Writes(tasks)
  <2> DEFINE t == Head(tasks)
  <2>1. tasks \in Seq(Task) /\ InOrder(tasks) /\ tasks # <<>>
    BY <1>1, <1>2, Facts DEF OrderInv
  <2>2. InOrder(Tail(tasks)) /\ Writes(tasks) = Writes(Tail(tasks)) \cup
          IF t.kind = "write" THEN {t.w} ELSE {}
    BY <2>1, WritesTail
  <2>3. t.kind # "write"
    BY <1>1
  <2>4. Writes(tasks) = Writes(Tail(tasks))
    BY <2>2, <2>3
  <2> QED
    BY <1>1, <2>2, <2>4
<1>4. v \in User
  <2>1. Head(tasks) \in Task
    BY <1>1, RunFacts
  <2> QED
    BY <1>1, <2>1 DEF Task
<1>5. s \in Remote(Of(v, issuer)) /\ s.pipeline = <<>> /\ ~s.handshake
  BY EmptiedStream DEF RemoteInv
<1> HIDE DEF v, s
<1>6. Begins(remote'.pipeline, queue[v]) /\ ~remote'.handshake
  BY <1>1, <1>2, <1>4, <1>5, FreshPipeline
<1>7. QueueInv'
  <2>1. nextId' > 0 /\ \A u \in User : \A b \in ToSet(queue[u]) : b.id \in 1..(nextId' - 1)
    <3>1. HighestId \in Nat /\ \A u \in User : \A b \in ToSet(queue[u]) : b.id <= HighestId
      BY HighestIdType, Facts
    <3>2. nextId > 0 /\ \A u \in User : \A b \in ToSet(queue[u]) : b.id \in 1..(nextId - 1)
      BY <1>2 DEF QueueInv
    <3>3. CASE nextId' = nextId
      BY <3>2, <3>3
    <3>4. CASE nextId' = HighestId + 1
      BY <3>1, <3>2, <3>4, Facts
    <3> QED
      BY <1>1, <3>3, <3>4
  <2> QED
    BY <1>1, <1>2, <1>6, <2>1 DEF QueueInv
<1>8. OrderInv'
  <2>1. /\ \A u : Queued(u)' = Queued(u)
        /\ Applied' = Applied /\ Ended' = Ended /\ Past' = Past
    BY <1>1, SamePlaces DEF Past
  <2> QED
    BY <1>1, <1>2, <1>3, <2>1 DEF OrderInv
<1>9. AppliedInv'
  <2>1. \A w : Latest(w)' <=> Latest(w)
    BY <1>1, LogStays
  <2>2. AppliedInOrder' /\ AcknowledgedIsLatest'
    BY <1>1, <1>2, <2>1, OrderStays, AcknowledgedLatest DEF AppliedInv
  <2> QED
    BY <1>6, <2>2 DEF AppliedInv
<1>10. CompletionsAreRight'
  BY <1>1, <1>2 DEF CompletionsAreRight
<1> QED
  BY <1>7, <1>8, <1>9, <1>10 DEF HistoryInv

-----------------------------------------------------------------------------
(* Batches that are acknowledged or rejected *)

LEMMA FrontLeaves ==
  ASSUME NEW q \in Seq(Batch), q # <<>>, Ascending(q)
  PROVE  /\ Head(q) \in Batch /\ ToSet(q) = ToSet(Tail(q)) \cup {Head(q)}
         /\ \A c \in ToSet(Tail(q)) : Head(q).id < c.id /\ Head(q).w < c.w
<1> DEFINE n == Len(q)
           t == Tail(q)
<1>1. /\ n \in Nat \ {0} /\ DOMAIN q = 1..n /\ Head(q) = q[1] /\ Head(q) \in Batch
      /\ t \in Seq(Batch) /\ Len(t) = n - 1 /\ \A i \in 1..(n - 1) : t[i] = q[i + 1]
  BY HeadTailProperties, SeqBasics
<1>2. DOMAIN t = 1..(n - 1)
  BY <1>1, SeqBasics
<1>3. \A i \in 1..(n - 1) : q[1].id < t[i].id /\ q[1].w < t[i].w
  BY <1>1, AscendingTail
<1> HIDE DEF n, t
<1>4. \A i \in 1..n : i = 1 \/ \E k \in 1..(n - 1) : i = k + 1
  <2> SUFFICES ASSUME NEW i \in 1..n, i # 1 PROVE i - 1 \in 1..(n - 1) /\ i = (i - 1) + 1
    OBVIOUS
  <2> QED
    BY <1>1
<1>5. 1 \in 1..n /\ \A k \in 1..(n - 1) : k + 1 \in 1..n
  BY <1>1
<1>6. \A x : x \in ToSet(q) <=> \E i \in 1..n : q[i] = x
  BY <1>1 DEF ToSet
<1>7. \A x : x \in ToSet(t) <=> \E i \in 1..(n - 1) : t[i] = x
  BY <1>2 DEF ToSet
<1>8. ASSUME NEW x PROVE x \in ToSet(q) <=> x \in ToSet(t) \/ x = q[1]
  <2>1. ASSUME x \in ToSet(q) PROVE x \in ToSet(t) \/ x = q[1]
    <3>1. PICK i \in 1..n : q[i] = x
      BY <1>6, <2>1
    <3>2. CASE i = 1
      BY <3>1, <3>2
    <3>3. ASSUME NEW k \in 1..(n - 1), i = k + 1 PROVE x \in ToSet(t)
      BY <1>1, <1>7, <3>1, <3>3
    <3> QED
      BY <1>4, <3>2, <3>3
  <2>2. ASSUME x \in ToSet(t) PROVE x \in ToSet(q)
    BY <1>1, <1>5, <1>6, <1>7, <2>2
  <2> QED
    BY <1>5, <1>6, <2>1, <2>2
<1> QED
  BY <1>1, <1>3, <1>7, <1>8 DEF t

LEMMA SameInSet ==
  ASSUME NEW q \in Seq(Batch), Ascending(q), NEW b \in ToSet(q), NEW c \in ToSet(q),
         b.id = c.id \/ b.w = c.w
  PROVE  b = c
BY SameBatch DEF ToSet

LEMMA ReachedTail ==
  ASSUME NEW q \in Seq(Batch), q # <<>>, NEW A, Reached(q, A)
  PROVE  Reached(Tail(q), A)
<1> DEFINE n == Len(q)
           t == Tail(q)
<1>1. /\ n \in Nat \ {0} /\ DOMAIN q = 1..n /\ t \in Seq(Batch) /\ Len(t) = n - 1
      /\ \A i \in 1..(n - 1) : t[i] = q[i + 1]
  BY HeadTailProperties, SeqBasics
<1>2. DOMAIN t = 1..(n - 1)
  BY <1>1, SeqBasics
<1> HIDE DEF n, t
<1>3. ASSUME NEW j \in 1..(n - 1), NEW i \in 1..(j - 1), t[j].w \in A
      PROVE  t[i].w \in A
  <2>1. j + 1 \in 1..n /\ i + 1 \in 1..((j + 1) - 1) /\ i \in 1..(n - 1)
    BY <1>1
  <2>2. t[j] = q[j + 1] /\ t[i] = q[i + 1]
    BY <1>1, <2>1
  <2> QED
    BY <1>1, <1>3, <2>1, <2>2 DEF Reached
<1> QED
  BY <1>2, <1>3 DEF Reached, t

\* The front of the pipeline is the front of the queue, and who is told is the
\* one who wrote it.
LEMMA CompletePromise ==
  ASSUME IInv, HistoryInv, NEW ok \in BOOLEAN, remote.pipeline # <<>>,
         Complete(Head(remote.pipeline), ok),
         UNCHANGED <<tasks, user, nextId, log, issuer, lost, restarts>>,
         NEW r \in Remote(Of(user, issuer)), r.pipeline = Tail(remote.pipeline),
         remote' = FillWritePipeline(r, queue'[user]),
         r.handshake => remote.handshake /\ remote.in # <<>> /\ r.in = Tail(remote.in),
         ok => Latest(Head(remote.pipeline).w)
  PROVE  HistoryInv'
<1> DEFINE S == Of(user, issuer)
           p == remote.pipeline
           q == queue[user]
           b == Head(q)
           t == Tail(q)
           mine == {c \in callbacks[user] : c.id = b.id}
           e == [w |-> b.w, ok |-> ok, told |-> {c.w : c \in mine}]
           f == FillWritePipeline(r, t)
<1>1. QueueInv /\ OrderInv /\ AppliedInv /\ CompletionsAreRight
  BY DEF HistoryInv
<1>2. /\ user \in User /\ nextId \in Nat
      /\ p \in Seq(S) /\ q \in Seq(S) /\ S \in SUBSET Batch /\ q \in Seq(Batch)
      /\ queue \in [User -> Seq(Batch)] /\ callbacks \in [User -> SUBSET Batch]
      /\ Len(p) <= MaxPendingWrites
  BY QueueFacts, Facts
<1>3. Ascending(q) /\ Begins(p, q)
  BY <1>1, <1>2 DEF QueueInv
<1> HIDE DEF S
<1>4. /\ q # <<>> /\ Head(p) = b /\ Tail(p) \in Seq(S) /\ t \in Seq(S) /\ Begins(Tail(p), t)
  BY <1>2, <1>3, BeginsTail
<1>5. /\ queue' = [queue EXCEPT ![user] = t]
      /\ callbacks' = [callbacks EXCEPT ![user] = @ \ mine]
      /\ ends' = ends \cup {e}
  <2>1. Without(q, b) = t
    BY <1>2, <1>3, <1>4, WithoutFront
  <2>2. Complete(b, ok)
    BY <1>4
  <2> QED
    BY <2>1, <2>2 DEF Complete
<1>6. b \in Batch /\ ToSet(q) = ToSet(t) \cup {b}
      /\ \A c \in ToSet(t) : b.id < c.id /\ b.w < c.w
  BY <1>2, <1>3, <1>4, FrontLeaves
<1>7. /\ Ascending(t) /\ t \in Seq(Batch)
  BY <1>2, <1>3, <1>4, AscendingTail, HeadTailProperties
<1>8. callbacks[user] \subseteq ToSet(q) /\ (restarts = 0 => callbacks[user] = ToSet(q))
  BY <1>1, <1>2 DEF QueueInv
<1> HIDE DEF b, t
<1>9. mine \subseteq {b} /\ (restarts = 0 => mine = {b})
  <2>1. \A c \in ToSet(q) : c.id = b.id => c = b
    BY <1>2, <1>3, <1>6, SameInSet
  <2> HIDE DEF q
  <2> QED
    BY <1>6, <1>8, <2>1
<1>10. \A c \in ToSet(t) : c.id # b.id /\ c.w # b.w /\ c \in Batch
  <2>1. \A c \in ToSet(t) : c \in Batch
    BY <1>7 DEF ToSet
  <2>2. \A c \in Batch : c.id \in Int /\ c.w \in Int
    BY PipelineAssumption DEF Batch, Write
  <2> QED
    BY <1>6, <2>1, <2>2
<1>11. callbacks[user] \ mine \subseteq ToSet(t)
       /\ (restarts = 0 => callbacks[user] \ mine = ToSet(t))
  <2> HIDE DEF q
  <2> QED
    BY <1>6, <1>8, <1>10
<1>12. /\ \A u \in User : queue'[u] = IF u = user THEN t ELSE queue[u]
       /\ \A u \in User : callbacks'[u] = IF u = user THEN callbacks[user] \ mine ELSE callbacks[u]
  BY <1>2, <1>5
<1> HIDE DEF mine
<1>13. /\ b.w \in Queued(user) /\ b.w \in DOMAIN issuer /\ issuer[b.w] = user
       /\ b.w \in Int
  <2>1. b.w \in Queued(user)
    BY <1>6 DEF Queued, q
  <2> QED
    BY <1>2, <2>1, QueuedFacts
<1>14. /\ \A u \in User : u # user => Queued(u)' = Queued(u)
       /\ Queued(user) = Queued(user)' \cup {b.w}
       /\ \A w \in Queued(user)' : b.w < w /\ b.w # w
  <2>1. Queued(user)' = {c.w : c \in ToSet(t)}
    BY <1>2, <1>12 DEF Queued
  <2>2. Queued(user) = {c.w : c \in ToSet(t)} \cup {b.w}
    BY <1>6 DEF Queued, q
  <2>3. \A u \in User : u # user => Queued(u)' = Queued(u)
    BY <1>12 DEF Queued
  <2> QED
    BY <1>6, <1>10, <2>1, <2>2, <2>3
<1>15. Applied' = Applied /\ Ended' = Ended \cup {b.w} /\ lost' = lost
  <2>1. e.w = b.w
    OBVIOUS
  <2> HIDE DEF e
  <2>2. Ended' = Ended \cup {b.w}
    BY <1>5, <2>1 DEF Ended
  <2> QED
    BY <2>2 DEF Applied
<1>16. Past' \subseteq Past
  BY <1>2, <1>13, <1>14, <1>15 DEF Past
<1>17. /\ f.pipeline \in Seq(S) /\ Begins(f.pipeline, t) /\ Begins(Tail(p), f.pipeline)
       /\ f.handshake = r.handshake /\ f.in = r.in
  <2>1. \A i \in DOMAIN t : t[i].id > 0
    <3>1. \A c \in ToSet(q) : c.id \in 1..(nextId - 1)
      BY <1>1, <1>2 DEF QueueInv
    <3> HIDE DEF q
    <3>2. \A c \in ToSet(t) : c.id > 0
      BY <1>2, <1>6, <3>1
    <3> QED
      BY <3>2 DEF ToSet
  <2>2. Len(Tail(p)) <= MaxPendingWrites
    <3>1. Len(Tail(p)) = Len(p) - 1 /\ Len(p) \in Nat
      BY <1>2, HeadTailProperties, SeqBasics
    <3> HIDE DEF p
    <3> QED
      BY <1>2, <3>1, PipelineAssumption
  <2> HIDE DEF p
  <2>3. r \in Remote(S) /\ r.pipeline = Tail(p)
    BY DEF S, p
  <2> QED
    BY <1>2, <1>4, <1>7, <2>1, <2>2, <2>3, FillBegins
<1>18. remote' = f
  BY <1>2, <1>12
<1> HIDE DEF f
<1>19. QueueInv'
  <2>1. ASSUME NEW u \in User
        PROVE  /\ Ascending(queue'[u])
               /\ \A c \in ToSet(queue'[u]) : c.id \in 1..(nextId - 1)
               /\ callbacks'[u] \subseteq ToSet(queue'[u])
               /\ restarts = 0 => callbacks'[u] = ToSet(queue'[u])
    <3>1. CASE u = user
      <4>1. queue'[u] = t /\ callbacks'[u] = callbacks[user] \ mine
        BY <1>12, <3>1
      <4>2. \A c \in ToSet(q) : c.id \in 1..(nextId - 1)
        BY <1>1, <1>2 DEF QueueInv
      <4> HIDE DEF q
      <4> QED
        BY <1>6, <1>7, <1>11, <4>1, <4>2
    <3>2. CASE u # user
      BY <1>1, <1>12, <3>2 DEF QueueInv
    <3> QED
      BY <3>1, <3>2
  <2>2. Begins(remote'.pipeline, queue'[user'])
    BY <1>2, <1>12, <1>17, <1>18
  <2> QED
    BY <1>1, <2>1, <2>2 DEF QueueInv
<1>20. OrderInv'
  <2>1. InOrder(tasks') /\ (Past \subseteq DOMAIN issuer)'
    BY <1>1, <1>16 DEF OrderInv
  <2>2. \A w \in Writes(tasks'), x \in Past' : x < w
    BY <1>1, <1>16 DEF OrderInv
  <2>3. (\A d \in ends : \A w \in Queued(issuer[d.w]) : d.w < w)'
    <3>1. ASSUME NEW d \in ends', NEW u \in User, u = issuer[d.w], NEW w \in Queued(u)'
          PROVE  d.w < w
      <4>1. CASE d = e
        BY <1>13, <1>14, <3>1, <4>1
      <4>2. CASE d \in ends
        BY <1>1, <1>14, <3>1, <4>2 DEF OrderInv
      <4> QED
        BY <1>5, <4>1, <4>2
    <3>2. \A d \in ends' : issuer[d.w] \in User
      <4>1. \A d \in ends : d.w \in DOMAIN issuer
        BY <1>1, PastIn DEF Ended, OrderInv
      <4> QED
        BY <1>2, <1>5, <1>13, <4>1, Facts
    <3> QED
      BY <3>1, <3>2
  <2>4. \A w \in lost' : w \notin Ended' /\ \A u \in User : w \notin Queued(u)'
    <3>1. ASSUME NEW w \in lost, NEW u \in User PROVE w \notin Ended' /\ w \notin Queued(u)'
      <4>1. w \notin Ended /\ w \notin Queued(u) /\ w \notin Queued(user)
        BY <1>1, <1>2 DEF OrderInv
      <4> QED
        BY <1>13, <1>14, <1>15, <4>1
    <3> QED
      BY <1>2, <1>15, <3>1
  <2>5. (\A w \in DOMAIN issuer :
           w \in Writes(tasks) \cup Queued(issuer[w]) \cup Ended \cup lost)'
    <3>1. ASSUME NEW w \in DOMAIN issuer, NEW u \in User, u = issuer[w]
          PROVE  w \in Writes(tasks) \cup Queued(u)' \cup Ended' \cup lost
      <4>1. w \in Writes(tasks) \cup Queued(u) \cup Ended \cup lost
        BY <1>1, <3>1 DEF OrderInv
      <4> QED
        BY <1>14, <1>15, <4>1
    <3>2. \A w \in DOMAIN issuer : issuer[w] \in User
      BY Facts
    <3> QED
      BY <3>1, <3>2
  <2> QED
    BY <2>1, <2>2, <2>3, <2>4, <2>5 DEF OrderInv
<1>21. \A w : Latest(w)' <=> Latest(w)
  BY LogStays
<1>22. AcknowledgedIsLatest'
  BY <1>1, <1>4, <1>5, <1>21, AcknowledgedLatest DEF AppliedInv
<1>23. AppliedInOrder'
  <2>1. \A u \in User : Reached(queue[u], Applied)
    BY <1>1, OrderIsReached DEF AppliedInv
  <2>2. Reached(t, Applied)
    BY <1>2, <1>4, <2>1, ReachedTail DEF t
  <2> QED
    BY <1>12, <1>15, <2>1, <2>2, OrderIsReached
<1>24. ASSUME r.handshake, NEW i \in 1..Len(r.in)
       PROVE  Latest(f.pipeline[i].w)
  <2> DEFINE T == S \cup {Handshake}
  <2>1. /\ remote.in \in Seq(T) /\ remote.in # <<>> /\ r.in = Tail(remote.in)
        /\ remote.handshake
    BY <1>24, Facts DEF S
  <2> HIDE DEF T
  <2>2. Len(remote.in) \in Nat \ {0} /\ Len(r.in) = Len(remote.in) - 1
    BY <2>1, HeadTailProperties, SeqBasics
  <2>3. Len(remote.in) <= Len(p)
    BY <2>1, StreamFacts DEF RemoteInv
  <2>4. /\ Len(p) \in Nat /\ Len(Tail(p)) = Len(p) - 1
        /\ \A k \in 1..(Len(p) - 1) : Tail(p)[k] = p[k + 1]
    BY <1>2, HeadTailProperties, SeqBasics
  <2>5. i \in 1..(Len(p) - 1) /\ i \in 1..Len(Tail(p)) /\ i + 1 \in 1..Len(remote.in)
    BY <2>2, <2>3, <2>4
  <2>6. f.pipeline[i] = p[i + 1]
    BY <1>17, <2>4, <2>5 DEF Begins
  <2> QED
    BY <1>1, <2>1, <2>5, <2>6 DEF AppliedInv
<1>25. AppliedInv'
  <2>1. remote'.handshake => (\A i \in 1..Len(remote.in) : Latest(remote.pipeline[i].w))'
    <3>1. ASSUME remote'.handshake, NEW i \in 1..Len(remote'.in)
          PROVE  Latest(remote.pipeline[i].w)'
      <4>1. r.handshake /\ i \in 1..Len(r.in)
        BY <1>17, <1>18, <3>1
      <4> DEFINE w == f.pipeline[i].w
      <4>2. Latest(w)
        BY <1>24, <4>1
      <4> DEFINE x == remote.pipeline[i].w
      <4>3. x' = w
        BY <1>18
      <4> HIDE DEF w, x
      <4>4. Latest(x)'
        BY <1>21, <4>2, <4>3
      <4> QED
        BY <4>4 DEF x
    <3> QED
      BY <3>1
  <2> QED
    BY <1>22, <1>23, <2>1 DEF AppliedInv
<1>26. CompletionsAreRight'
  <2>1. e.told \subseteq {e.w} /\ (restarts = 0 => e.told = {e.w}) /\ e.w = b.w
    BY <1>9
  <2>2. \A d \in ends : d.w # b.w
    BY <1>1, <1>13 DEF OrderInv
  <2> HIDE DEF e
  <2> QED
    BY <1>1, <1>5, <2>1, <2>2 DEF CompletionsAreRight
<1> QED
  BY <1>19, <1>20, <1>25, <1>26 DEF HistoryInv

LEMMA ReadResultPromise ==
  ASSUME IInv, HistoryInv, ReadResult
  PROVE  HistoryInv'
<1> DEFINE S == Of(user, issuer)
           p == remote.pipeline
           tin == Tail(remote.in)
           tp == Tail(p)
           r == [remote EXCEPT !.in = tin, !.pipeline = tp]
<1>1. /\ remote.in # <<>> /\ remote.handshake /\ Complete(Head(p), TRUE)
      /\ remote' = FillWritePipeline(r, queue'[user])
      /\ UNCHANGED <<tasks, user, nextId, log, issuer, lost, restarts>>
  BY DEF ReadResult, history
<1>2. /\ remote \in Remote(S) /\ p \in Seq(S) /\ remote.in \in Seq(S \cup {Handshake})
      /\ Len(remote.in) <= Len(p)
  BY <1>1, Facts, StreamFacts DEF RemoteInv
<1>3. Len(remote.in) \in Nat \ {0} /\ p # <<>>
  BY <1>1, <1>2, SeqBasics
<1>4. tin \in Seq(S \cup {Handshake}) /\ tp \in Seq(S)
  BY <1>1, <1>2, <1>3, HeadTailProperties
<1>5. Latest(Head(p).w)
  BY <1>1, <1>2, <1>3 DEF HistoryInv, AppliedInv
<1> HIDE DEF S, tin, tp
<1>6. r \in Remote(S) /\ r.pipeline = tp /\ r.in = tin
  BY <1>2, <1>4 DEF Remote
<1> HIDE DEF r, p
<1> QED
  BY <1>1, <1>3, <1>5, <1>6, CompletePromise DEF S, p, tin, tp

LEMMA WriteRejectedPromise ==
  ASSUME IInv, HistoryInv, WriteRejected
  PROVE  HistoryInv'
<1> DEFINE S == Of(user, issuer)
           p == remote.pipeline
           c == Close(remote, FALSE)
           tp == Tail(c.pipeline)
           r == [c EXCEPT !.state = "Initial", !.pipeline = tp]
<1>1. /\ p # <<>> /\ Complete(Head(p), FALSE)
      /\ remote' = FillWritePipeline(r, queue'[user])
      /\ UNCHANGED <<tasks, user, nextId, log, issuer, lost, restarts>>
  BY DEF WriteRejected, FrontToBlame, history
<1>2. c \in Remote(S) /\ c.pipeline = p /\ ~c.handshake
  BY CloseSound, CloseLike DEF RemoteInv
<1>3. p \in Seq(S)
  BY Facts
<1>4. tp \in Seq(S) /\ tp = Tail(p)
  BY <1>1, <1>2, <1>3, HeadTailProperties
<1> HIDE DEF S, c, tp
<1>5. r \in Remote(S) /\ r.pipeline = tp /\ ~r.handshake
  BY <1>2, <1>4 DEF Remote
<1> HIDE DEF r, p
<1> QED
  BY <1>1, <1>4, <1>5, CompletePromise DEF S, p

-----------------------------------------------------------------------------
(* Batches that the backend applies *)

LEMMA ReachedNext ==
  ASSUME NEW q \in Seq(Batch), Ascending(q), NEW A, Reached(q, A), NEW k \in DOMAIN q,
         \A i \in 1..(k - 1) : q[i].w \in A
  PROVE  Reached(q, A \cup {q[k].w})
<1>1. ASSUME NEW j \in DOMAIN q, NEW i \in 1..(j - 1), q[j].w \in A \cup {q[k].w}
      PROVE  q[i].w \in A
  <2>1. CASE q[j].w \in A
    BY <2>1 DEF Reached
  <2>2. CASE q[j].w = q[k].w
    <3>1. j = k
      BY <2>2, SameBatch
    <3> QED
      BY <3>1
  <2> QED
    BY <1>1, <2>1, <2>2
<1> QED
  BY <1>1 DEF Reached

\* Write n is applied, after what has been applied for its account before.
LEMMA LatestNext ==
  ASSUME IInv, NEW n \in DOMAIN issuer, NEW a \in User,
         log' = Append(log, [w |-> n, as |-> a]), issuer' = issuer,
         NEW w \in DOMAIN issuer,
         w = n \/ (Latest(w) /\ (issuer[n] = issuer[w] => n >= w))
  PROVE  Latest(w)'
<1> DEFINE e == [w |-> n, as |-> a]
           l == Len(log) + 1
<1>1. log \in Seq([w : Write, as : User]) /\ w \in Int
  BY Facts
<1>2. /\ l \in Nat \ {0} /\ DOMAIN log = 1..(l - 1) /\ DOMAIN log' = 1..l
      /\ \A i \in 1..(l - 1) : log'[i] = log[i]
      /\ log'[l] = e
  <2>1. log' = Append(log, e)
    OBVIOUS
  <2> HIDE DEF e
  <2>2. n \in Write
    <3>1. Len(issuer) <= MaxWrites /\ MaxWrites \in Nat
      BY PipelineAssumption DEF IInv, TypeOK
    <3>2. Len(issuer) \in Nat /\ n \in 1..Len(issuer)
      BY Facts
    <3> QED
      BY <3>1, <3>2 DEF Write
  <2>3. e \in [w : Write, as : User]
    BY <2>2 DEF e
  <2> QED
    BY <1>1, <2>1, <2>3, AppendProperties, SeqBasics
<1>3. e.w = n
  OBVIOUS
<1> HIDE DEF l, e
<1>4. CASE w = n
  <2>1. l \in 1..l /\ log'[l].w = w
    BY <1>2, <1>3, <1>4
  <2>2. \A j \in 1..l : ~(j > l)
    BY <1>2
  <2> QED
    BY <1>2, <2>1, <2>2 DEF Latest
<1>5. CASE Latest(w) /\ (issuer[n] = issuer[w] => n >= w)
  <2>1. PICK i \in 1..(l - 1) :
          /\ log[i].w = w
          /\ \A j \in 1..(l - 1) : j > i /\ issuer[log[j].w] = issuer[w] => log[j].w >= w
    BY <1>2, <1>5 DEF Latest
  <2>2. i \in 1..l /\ log'[i].w = w
    BY <1>2, <2>1
  <2>3. ASSUME NEW j \in 1..l, j > i, issuer[log'[j].w] = issuer[w]
        PROVE  log'[j].w >= w
    <3>1. CASE j \in 1..(l - 1)
      BY <1>2, <2>1, <2>3, <3>1
    <3>2. CASE j = l
      BY <1>2, <1>3, <1>5, <2>3, <3>2
    <3> QED
      BY <1>2, <3>1, <3>2
  <2> QED
    BY <1>2, <2>2, <2>3 DEF Latest
<1> QED
  BY <1>4, <1>5

\* What is served is the first of the pipeline that has not been answered.
LEMMA ServedFacts ==
  ASSUME IInv, HistoryInv, Arrived, remote.handshake
  PROVE  LET k == Len(remote.in) + 1
             h == Head(remote.out)
         IN  /\ k \in DOMAIN queue[user] /\ h = queue[user][k] /\ h = remote.pipeline[k]
             /\ k \in 1..Len(remote.pipeline)
             /\ \A i \in 1..(k - 1) : remote.pipeline[i] = queue[user][i]
             /\ h \in Batch /\ h # Handshake
             /\ h.w \in Queued(user) /\ h.w \in DOMAIN issuer /\ issuer[h.w] = user
             /\ h.w \in Int
<1> DEFINE S == Of(user, issuer)
           T == S \cup {Handshake}
           in == remote.in
           out == remote.out
           p == remote.pipeline
           q == queue[user]
           k == Len(in) + 1
           h == Head(out)
<1>1. in \in Seq(T) /\ out \in Seq(T) /\ p \in Seq(S) /\ out # <<>>
  BY Facts DEF Arrived, Remote
<1>2. in \o out = p /\ h \in S
  BY ArrivedFacts
<1>3. Begins(p, q) /\ q \in Seq(Batch) /\ DOMAIN q = 1..Len(q)
  BY Facts, QueueFacts DEF HistoryInv, QueueInv
<1>4. S \subseteq Batch /\ Handshake \notin Batch
  BY BatchBasics
<1> HIDE DEF S, T, in, out, p, q
<1>5. /\ Len(in) \in Nat /\ Len(out) \in Nat \ {0} /\ Len(p) = Len(in) + Len(out)
      /\ \A i \in 1..(Len(in) + Len(out)) : p[i] = IF i <= Len(in) THEN in[i] ELSE out[i - Len(in)]
      /\ h = out[1]
  <2>1. /\ Len(in \o out) = Len(in) + Len(out)
        /\ \A i \in 1..(Len(in) + Len(out)) :
             (in \o out)[i] = IF i <= Len(in) THEN in[i] ELSE out[i - Len(in)]
    BY <1>1, ConcatProperties
  <2> QED
    BY <1>1, <1>2, <2>1, SeqBasics
<1>6. k \in 1..Len(p) /\ p[k] = h
  <2>1. k \in 1..(Len(in) + Len(out)) /\ ~(k <= Len(in)) /\ k - Len(in) = 1
    BY <1>5
  <2> QED
    BY <1>5, <2>1
<1>7. \A i \in 1..k : i \in 1..Len(p) /\ p[i] = q[i]
  BY <1>3, <1>5, <1>6 DEF Begins
<1>8. k \in 1..Len(q) /\ h = q[k]
  <2>1. Len(q) \in Nat /\ Len(p) <= Len(q)
    BY <1>3, SeqBasics DEF Begins
  <2> QED
    BY <1>5, <1>6, <1>7, <2>1
<1>9. h.w \in Queued(user)
  BY <1>3, <1>8, InQueue DEF q
<1>10. \A i \in 1..(k - 1) : p[i] = q[i]
  BY <1>5, <1>7
<1>11. h.w \in DOMAIN issuer /\ issuer[h.w] = user /\ h.w \in Int
  BY <1>9, QueuedFacts, Facts
<1> QED
  BY <1>2, <1>3, <1>4, <1>6, <1>8, <1>9, <1>10, <1>11 DEF in, out, p, q

LEMMA ServePromise ==
  ASSUME IInv, HistoryInv, Serve
  PROVE  HistoryInv'
<1> DEFINE h == Head(remote.out)
           i == Append(remote.in, h)
           o == Tail(remote.out)
           n == Len(remote.in)
           p == remote.pipeline
<1>1. /\ Arrived /\ remote' = [remote EXCEPT !.out = o, !.in = i]
      /\ log' = IF h = Handshake THEN log ELSE Append(log, [w |-> h.w, as |-> remote.caller])
      /\ UNCHANGED <<tasks, storeVars, ends, issuer, lost, restarts>>
  BY DEF Serve, history
<1>2. UNCHANGED <<user, queue, nextId, callbacks>>
  BY <1>1 DEF storeVars
<1> HIDE DEF i, o
<1>3. remote'.pipeline = remote.pipeline /\ remote'.handshake = remote.handshake
      /\ remote'.in = i
  BY <1>1, Facts DEF Remote
<1>4. QueueInv /\ OrderInv /\ AppliedInv /\ CompletionsAreRight
  BY DEF HistoryInv
<1>5. CASE ~remote.handshake
  <2>1. h = Handshake
    <3>1. remote.out = <<Handshake>>
      BY <1>1, <1>5, ArrivedFacts
    <3> QED
      BY <3>1
  <2>2. log' = log
    BY <1>1, <2>1
  <2> QED
    BY <1>1, <1>2, <1>3, <1>4, <1>5, <2>2, StreamStep DEF OrderInv
<1>6. CASE remote.handshake
  <2> DEFINE q == queue[user]
             k == n + 1
  <2>1. /\ k \in DOMAIN q /\ h = q[k] /\ h = p[k] /\ k \in 1..Len(p)
        /\ \A j \in 1..(k - 1) : p[j] = q[j]
        /\ h \in Batch /\ h # Handshake
        /\ h.w \in Queued(user) /\ h.w \in DOMAIN issuer /\ issuer[h.w] = user
        /\ h.w \in Int
    BY <1>1, <1>6, ServedFacts
  <2> HIDE DEF h
  <2>2. /\ user \in User /\ q \in Seq(Batch) /\ Ascending(q) /\ DOMAIN q = 1..Len(q)
        /\ n \in Nat /\ Len(i) = n + 1
    <3>1. user \in User /\ q \in Seq(Batch) /\ DOMAIN q = 1..Len(q)
      BY Facts, QueueFacts
    <3>2. Ascending(q)
      BY <1>4, <3>1 DEF QueueInv
    <3> DEFINE T == Of(user, issuer) \cup {Handshake}
    <3>3. remote.in \in Seq(T) /\ h \in T
      BY <1>1, <1>6, ArrivedFacts, Facts DEF h
    <3> HIDE DEF T
    <3>4. n \in Nat /\ Len(i) = n + 1
      BY <3>3, AppendProperties, SeqBasics DEF i
    <3> QED
      BY <3>1, <3>2, <3>4
  <2> HIDE DEF q, p, n
  <2>3. log' = Append(log, [w |-> h.w, as |-> user])
    BY <1>1, <2>1, ArrivedFacts
  <2>4. Applied' = Applied \cup {h.w}
    <3> DEFINE e == [w |-> h.w, as |-> user]
               E == [w : Write, as : User]
    <3>1. e \in E /\ log \in Seq(E)
      BY <2>1, <2>2, Facts DEF Batch
    <3>2. e.w = h.w /\ log' = Append(log, e)
      BY <2>3
    <3> HIDE DEF e, E
    <3>3. ToSet(Append(log, e)) = ToSet(log) \cup {e}
      BY <3>1, Appended
    <3>4. ToSet(log') = ToSet(log) \cup {e}
      BY <3>2, <3>3
    <3> QED
      BY <3>2, <3>4 DEF Applied
  <2>5. /\ \A u : Queued(u)' = Queued(u)
        /\ Ended' = Ended /\ Past' = Past
    <3>1. (\A u : Queued(u)' = Queued(u)) /\ Ended' = Ended
      BY <1>1, <1>2 DEF Queued, Ended
    <3>2. h.w \in Past
      BY <2>1, <2>2, PastIn
    <3>3. Past' = Past \cup {h.w}
      BY <1>1, <2>4, <3>1 DEF Past
    <3> QED
      BY <3>1, <3>2, <3>3
  <2>6. QueueInv'
    BY <1>1, <1>2, <1>3, <1>4 DEF QueueInv
  <2>7. OrderInv'
    BY <1>1, <1>2, <1>4, <2>5 DEF OrderInv
  <2>8. CompletionsAreRight'
    BY <1>1, <1>4 DEF CompletionsAreRight
  <2>9. \A w \in DOMAIN issuer :
          w = h.w \/ (Latest(w) /\ (user = issuer[w] => h.w >= w)) => Latest(w)'
    BY <1>1, <2>1, <2>2, <2>3, LatestNext
  <2>10. AcknowledgedIsLatest'
    <3>1. ASSUME NEW e \in ends, e.ok PROVE Latest(e.w)'
      <4>1. Latest(e.w)
        BY <1>4, <3>1, AcknowledgedLatest DEF AppliedInv
      <4>2. e.w \in DOMAIN issuer /\ e.w \in Int
        BY <1>4, PastIn, Facts DEF Ended, OrderInv
      <4>3. user = issuer[e.w] => h.w >= e.w
        <5>1. ASSUME user = issuer[e.w] PROVE e.w < h.w
          BY <1>4, <2>1, <5>1 DEF OrderInv
        <5> QED
          BY <2>1, <4>2, <5>1
      <4> QED
        BY <2>9, <4>1, <4>2, <4>3
    <3> QED
      BY <1>1, <3>1, AcknowledgedLatest
  <2>11. \A j \in 1..n : Latest(p[j].w) /\ p[j] = q[j] /\ j \in 1..Len(q)
                         /\ q[j].w < h.w /\ q[j].w \in DOMAIN issuer /\ q[j].w \in Int
    <3> SUFFICES ASSUME NEW j \in 1..n
                 PROVE  Latest(p[j].w) /\ p[j] = q[j] /\ j \in 1..Len(q)
                        /\ q[j].w < h.w /\ q[j].w \in DOMAIN issuer /\ q[j].w \in Int
      OBVIOUS
    <3>1. Latest(p[j].w)
      BY <1>4, <1>6 DEF AppliedInv, n, p
    <3>2. j \in 1..(k - 1) /\ j < k /\ j \in 1..Len(q)
      BY <2>1, <2>2
    <3>3. p[j] = q[j] /\ q[j].w < h.w
      BY <2>1, <2>2, <3>2 DEF Ascending
    <3>4. q[j].w \in DOMAIN issuer
      BY <2>2, <3>2, QueueFacts DEF q
    <3> QED
      BY <3>1, <3>2, <3>3, <3>4, Facts
  <2>12. AppliedInOrder'
    <3>1. \A u \in User : Reached(queue[u], Applied)
      BY <1>4, OrderIsReached DEF AppliedInv
    <3>2. \A j \in 1..n : q[j].w \in Applied
      <4>1. \A w : Latest(w) => w \in Applied
        BY DEF Latest, Applied, ToSet
      <4> QED
        BY <2>11, <4>1
    <3>3. Reached(q, Applied \cup {q[k].w})
      <4>1. k - 1 = n
        BY <2>2
      <4> HIDE DEF k
      <4> QED
        BY <2>1, <2>2, <3>1, <3>2, <4>1, ReachedNext DEF q
    <3>4. ASSUME NEW u \in User, u # user PROVE Reached(queue[u], Applied \cup {h.w})
      <4>1. \A j \in DOMAIN queue[u] : queue[u][j].w # h.w
        BY <2>1, <3>4, QueueFacts
      <4> QED
        BY <3>1, <4>1 DEF Reached
    <3>5. \A u \in User : Reached(queue'[u], Applied')
      BY <1>2, <2>1, <2>4, <3>3, <3>4 DEF q
    <3> QED
      BY <3>5, OrderIsReached
  <2>13. ASSUME NEW j \in 1..Len(i) PROVE Latest(remote.pipeline[j].w)'
    <3> DEFINE w == remote.pipeline[j].w
    <3>1. w' = w
      BY <1>3
    <3>2. w \in DOMAIN issuer /\ (w = h.w \/ (Latest(w) /\ (user = issuer[w] => h.w >= w)))
      <4>1. CASE j = k
        BY <2>1, <4>1 DEF p
      <4>2. CASE j \in 1..n
        BY <2>1, <2>11, <4>2 DEF p
      <4> QED
        BY <2>2, <4>1, <4>2
    <3> HIDE DEF w
    <3>3. Latest(w)'
      BY <2>9, <3>1, <3>2
    <3> QED
      BY <3>3 DEF w
  <2>14. AppliedInv'
    BY <1>3, <2>10, <2>12, <2>13 DEF AppliedInv
  <2> QED
    BY <2>6, <2>7, <2>8, <2>14 DEF HistoryInv
<1> QED
  BY <1>5, <1>6

-----------------------------------------------------------------------------
(* The history invariant *)

LEMMA InitHistory == Init => HistoryInv
<1> SUFFICES ASSUME Init PROVE HistoryInv
  OBVIOUS
<1>1. /\ tasks = <<>> /\ user \in User /\ queue = [u \in User |-> <<>>] /\ nextId = 1
      /\ callbacks = [u \in User |-> {}] /\ remote = Closed
      /\ log = <<>> /\ issuer = <<>> /\ ends = {} /\ lost = {}
  BY PipelineAssumption DEF Init
<1>2. \A u \in User : queue[u] = <<>> /\ ToSet(queue[u]) = {} /\ callbacks[u] = {}
                      /\ Queued(u) = {}
  BY <1>1 DEF ToSet, Queued
<1>3. remote.pipeline = <<>> /\ ~remote.handshake
  BY <1>1 DEF Closed
<1>4. QueueInv
  <2>1. Begins(<<>>, <<>>) /\ Ascending(<<>>)
    BY DEF Begins, Ascending
  <2> QED
    BY <1>1, <1>2, <1>3, <2>1 DEF QueueInv
<1>5. Applied = {} /\ Ended = {}
  BY <1>1 DEF Applied, Ended, ToSet
<1>6. Past = {} /\ Writes(tasks) = {}
  BY <1>1, <1>2, <1>5, InTasks DEF Past
<1>7. OrderInv
  BY <1>1, <1>6 DEF OrderInv, InOrder
<1>8. AppliedInv
  BY <1>1, <1>2, <1>3 DEF AppliedInv, AppliedInOrder, AcknowledgedIsLatest
<1>9. CompletionsAreRight
  BY <1>1 DEF CompletionsAreRight
<1> QED
  BY <1>4, <1>7, <1>8, <1>9 DEF HistoryInv

LEMMA NextHistory == IInv /\ HistoryInv /\ [Next]_vars => HistoryInv'
<1> SUFFICES ASSUME IInv, HistoryInv, [Next]_vars PROVE HistoryInv'
  OBVIOUS
<1>1. CASE Issue
  BY <1>1, IssuePromise
<1>2. CASE Restart
  BY <1>2, RestartPromise
<1>3. ASSUME NEW u \in User, AuthChanges(u) PROVE HistoryInv'
  BY <1>3, AuthChangesPromise
<1>4. ASSUME NEW a \in remote.asked, TokenAnswered(a) \/ TokenRefused(a) PROVE HistoryInv'
  BY <1>4, TokenPromise
<1>5. CASE RunWrite
  BY <1>5, RunWritePromise
<1>6. CASE RunCredential
  BY <1>6, RunCredentialPromise
<1>7. CASE RunToken
  BY <1>7, RunTokenPromise
<1>8. CASE BackoffElapses
  BY <1>8, BackoffElapsesPromise
<1>9. CASE IdleTimerFires
  BY <1>9, IdleTimerFiresPromise
<1>10. CASE ReadHandshake
  BY <1>10, ReadHandshakePromise
<1>11. CASE ReadResult
  BY <1>11, ReadResultPromise
<1>12. CASE StreamFails
  BY <1>12, StreamFailsPromise
<1>13. CASE WriteRejected
  BY <1>13, WriteRejectedPromise
<1>14. CASE Serve
  BY <1>14, ServePromise
<1>15. CASE Refuse
  BY <1>15, RefusePromise
<1>16. CASE CallBreaks
  BY <1>16, CallBreaksPromise
<1>17. CASE UNCHANGED vars
  <2>1. UNCHANGED <<tasks, user, queue, nextId, callbacks, remote, log, ends, issuer, lost,
                    restarts>>
    BY <1>17 DEF vars, storeVars, history
  <2> QED
    BY <2>1, StreamStep DEF HistoryInv, OrderInv
<1> QED
  BY <1>1, <1>2, <1>3, <1>4, <1>5, <1>6, <1>7, <1>8, <1>9, <1>10, <1>11, <1>12, <1>13,
     <1>14, <1>15, <1>16, <1>17 DEF Next, RunTask

\* The order of the queues, what has become of every write, and what has been
\* applied stay as they are meant to be.
THEOREM HistoryInvariance == Spec => [](IInv /\ HistoryInv)
<1>1. Init => IInv /\ HistoryInv
  BY InitIInv, InitHistory
<1>2. IInv /\ HistoryInv /\ [Next]_vars => (IInv /\ HistoryInv)'
  BY NextIInv, NextHistory
<1> QED
  BY <1>1, <1>2, PTL DEF Spec

\* Once a write is acknowledged to the app, no failure of the stream, change of
\* account or restart makes the backend apply an older write of the account
\* again (AcknowledgedIsLatest).
THEOREM AcknowledgedStayApplied == Spec => []AcknowledgedIsLatest
<1>1. IInv /\ HistoryInv => AcknowledgedIsLatest
  BY DEF HistoryInv, AppliedInv
<1> QED
  BY <1>1, HistoryInvariance, PTL

LEMMA NextLost == IInv /\ HistoryInv /\ LostInv /\ [Next]_vars => LostInv'
<1> SUFFICES ASSUME IInv, HistoryInv, LostInv, [Next]_vars PROVE LostInv'
  OBVIOUS
<1>0. OrderInv
  BY DEF HistoryInv
<1>1. CASE Restart
  <2>1. log' = log /\ lost' = lost \cup Writes(tasks)
    BY <1>1 DEF Restart, Writes
  <2>2. Writes(tasks) \cap Applied = {}
    BY <1>0, PastOlder, PastIn
  <2> QED
    BY <2>1, <2>2 DEF LostInv, Applied
<1>2. CASE Serve
  <2> DEFINE h == Head(remote.out)
  <2>1. /\ Arrived /\ lost' = lost
        /\ log' = IF h = Handshake THEN log ELSE Append(log, [w |-> h.w, as |-> remote.caller])
    BY <1>2 DEF Serve, history
  <2>2. CASE ~remote.handshake
    <3>1. remote.out = <<Handshake>>
      BY <2>1, <2>2, ArrivedFacts
    <3> QED
      BY <2>1, <3>1 DEF LostInv, Applied
  <2>3. CASE remote.handshake
    <3>1. h # Handshake /\ h.w \in Queued(user) /\ user \in User
      BY <2>1, <2>3, ServedFacts, Facts
    <3>2. h.w \notin lost
      BY <1>0, <3>1 DEF OrderInv
    <3> DEFINE e == [w |-> h.w, as |-> remote.caller]
    <3>3. log' = Append(log, e) /\ e.w = h.w
      BY <2>1, <3>1
    <3> HIDE DEF h, e
    <3>4. ASSUME NEW a \in ToSet(log') PROVE a \in ToSet(log) \/ a = e
      <4>1. PICK i \in DOMAIN log' : log'[i] = a
        BY <3>4 DEF ToSet
      <4>2. DOMAIN log = 1..Len(log) /\ Len(log) \in Nat
        BY Facts, SeqBasics
      <4>3. DOMAIN log' = 1..(Len(log) + 1)
        BY <3>3, <4>2
      <4>4. log'[i] = IF i = Len(log) + 1 THEN e ELSE log[i]
        BY <3>3, <4>1, <4>2, <4>3
      <4> QED
        BY <4>1, <4>2, <4>3, <4>4 DEF ToSet
    <3> QED
      BY <2>1, <3>2, <3>3, <3>4 DEF LostInv, Applied
  <2> QED
    BY <2>2, <2>3
<1>3. CASE ~Restart /\ ~Serve
  <2>1. UNCHANGED <<log, lost>>
    BY <1>3 DEF Next, RunTask, Issue, AuthChanges, TokenAnswered, TokenRefused, RunWrite,
       RunCredential, RunToken, BackoffElapses, IdleTimerFires, ReadHandshake, ReadResult,
       StreamFails, WriteRejected, Refuse, CallBreaks, RemoteOnly, history, vars
  <2> QED
    BY <2>1 DEF LostInv, Applied
<1> QED
  BY <1>1, <1>2, <1>3

\* Whatever failed, was sent twice or came too late: once nothing of an account is
\* pending, its document does not hold a write whose outcome is still open, nor
\* one that an acknowledged write has replaced (SettledIsKnown).
THEOREM SettledDocumentsAreKnown == Spec => []SettledIsKnown
<1>1. Init => LostInv
  BY DEF Init, LostInv
<1>2. IInv /\ HistoryInv /\ LostInv => SettledIsKnown
  <2> SUFFICES ASSUME IInv, HistoryInv, LostInv, NEW u \in User, NEW i \in DOMAIN log,
                      queue[u] = <<>>, issuer[log[i].w] = u,
                      \A j \in DOMAIN log : j > i => issuer[log[j].w] # u
               PROVE  \E e \in ends :
                        /\ e.w = log[i].w
                        /\ \A f \in ends : f.ok /\ issuer[f.w] = u => f.w <= e.w
    BY DEF SettledIsKnown
  <2>1. OrderInv /\ AcknowledgedIsLatest
    BY DEF HistoryInv, AppliedInv
  <2>2. log[i].w \in Applied /\ log[i].w \in DOMAIN issuer
    BY AppliedFacts
  <2>3. log[i].w \notin Writes(tasks)
    BY <2>1, <2>2, PastOlder, PastIn
  <2>4. log[i].w \notin Queued(u)
    BY InQueue
  <2>5. log[i].w \in Ended
    BY <2>1, <2>2, <2>3, <2>4 DEF OrderInv, LostInv
  <2>6. PICK e \in ends : e.w = log[i].w
    BY <2>5 DEF Ended
  <2>7. ASSUME NEW f \in ends, f.ok, issuer[f.w] = u PROVE f.w <= log[i].w
    <3>1. PICK k \in DOMAIN log :
            /\ log[k].w = f.w
            /\ \A j \in DOMAIN log : j > k /\ issuer[log[j].w] = u => log[j].w >= f.w
      BY <2>1, <2>7 DEF AcknowledgedIsLatest
    <3>2. k \in Int /\ i \in Int /\ f.w \in Int /\ log[i].w \in Int
      <4>1. DOMAIN log \subseteq Int
        BY Facts, SeqBasics
      <4>2. f.w = log[k].w /\ log[k].w \in Int /\ log[i].w \in Int
        BY <3>1, AppliedFacts
      <4> QED
        BY <4>1, <4>2
    <3>3. ~(k > i)
      BY <2>7, <3>1
    <3>4. CASE k = i
      BY <3>1, <3>2, <3>4
    <3>5. CASE i > k
      BY <3>1, <3>2, <3>5
    <3> QED
      BY <3>2, <3>3, <3>4, <3>5
  <2> QED
    BY <2>6, <2>7
<1>3. IInv /\ HistoryInv /\ LostInv /\ [Next]_vars => LostInv'
  BY NextLost
<1> QED
  BY <1>1, <1>2, <1>3, HistoryInvariance, PTL DEF Spec

\* A completion closure of SyncEngine hears of its own write only, and once
\* (CompletionsAreRight), although batch ids come again.
THEOREM ClosuresHearOfTheirWrites == Spec => []CompletionsAreRight
<1>1. IInv /\ HistoryInv => CompletionsAreRight
  BY DEF HistoryInv
<1> QED
  BY <1>1, HistoryInvariance, PTL

\* The backend never has a write of an account without the older ones that are
\* still in the account's mutation queue (AppliedInOrder).
THEOREM WritesAreAppliedInOrder == Spec => []AppliedInOrder
<1>1. IInv /\ HistoryInv => AppliedInOrder
  BY DEF HistoryInv, AppliedInv
<1> QED
  BY <1>1, HistoryInvariance, PTL

\* Restarts lose writes from the worker queue only, and nothing else loses any:
\* each is in one place, whatever happens on the way (NoWriteForgotten).
THEOREM EveryWriteIsAccountedFor == Spec => []NoWriteForgotten
<1>1. ASSUME IInv, HistoryInv, NEW w \in DOMAIN issuer,
             NEW places, places = <<Writes(tasks), Queued(issuer[w]), Ended, lost>>
      PROVE  Cardinality({k \in DOMAIN places : w \in places[k]}) = 1
  <2>1. OrderInv /\ issuer[w] \in User /\ w \in Int
    BY <1>1, Facts DEF HistoryInv
  <2>2. w \in Writes(tasks) => w \notin Queued(issuer[w]) /\ w \notin Ended /\ w \notin lost
    BY <1>1, <2>1, PastOlder, PastIn
  <2>3. w \in Queued(issuer[w]) => w \notin Ended
    BY <2>1 DEF OrderInv, Ended
  <2>4. w \in lost => w \notin Queued(issuer[w]) /\ w \notin Ended
    BY <2>1 DEF OrderInv
  <2>5. w \in Writes(tasks) \/ w \in Queued(issuer[w]) \/ w \in Ended \/ w \in lost
    BY <2>1 DEF OrderInv
  <2>6. /\ DOMAIN places = 1..4
        /\ places[1] = Writes(tasks) /\ places[2] = Queued(issuer[w])
        /\ places[3] = Ended /\ places[4] = lost
    BY <1>1
  <2>7. PICK i \in DOMAIN places : w \in places[i]
    BY <2>5, <2>6
  <2>8. \A k \in DOMAIN places : w \in places[k] => k = i
    BY <2>2, <2>3, <2>4, <2>6, <2>7
  <2>9. {k \in DOMAIN places : w \in places[k]} = {i}
    BY <2>7, <2>8
  <2> QED
    BY <2>9, FS_Singleton
<1>2. IInv /\ HistoryInv => NoWriteForgotten
  BY <1>1 DEF NoWriteForgotten, Writes, Queued, Ended
<1> QED
  BY <1>2, HistoryInvariance, PTL

-----------------------------------------------------------------------------
(* The refinement of PendingWrites *)

WritesOf(q) == [i \in DOMAIN q |-> q[i].w]

Pend    == [u \in User |-> WritesOf(queue[u])]
Results == {[w |-> e.w, ok |-> e.ok] : e \in ends}

LEMMA PutIs ==
  ASSUME NEW u, NEW w
  PROVE  Promise!Put(u, w) <=>
           /\ ~ \E v \in User : \E i \in DOMAIN Pend[v] : Pend[v][i] = w
           /\ ~ \E r \in Results : r.w = w
           /\ Pend' = [Pend EXCEPT ![u] = Append(@, w)]
           /\ UNCHANGED <<log, Results>>
BY DEF Promise!Put, Promise!IsPending, Promise!HasResult, Pend, Results, WritesOf

LEMMA ApplyIs ==
  ASSUME NEW u, NEW i
  PROVE  Promise!Apply(u, i) <=>
           /\ \A j \in 1..(i - 1) : \E k \in DOMAIN log : log[k].w = Pend[u][j]
           /\ log' = Append(log, [w |-> Pend[u][i], as |-> u])
           /\ UNCHANGED <<Pend, Results>>
BY DEF Promise!Apply, Promise!HasBeenApplied, Pend, Results, WritesOf

LEMMA ResolveIs ==
  ASSUME NEW u, NEW ok
  PROVE  Promise!Resolve(u, ok) <=>
           /\ Pend[u] # <<>>
           /\ ok => \E k \in DOMAIN log : log[k].w = Head(Pend[u])
           /\ Pend' = [Pend EXCEPT ![u] = Tail(@)]
           /\ Results' = Results \cup {[w |-> Head(Pend[u]), ok |-> ok]}
           /\ UNCHANGED log
BY DEF Promise!Resolve, Promise!HasBeenApplied, Pend, Results, WritesOf

LEMMA PromiseNextIs ==
  Promise!Next <=> \E u \in User : \/ \E w \in Write : Promise!Put(u, w)
                                   \/ \E i \in DOMAIN Pend[u] : Promise!Apply(u, i)
                                   \/ \E ok \in BOOLEAN : Promise!Resolve(u, ok)
BY DEF Promise!Next, Pend, WritesOf

LEMMA PromiseVarsAre ==
  /\ UNCHANGED Promise!vars <=> UNCHANGED <<Pend, log, Results>>
BY DEF Promise!vars, Pend, Results, WritesOf

LEMMA PromiseInitHolds == Init => Promise!Init
BY DEF Init, Promise!Init

LEMMA WritesOfBasics ==
  ASSUME NEW q \in Seq(Batch)
  PROVE  /\ WritesOf(q) \in Seq(Write) /\ Len(WritesOf(q)) = Len(q)
         /\ DOMAIN WritesOf(q) = DOMAIN q
         /\ \A i \in DOMAIN q : WritesOf(q)[i] = q[i].w
<1>1. /\ Len(q) \in Nat /\ DOMAIN q = 1..Len(q) /\ \A i \in 1..Len(q) : q[i] \in Batch
  BY SeqBasics
<1> DEFINE n == Len(q)
           s == [i \in 1..n |-> q[i].w]
<1>2. \A i \in 1..n : q[i].w \in Write
  BY <1>1 DEF Batch
<1>3. n \in Nat /\ s = WritesOf(q)
  BY <1>1 DEF WritesOf
<1> HIDE DEF n
<1>4. s \in Seq(Write) /\ Len(s) = n
  BY <1>2, <1>3
<1> QED
  BY <1>1, <1>3, <1>4 DEF n, WritesOf

LEMMA WritesOfAppend ==
  ASSUME NEW q \in Seq(Batch), NEW b \in Batch
  PROVE  WritesOf(Append(q, b)) = Append(WritesOf(q), b.w)
<1> DEFINE a == Append(q, b)
           x == WritesOf(a)
           y == Append(WritesOf(q), b.w)
           n == Len(q) + 1
<1>1. /\ n \in Nat \ {0} /\ Len(q) = n - 1 /\ DOMAIN q = 1..(n - 1) /\ DOMAIN a = 1..n
      /\ a \in Seq(Batch) /\ Len(a) = n
      /\ \A i \in 1..(n - 1) : a[i] = q[i]
      /\ a[n] = b
  BY AppendProperties, SeqBasics
<1>2. b.w \in Write
  BY DEF Batch
<1> HIDE DEF n, a
<1>3. x \in Seq(Write) /\ Len(x) = n /\ \A i \in 1..n : x[i] = a[i].w
  BY <1>1, WritesOfBasics
<1>4. /\ WritesOf(q) \in Seq(Write) /\ Len(WritesOf(q)) = n - 1
      /\ \A i \in 1..(n - 1) : WritesOf(q)[i] = q[i].w
  BY <1>1, WritesOfBasics
<1>5. /\ y \in Seq(Write) /\ Len(y) = n - 1 + 1
      /\ \A i \in 1..(n - 1) : y[i] = WritesOf(q)[i]
      /\ y[n - 1 + 1] = b.w
  BY <1>2, <1>4, AppendProperties
<1> HIDE DEF x, y
<1>6. ASSUME NEW i \in 1..n PROVE x[i] = y[i]
  <2>1. CASE i = n
    BY <1>1, <1>3, <1>5, <2>1
  <2>2. CASE i \in 1..(n - 1)
    BY <1>1, <1>3, <1>4, <1>5, <2>2
  <2> QED
    BY <1>1, <2>1, <2>2
<1>7. Len(y) = n
  BY <1>1, <1>5
<1>8. x = y
  BY <1>3, <1>5, <1>6, <1>7, SeqEqual
<1> QED
  BY <1>8 DEF x, y, a

LEMMA WritesOfTail ==
  ASSUME NEW q \in Seq(Batch), q # <<>>
  PROVE  /\ WritesOf(q) # <<>> /\ Head(WritesOf(q)) = Head(q).w
         /\ WritesOf(Tail(q)) = Tail(WritesOf(q))
<1> DEFINE t == Tail(q)
           v == WritesOf(q)
           x == WritesOf(t)
           y == Tail(v)
           n == Len(q)
<1>1. /\ n \in Nat \ {0} /\ DOMAIN q = 1..n /\ t \in Seq(Batch) /\ Len(t) = n - 1
      /\ \A i \in 1..(n - 1) : t[i] = q[i + 1]
      /\ Head(q) = q[1]
  BY HeadTailProperties, SeqBasics
<1>2. v \in Seq(Write) /\ Len(v) = n /\ \A i \in 1..n : v[i] = q[i].w
  BY <1>1, WritesOfBasics
<1> HIDE DEF t, n
<1>3. x \in Seq(Write) /\ Len(x) = n - 1 /\ \A i \in 1..(n - 1) : x[i] = t[i].w
  BY <1>1, WritesOfBasics, SeqBasics
<1> HIDE DEF v, x
<1>4. v # <<>> /\ Head(v) = q[1].w
  BY <1>1, <1>2
<1>5. /\ y \in Seq(Write) /\ Len(y) = n - 1
      /\ \A i \in 1..(n - 1) : y[i] = v[i + 1]
  BY <1>1, <1>2, <1>4, HeadTailProperties
<1> HIDE DEF y
<1>6. ASSUME NEW i \in 1..(n - 1) PROVE x[i] = y[i]
  <2>1. i + 1 \in 1..n
    BY <1>1
  <2> QED
    BY <1>1, <1>2, <1>3, <1>5, <2>1
<1>7. x = y
  BY <1>3, <1>5, <1>6, SeqEqual
<1> QED
  BY <1>1, <1>4, <1>7 DEF x, y, v, t

LEMMA PendIs ==
  ASSUME IInv, NEW u \in User
  PROVE  /\ Pend[u] = WritesOf(queue[u]) /\ DOMAIN Pend[u] = DOMAIN queue[u]
         /\ \A i \in DOMAIN queue[u] : Pend[u][i] = queue[u][i].w
BY QueueFacts, WritesOfBasics DEF Pend

\* A write that leaves the worker queue becomes pending.
LEMMA RunWritePuts ==
  ASSUME IInv, HistoryInv, RunWrite
  PROVE  Promise!Next
<1> DEFINE t == Head(tasks)
           b == [id |-> nextId, w |-> t.w]
           q == Append(queue[user], b)
<1>1. /\ tasks # <<>> /\ t.kind = "write" /\ queue' = [queue EXCEPT ![user] = q]
      /\ UNCHANGED <<user, log, ends>>
  BY DEF RunWrite, IsNext
<1>2. /\ t.w \in Write /\ t.w \in Writes(tasks) /\ user \in User /\ nextId \in Nat
      /\ queue \in [User -> Seq(Batch)]
  <2>1. t \in Task /\ tasks \in Seq(Task)
    BY <1>1, RunFacts, Facts
  <2>2. t = tasks[1] /\ 1 \in DOMAIN tasks
    BY <1>1, <2>1
  <2> QED
    BY <1>1, <2>1, <2>2, InTasks, Facts DEF Task
<1>3. t.w \notin Past
  BY <1>2, PastOlder DEF HistoryInv
<1> HIDE DEF t
<1>4. b \in Batch /\ b.w = t.w
  BY <1>2 DEF Batch
<1> HIDE DEF b
<1>5. ~ \E v \in User : \E i \in DOMAIN Pend[v] : Pend[v][i] = t.w
  BY <1>3, PendIs, PastIn, InQueue
<1>6. ~ \E r \in Results : r.w = t.w
  BY <1>3, PastIn DEF Results, Ended
<1>7. Pend' = [Pend EXCEPT ![user] = Append(@, t.w)]
  <2>1. WritesOf(q) = Append(WritesOf(queue[user]), t.w)
    BY <1>2, <1>4, WritesOfAppend
  <2>2. \A u \in User : queue'[u] = IF u = user THEN q ELSE queue[u]
    BY <1>1, <1>2
  <2> HIDE DEF q
  <2> QED
    BY <1>2, <2>1, <2>2 DEF Pend
<1>8. UNCHANGED <<log, Results>>
  BY <1>1 DEF Results
<1>9. PICK u \in User, w \in Write : u = user /\ w = t.w
  BY <1>2
<1>10. Promise!Put(u, w)
  BY <1>5, <1>6, <1>7, <1>8, <1>9, PutIs
<1> QED
  BY <1>10, PromiseNextIs

\* The front of the queue gets its outcome.
LEMMA CompleteResolves ==
  ASSUME IInv, HistoryInv, NEW ok \in BOOLEAN, remote.pipeline # <<>>,
         Complete(Head(remote.pipeline), ok), UNCHANGED log,
         ok => Latest(Head(remote.pipeline).w)
  PROVE  Promise!Next
<1> DEFINE S == Of(user, issuer)
           p == remote.pipeline
           q == queue[user]
           b == Head(q)
           mine == {c \in callbacks[user] : c.id = b.id}
           e == [w |-> b.w, ok |-> ok, told |-> {c.w : c \in mine}]
<1>1. /\ user \in User /\ p \in Seq(S) /\ q \in Seq(S) /\ q \in Seq(Batch)
      /\ queue \in [User -> Seq(Batch)]
  BY QueueFacts, Facts
<1>2. Ascending(q) /\ Begins(p, q)
  BY <1>1 DEF HistoryInv, QueueInv
<1> HIDE DEF S
<1>3. q # <<>> /\ Head(p) = b
  BY <1>1, <1>2, BeginsTail
<1>4. queue' = [queue EXCEPT ![user] = Tail(q)] /\ ends' = ends \cup {e}
  <2>1. Without(q, b) = Tail(q)
    BY <1>1, <1>2, <1>3, WithoutFront
  <2>2. Complete(b, ok)
    BY <1>3
  <2> QED
    BY <2>1, <2>2 DEF Complete
<1>5. Pend[user] = WritesOf(q)
  BY <1>1, PendIs
<1>6. /\ Pend[user] # <<>> /\ Head(Pend[user]) = b.w
      /\ WritesOf(Tail(q)) = Tail(Pend[user])
  BY <1>1, <1>3, <1>5, WritesOfTail
<1> HIDE DEF b, mine
<1>7. ok => \E k \in DOMAIN log : log[k].w = Head(Pend[user])
  BY <1>3, <1>6 DEF Latest
<1>8. Pend' = [Pend EXCEPT ![user] = Tail(@)]
  <2>1. \A u \in User : queue'[u] = IF u = user THEN Tail(q) ELSE queue[u]
    BY <1>1, <1>4
  <2> HIDE DEF q
  <2> QED
    BY <1>1, <1>6, <2>1 DEF Pend
<1>9. Results' = Results \cup {[w |-> Head(Pend[user]), ok |-> ok]}
  <2>1. e.w = b.w /\ e.ok = ok
    OBVIOUS
  <2> HIDE DEF e
  <2> QED
    BY <1>4, <1>6, <2>1 DEF Results
<1>10. PICK u \in User : u = user
  BY <1>1
<1>11. Promise!Resolve(u, ok)
  BY <1>6, <1>7, <1>8, <1>9, <1>10, ResolveIs
<1> QED
  BY <1>11, PromiseNextIs

LEMMA ReadResultResolves ==
  ASSUME IInv, HistoryInv, ReadResult
  PROVE  Promise!Next
<1> DEFINE S == Of(user, issuer)
           p == remote.pipeline
<1>1. remote.in # <<>> /\ remote.handshake /\ Complete(Head(p), TRUE) /\ UNCHANGED log
  BY DEF ReadResult
<1>2. /\ p \in Seq(S) /\ remote.in \in Seq(S \cup {Handshake}) /\ Len(remote.in) <= Len(p)
  BY <1>1, Facts, StreamFacts DEF RemoteInv
<1>3. Len(remote.in) \in Nat \ {0} /\ p # <<>>
  BY <1>1, <1>2, SeqBasics
<1>4. Latest(Head(p).w)
  BY <1>1, <1>2, <1>3 DEF HistoryInv, AppliedInv
<1> QED
  BY <1>1, <1>3, <1>4, CompleteResolves

\* A batch that is served is pending, and so are those before it that have not
\* been applied.
LEMMA ServeApplies ==
  ASSUME IInv, HistoryInv, Serve
  PROVE  Promise!Next \/ UNCHANGED Promise!vars
<1> DEFINE h == Head(remote.out)
           k == Len(remote.in) + 1
           q == queue[user]
           p == remote.pipeline
<1>1. /\ Arrived
      /\ log' = IF h = Handshake THEN log ELSE Append(log, [w |-> h.w, as |-> remote.caller])
      /\ UNCHANGED <<user, queue, ends>>
  BY DEF Serve, storeVars
<1>2. UNCHANGED <<Pend, Results>>
  BY <1>1 DEF Pend, Results
<1>3. CASE ~remote.handshake
  <2>1. h = Handshake
    <3>1. remote.out = <<Handshake>>
      BY <1>1, <1>3, ArrivedFacts
    <3> QED
      BY <3>1
  <2> QED
    BY <1>1, <1>2, <2>1, PromiseVarsAre
<1>4. CASE remote.handshake
  <2>1. /\ k \in DOMAIN q /\ h = q[k] /\ \A i \in 1..(k - 1) : p[i] = q[i]
        /\ h # Handshake /\ k \in 1..Len(p)
    BY <1>1, <1>4, ServedFacts
  <2>2. user \in User /\ Len(remote.in) \in Nat /\ DOMAIN q = 1..Len(q)
    BY Facts, QueueFacts, SeqBasics
  <2> HIDE DEF h
  <2>3. log' = Append(log, [w |-> h.w, as |-> user])
    BY <1>1, <2>1, ArrivedFacts
  <2>4. DOMAIN Pend[user] = DOMAIN q /\ \A i \in DOMAIN q : Pend[user][i] = q[i].w
    BY <2>2, PendIs
  <2>5. \A j \in 1..(k - 1) : \E i \in DOMAIN log : log[i].w = Pend[user][j]
    <3> SUFFICES ASSUME NEW j \in 1..(k - 1)
                 PROVE  \E i \in DOMAIN log : log[i].w = Pend[user][j]
      OBVIOUS
    <3>1. j \in 1..Len(remote.in) /\ j \in DOMAIN q
      BY <2>1, <2>2
    <3>2. Latest(p[j].w)
      BY <1>4, <3>1 DEF HistoryInv, AppliedInv
    <3>3. Pend[user][j] = p[j].w
      BY <2>1, <2>4, <3>1
    <3> QED
      BY <3>2, <3>3 DEF Latest
  <2>6. Pend[user][k] = h.w
    BY <2>1, <2>4
  <2> HIDE DEF k
  <2>7. PICK u \in User, i \in DOMAIN q : u = user /\ i = k
    BY <2>1, <2>2
  <2>8. Promise!Apply(u, i)
    BY <1>2, <2>3, <2>5, <2>6, <2>7, ApplyIs
  <2>9. i \in DOMAIN Pend[u]
    BY <2>4, <2>7
  <2> QED
    BY <2>8, <2>9, PromiseNextIs
<1> QED
  BY <1>3, <1>4

LEMMA NextKeepsPromise ==
  IInv /\ HistoryInv /\ [Next]_vars => [Promise!Next]_Promise!vars
<1> SUFFICES ASSUME IInv, HistoryInv, [Next]_vars
             PROVE  Promise!Next \/ UNCHANGED Promise!vars
  OBVIOUS
<1>1. CASE RunWrite
  BY <1>1, RunWritePuts
<1>2. CASE ReadResult
  BY <1>2, ReadResultResolves
<1>3. CASE WriteRejected
  BY <1>3, CompleteResolves DEF WriteRejected, FrontToBlame
<1>4. CASE Serve
  BY <1>4, ServeApplies
<1>5. ASSUME UNCHANGED <<queue, log, ends>> PROVE UNCHANGED Promise!vars
  BY <1>5, PromiseVarsAre DEF Pend, Results
<1>6. CASE Issue \/ Restart \/ RunCredential \/ RunToken
  BY <1>5, <1>6 DEF Issue, Restart, RunCredential, RunToken, storeVars
<1>7. ASSUME NEW u \in User, AuthChanges(u) PROVE UNCHANGED Promise!vars
  BY <1>5, <1>7 DEF AuthChanges, storeVars
<1>8. ASSUME NEW a \in remote.asked, TokenAnswered(a) \/ TokenRefused(a)
      PROVE  UNCHANGED Promise!vars
  BY <1>5, <1>8 DEF TokenAnswered, TokenRefused, storeVars
<1>9. CASE BackoffElapses \/ IdleTimerFires \/ ReadHandshake \/ StreamFails
  BY <1>5, <1>9 DEF BackoffElapses, IdleTimerFires, ReadHandshake, StreamFails, RemoteOnly,
                    storeVars
<1>10. CASE Refuse \/ CallBreaks
  BY <1>5, <1>10 DEF Refuse, CallBreaks, storeVars
<1>11. CASE UNCHANGED vars
  BY <1>5, <1>11 DEF vars, storeVars
<1> QED
  BY <1>1, <1>2, <1>3, <1>4, <1>6, <1>7, <1>8, <1>9, <1>10, <1>11 DEF Next, RunTask

\* The client implements PendingWrites, with the mutation queues on disk as what
\* is pending, whatever the streams, the accounts and the process do
\* (KeepsPromise).
THEOREM ImplementsPendingWrites == Spec => KeepsPromise
<1>1. Init => Promise!Init
  BY PromiseInitHolds
<1>2. IInv /\ HistoryInv /\ [Next]_vars => [Promise!Next]_Promise!vars
  BY NextKeepsPromise
<1> QED
  BY <1>1, <1>2, HistoryInvariance, PTL DEF Spec, KeepsPromise, Promise!Spec
=============================================================================
