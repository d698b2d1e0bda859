---------------------------- MODULE SessionProofs ----------------------------
(***************************************************************************)
(* Facts that the components built on Session share: about its steps, for  *)
(* a singleton field with values in any set, and about the queues of       *)
(* pending writes, kept per phone, account and document, with writes in    *)
(* any set.                                                                *)
(***************************************************************************)
EXTENDS Session, WriteQueue, SequenceTheorems, FiniteSetTheorems, TLAPS

LEMMA SessionInitType ==
  ASSUME NEW Value, Initial \in Value, SessionInit
  PROVE  SessionTypeOK(Value)
BY SessionAssumption DEF SessionInit, SessionTypeOK, ClearedInfo, Email, Account

LEMMA GetUserInfoType ==
  ASSUME NEW Value, Initial \in Value, SessionTypeOK(Value),
         NEW d \in Device, NEW u \in User, NEW others \in SUBSET loads,
         GetUserInfo(d, u, others)
  PROVE  /\ info' \in [Device -> [email : Email, field : Value]]
         /\ loads' \subseteq LoadRecord(Value)
         /\ appeared' \in 0..MaxLoads
<1>1. ClearedInfo \in [email : Email, field : Value]
  BY DEF ClearedInfo, Email, Account
<1>2. info' \in [Device -> [email : Email, field : Value]]
  BY <1>1 DEF GetUserInfo, SessionTypeOK
<1>3. appeared \in Nat /\ appeared' \in 0..MaxLoads
  BY SessionAssumption DEF GetUserInfo, SessionTypeOK
<1>4. [n |-> appeared, dev |-> d, email |-> u, answered |-> FALSE, field |-> NotSet]
        \in LoadRecord(Value)
  BY <1>3 DEF LoadRecord
<1> QED
  BY <1>2, <1>3, <1>4 DEF GetUserInfo, SessionTypeOK

LEMMA SessionStutter ==
  ASSUME NEW Value, SessionTypeOK(Value), UNCHANGED sessionVars
  PROVE  SessionTypeOK(Value)'
BY DEF sessionVars, SessionTypeOK, LoadRecord

\* No user action leaves the singleton or the queries ill-formed.
LEMMA SessionUserType ==
  ASSUME NEW Value, Initial \in Value, SessionTypeOK(Value), NEW d \in Device,
         \/ \E u \in User : SignIn(d, u)
         \/ MapAppears(d)
         \/ SignOut(d)
         \/ Relaunch(d)
  PROVE  SessionTypeOK(Value)'
<1>0. auth[d] # Nobody => auth[d] \in User
  BY DEF SessionTypeOK, Account
<1>1. ASSUME NEW u \in User, SignIn(d, u) PROVE SessionTypeOK(Value)'
  <2>1. auth' \in [Device -> Account]
    BY <1>1 DEF SignIn, SessionTypeOK, Account
  <2> QED
    BY <1>1, <2>1, GetUserInfoType DEF SignIn, SessionTypeOK, LoadRecord
<1>2. CASE MapAppears(d)
  BY <1>0, <1>2, GetUserInfoType DEF MapAppears, SessionTypeOK, LoadRecord
<1>3. CASE SignOut(d)
  BY <1>3 DEF SignOut, SessionTypeOK, Account, LoadRecord
<1>4. CASE Relaunch(d)
  <2>1. CASE auth[d] = Nobody
    <3>1. ClearedInfo \in [email : Email, field : Value]
      BY DEF ClearedInfo, Email, Account
    <3> QED
      BY <1>4, <2>1, <3>1 DEF Relaunch, SessionTypeOK, LoadRecord
  <2>2. CASE auth[d] # Nobody
    BY <1>0, <1>4, <2>2, GetUserInfoType DEF Relaunch, SessionTypeOK, LoadRecord
  <2> QED
    BY <2>1, <2>2
<1> QED
  BY <1>1, <1>2, <1>3, <1>4

\* Nor does an answer, late or not, with a value the field may have.
LEMMA SessionLoadType ==
  ASSUME NEW Value, SessionTypeOK(Value), NEW l \in loads, NEW seen \in Value \cup {NotSet},
         AnswerLoad(l, seen) \/ LoadArrives(l) \/ LoadFails(l)
  PROVE  SessionTypeOK(Value)'
<1>0. l \in LoadRecord(Value)
  BY DEF SessionTypeOK
<1>1. CASE AnswerLoad(l, seen)
  <2>1. [l EXCEPT !.answered = TRUE, !.field = seen] \in LoadRecord(Value)
    BY <1>0 DEF LoadRecord
  <2> QED
    BY <1>1, <2>1 DEF AnswerLoad, SessionTypeOK, LoadRecord
<1>2. CASE LoadArrives(l)
  <2>1. /\ l.dev \in Device /\ l.email \in Email
        /\ (IF l.field = NotSet THEN info[l.dev].field ELSE l.field) \in Value
    BY <1>0 DEF LoadRecord, SessionTypeOK, Email, Account
  <2>2. info' \in [Device -> [email : Email, field : Value]]
    BY <1>2, <2>1 DEF LoadArrives, SessionTypeOK
  <2> QED
    BY <1>2, <2>2 DEF LoadArrives, SessionTypeOK, LoadRecord
<1>3. CASE LoadFails(l)
  BY <1>3 DEF LoadFails, SessionTypeOK, LoadRecord
<1> QED
  BY <1>1, <1>2, <1>3

-----------------------------------------------------------------------------
(* Where the values of the field come from *)

\* A singleton has the value, or an answer on its way to one.
Held(x) == (\E d \in Device : info[d].field = x) \/ (\E l \in loads : l.field = x)

\* Users bring in the values of a cleared singleton and of an absent field only.
LEMMA HeldUserStep ==
  ASSUME NEW Value, SessionTypeOK(Value), NEW d \in Device,
         \/ \E u \in User : SignIn(d, u)
         \/ MapAppears(d)
         \/ SignOut(d)
         \/ Relaunch(d),
         NEW x, x # Initial, x # NotSet, Held(x)'
  PROVE  Held(x)
<1>1. info' = info \/ info' = [info EXCEPT ![d] = ClearedInfo]
  BY DEF SignIn, MapAppears, SignOut, Relaunch, GetUserInfo
<1>2. \A l \in loads' : l \in loads \/ l.field = NotSet
  BY DEF SignIn, MapAppears, SignOut, Relaunch, GetUserInfo
<1>3. info \in [Device -> [email : Email, field : Value]] /\ ClearedInfo.field = Initial
  BY DEF SessionTypeOK, ClearedInfo
<1> HIDE DEF ClearedInfo
<1> QED
  BY <1>1, <1>2, <1>3 DEF Held

\* An answer brings in what the query has seen.
LEMMA HeldLoadStep ==
  ASSUME NEW Value, SessionTypeOK(Value), NEW l \in loads, NEW seen,
         AnswerLoad(l, seen) \/ LoadArrives(l) \/ LoadFails(l),
         NEW x, Held(x)'
  PROVE  Held(x) \/ seen = x
<1>1. l \in LoadRecord(Value) /\ info \in [Device -> [email : Email, field : Value]]
  BY DEF SessionTypeOK
<1>2. CASE AnswerLoad(l, seen)
  <2>1. [l EXCEPT !.answered = TRUE, !.field = seen].field = seen
    BY <1>1 DEF LoadRecord
  <2> QED
    BY <1>2, <2>1 DEF AnswerLoad, Held
<1>3. CASE LoadArrives(l)
  BY <1>1, <1>3 DEF LoadArrives, Held
<1>4. CASE LoadFails(l)
  BY <1>4 DEF LoadFails, Held
<1> QED
  BY <1>2, <1>3, <1>4

-----------------------------------------------------------------------------
(* Queues of pending writes *)

Queues(D, S) == [Device -> [Account -> [D -> Seq(S)]]]

LEMMA PutQueue ==
  ASSUME NEW D, NEW S, NEW q \in Queues(D, S),
         NEW d \in Device, NEW a \in Account, NEW p \in D, NEW v \in Seq(S)
  PROVE  /\ [q EXCEPT ![d][a][p] = v] \in Queues(D, S)
         /\ \A d2 \in Device, a2 \in Account, p2 \in D :
              [q EXCEPT ![d][a][p] = v][d2][a2][p2] =
                IF d2 = d /\ a2 = a /\ p2 = p THEN v ELSE q[d2][a2][p2]
BY DEF Queues

\* The queue at one index after a change at another.
LEMMA QueueAt ==
  ASSUME NEW D, NEW S, NEW q \in Queues(D, S),
         NEW d \in Device, NEW a \in Account, NEW p \in D, NEW v \in Seq(S),
         NEW d2 \in Device, NEW a2 \in Account, NEW p2 \in D
  PROVE  [q EXCEPT ![d][a][p] = v][d2][a2][p2] =
           IF d2 = d /\ a2 = a /\ p2 = p THEN v ELSE q[d2][a2][p2]
BY DEF Queues

LEMMA Enqueue ==
  ASSUME NEW S, NEW s \in Seq(S), NEW e \in S
  PROVE  /\ Append(s, e) \in Seq(S)
         /\ \A i \in DOMAIN Append(s, e) :
              \/ i \in DOMAIN s /\ Append(s, e)[i] = s[i]
              \/ Append(s, e)[i] = e
         /\ Range(Append(s, e)) = Range(s) \cup {e}
BY DEF Range

LEMMA LastInRange ==
  ASSUME NEW S, NEW s \in Seq(S), NEW e \in S
  PROVE  e \in Range(Append(s, e))
BY Enqueue

LEMMA Appended ==
  ASSUME NEW S, NEW s \in Seq(S), NEW e, NEW i \in DOMAIN Append(s, e)
  PROVE  \/ i \in DOMAIN s /\ Append(s, e)[i] = s[i]
         \/ Append(s, e)[i] = e
OBVIOUS

LEMMA Dequeue ==
  ASSUME NEW S, NEW s \in Seq(S), s # <<>>
  PROVE  /\ Head(s) \in S /\ Head(s) = s[1] /\ 1 \in DOMAIN s
         /\ Tail(s) \in Seq(S)
         /\ \A i \in DOMAIN Tail(s) : i + 1 \in DOMAIN s /\ Tail(s)[i] = s[i + 1]
OBVIOUS

LEMMA ElementOf ==
  ASSUME NEW S, NEW s \in Seq(S), NEW i \in DOMAIN s
  PROVE  s[i] \in S
OBVIOUS

LEMMA LastOf ==
  ASSUME NEW S, NEW s \in Seq(S), s # <<>>
  PROVE  Len(s) \in DOMAIN s /\ s[Len(s)] \in S
OBVIOUS

\* What an overlaid field can be: the server's value or one that is queued.
LEMMA OverlayCases ==
  ASSUME NEW S, NEW queue \in Seq(S), NEW value
  PROVE  \/ Overlay(queue, value) = value
         \/ \E i \in DOMAIN queue : Overlay(queue, value) = queue[i].val
BY LastOf DEF Overlay

\* A restart leaves records that differ in one flag.
LEMMA DetachedType ==
  ASSUME NEW S, NEW queue \in Seq(S), \A r \in S : [r EXCEPT !.attached = FALSE] \in S
  PROVE  Detached(queue) \in Seq(S)
<1>1. /\ Len(queue) \in Nat /\ DOMAIN queue = 1..Len(queue)
      /\ \A i \in 1..Len(queue) : queue[i] \in S
  OBVIOUS
<1>2. Detached(queue) \in [1..Len(queue) -> S]
  BY <1>1 DEF Detached
<1> QED
  BY <1>1, <1>2

-----------------------------------------------------------------------------
(* How many pending writes still have their closure *)

LEMMA OneMore ==
  ASSUME NEW A, NEW B, NEW x, IsFiniteSet(A), B \subseteq A \cup {x}
  PROVE  IsFiniteSet(B) /\ Cardinality(B) <= Cardinality(A) + 1
<1>1. /\ IsFiniteSet(A \cup {x}) /\ Cardinality(A \cup {x}) <= Cardinality(A) + 1
      /\ Cardinality(A \cup {x}) \in Nat /\ Cardinality(A) \in Nat
  BY FS_AddElement, FS_CardinalityType
<1>2. IsFiniteSet(B) /\ Cardinality(B) <= Cardinality(A \cup {x})
  BY <1>1, FS_Subset
<1>3. Cardinality(B) \in Nat
  BY <1>2, FS_CardinalityType
<1> QED
  BY <1>1, <1>2, <1>3

LEMMA OneLess ==
  ASSUME NEW A, NEW B, NEW x, IsFiniteSet(A), NEW f \in Injection(B, A \ {x})
  PROVE  /\ IsFiniteSet(B) /\ Cardinality(B) <= Cardinality(A)
         /\ x \in A => Cardinality(B) + 1 <= Cardinality(A)
<1>1. /\ IsFiniteSet(A \ {x}) /\ Cardinality(A \ {x}) \in Nat /\ Cardinality(A) \in Nat
  BY FS_RemoveElement, FS_CardinalityType
<1>2. Cardinality(A \ {x}) = IF x \in A THEN Cardinality(A)-1 ELSE Cardinality(A)
  BY FS_RemoveElement
<1>3. IsFiniteSet(B) /\ Cardinality(B) <= Cardinality(A \ {x})
  BY <1>1, FS_Injection
<1>4. Cardinality(B) \in Nat
  BY <1>3, FS_CardinalityType
<1> QED
  BY <1>1, <1>2, <1>3, <1>4

AwaitedOf(q, D) == Awaited(q, Device, Account, D)

LEMMA AwaitedPlace ==
  ASSUME NEW D, NEW q, NEW x \in AwaitedOf(q, D)
  PROVE  \E d \in Device, a \in Account, p \in D :
             \E i \in DOMAIN q[d][a][p] : q[d][a][p][i].attached /\ x = WriteAt(d, a, p, i)
BY DEF AwaitedOf, Awaited

LEMMA PlaceAwaited ==
  ASSUME NEW D, NEW q, NEW d \in Device, NEW a \in Account, NEW p \in D,
         NEW i \in DOMAIN q[d][a][p], q[d][a][p][i].attached
  PROVE  WriteAt(d, a, p, i) \in AwaitedOf(q, D)
<1> DEFINE at(e, b, r) ==
             {WriteAt(e, b, r, k) : k \in {j \in DOMAIN q[e][b][r] : q[e][b][r][j].attached}}
           all == {at(e, b, r) : e \in Device, b \in Account, r \in D}
<1>1. AwaitedOf(q, D) = UNION all
  BY DEF AwaitedOf, Awaited
<1>2. WriteAt(d, a, p, i) \in at(d, a, p)
  OBVIOUS
<1> HIDE DEF at
<1>3. at(d, a, p) \in all
  OBVIOUS
<1> HIDE DEF all
<1> QED
  BY <1>1, <1>2, <1>3

\* The other queues after a change of one.
OthersStay(q, r, D, d, a, p) ==
  \A e \in Device, b \in Account, w \in D :
    ~(e = d /\ b = a /\ w = p) => r[e][b][w] = q[e][b][w]

\* A write that is queued is one more.
LEMMA AwaitedAppend ==
  ASSUME NEW D, NEW S, NEW q \in Queues(D, S), IsFiniteSet(AwaitedOf(q, D)),
         NEW d \in Device, NEW a \in Account, NEW p \in D, NEW x,
         NEW r, r[d][a][p] = Append(q[d][a][p], x), OthersStay(q, r, D, d, a, p)
  PROVE  /\ IsFiniteSet(AwaitedOf(r, D))
         /\ Cardinality(AwaitedOf(r, D)) <= Cardinality(AwaitedOf(q, D)) + 1
<1> DEFINE s == q[d][a][p]
           n == Len(s) + 1
<1>1. s \in Seq(S)
  BY DEF Queues
<1>2. ASSUME NEW y \in AwaitedOf(r, D) PROVE y \in AwaitedOf(q, D) \cup {WriteAt(d, a, p, n)}
  <2>1. PICK e \in Device, b \in Account, w \in D :
          \E i \in DOMAIN r[e][b][w] : r[e][b][w][i].attached /\ y = WriteAt(e, b, w, i)
    BY AwaitedPlace
  <2>2. PICK i \in DOMAIN r[e][b][w] : r[e][b][w][i].attached /\ y = WriteAt(e, b, w, i)
    BY <2>1
  <2>3. CASE e = d /\ b = a /\ w = p
    <3>1. i \in DOMAIN Append(s, x) /\ Append(s, x)[i].attached
      BY <2>2, <2>3
    <3>2. i = n \/ (i \in DOMAIN s /\ s[i].attached)
      BY <1>1, <3>1
    <3>3. CASE i = n
      BY <2>2, <2>3, <3>3
    <3>4. CASE i \in DOMAIN s /\ s[i].attached
      BY <2>2, <2>3, <3>4, PlaceAwaited
    <3> QED
      BY <3>2, <3>3, <3>4
  <2>4. CASE ~(e = d /\ b = a /\ w = p)
    <3>1. r[e][b][w] = q[e][b][w]
      BY <2>4 DEF OthersStay
    <3>2. i \in DOMAIN q[e][b][w] /\ q[e][b][w][i].attached
      BY <2>2, <3>1
    <3> QED
      BY <2>2, <3>2, PlaceAwaited
  <2> QED
    BY <2>3, <2>4
<1>3. AwaitedOf(r, D) \subseteq AwaitedOf(q, D) \cup {WriteAt(d, a, p, n)}
  BY <1>2
<1> HIDE DEF n
<1> QED
  BY <1>3, OneMore

\* Places after the head of a queue has left it, as places before.
LEMMA MovedUp ==
  ASSUME NEW D, NEW S, NEW q \in Queues(D, S),
         NEW d \in Device, NEW a \in Account, NEW p \in D, q[d][a][p] # <<>>,
         NEW r, r[d][a][p] = Tail(q[d][a][p]),
         OthersStay(q, r, D, d, a, p)
  PROVE  \E f : f \in Injection(AwaitedOf(r, D), AwaitedOf(q, D) \ {WriteAt(d, a, p, 1)})
<1> DEFINE s == q[d][a][p]
           next(x) == WriteAt(d, a, p, x[4] + 1)
           here(x) == x[1] = d /\ x[2] = a /\ x[3] = p
           back(x) == IF here(x) THEN next(x) ELSE x
           f == [x \in AwaitedOf(r, D) |-> back(x)]
<1>0. \A e, b, w, i : /\ WriteAt(e, b, w, i)[1] = e /\ WriteAt(e, b, w, i)[2] = b
                        /\ WriteAt(e, b, w, i)[3] = w /\ WriteAt(e, b, w, i)[4] = i
  BY DEF WriteAt
<1>1. /\ s \in Seq(S) /\ Tail(s) \in Seq(S)
      /\ \A i \in DOMAIN Tail(s) : i \in Nat /\ i > 0 /\ i + 1 \in DOMAIN s /\ Tail(s)[i] = s[i + 1]
  BY DEF Queues
<1>2. /\ r[d][a][p] = Tail(s)
      /\ \A e \in Device, b \in Account, w \in D :
           ~(e = d /\ b = a /\ w = p) => r[e][b][w] = q[e][b][w]
  BY DEF OthersStay
<1>3. ASSUME NEW x \in AwaitedOf(r, D), here(x)
      PROVE  /\ next(x) \in AwaitedOf(q, D) /\ next(x) # WriteAt(d, a, p, 1)
             /\ x[4] \in Nat /\ x = WriteAt(d, a, p, x[4])
  <2>1. PICK e \in Device, b \in Account, w \in D :
          \E i \in DOMAIN r[e][b][w] : r[e][b][w][i].attached /\ x = WriteAt(e, b, w, i)
    BY AwaitedPlace
  <2>2. PICK i \in DOMAIN r[e][b][w] : r[e][b][w][i].attached /\ x = WriteAt(e, b, w, i)
    BY <2>1
  <2>3. x[1] = e /\ x[2] = b /\ x[3] = w /\ x[4] = i
    BY <2>2, <1>0
  <2>4. e = d /\ b = a /\ w = p
    BY <1>3, <2>3
  <2>5. i \in DOMAIN Tail(s) /\ Tail(s)[i].attached
    BY <2>2, <2>4, <1>2
  <2>6. i \in Nat /\ i > 0 /\ i + 1 \in DOMAIN s /\ s[i + 1].attached
    BY <2>5, <1>1
  <2>7. next(x) = WriteAt(d, a, p, i + 1)
    BY <2>3
  <2>8. WriteAt(d, a, p, i + 1) \in AwaitedOf(q, D)
    BY <2>6, PlaceAwaited
  <2>9. WriteAt(d, a, p, i + 1)[4] = i + 1 /\ WriteAt(d, a, p, 1)[4] = 1
    BY <1>0
  <2> QED
    BY <2>2, <2>3, <2>4, <2>6, <2>7, <2>8, <2>9
<1>4. ASSUME NEW x \in AwaitedOf(r, D), ~here(x)
      PROVE  x \in AwaitedOf(q, D) /\ x # WriteAt(d, a, p, 1)
  <2>1. PICK e \in Device, b \in Account, w \in D :
          \E i \in DOMAIN r[e][b][w] : r[e][b][w][i].attached /\ x = WriteAt(e, b, w, i)
    BY AwaitedPlace
  <2>2. PICK i \in DOMAIN r[e][b][w] : r[e][b][w][i].attached /\ x = WriteAt(e, b, w, i)
    BY <2>1
  <2>3. x[1] = e /\ x[2] = b /\ x[3] = w
    BY <2>2, <1>0
  <2>4. r[e][b][w] = q[e][b][w]
    BY <1>4, <2>3, <1>2
  <2>5. i \in DOMAIN q[e][b][w] /\ q[e][b][w][i].attached
    BY <2>2, <2>4
  <2>6. x \in AwaitedOf(q, D)
    BY <2>2, <2>5, PlaceAwaited
  <2>7. WriteAt(d, a, p, 1)[1] = d /\ WriteAt(d, a, p, 1)[2] = a /\ WriteAt(d, a, p, 1)[3] = p
    BY <1>0
  <2> QED
    BY <1>4, <2>6, <2>7
<1>5. ASSUME NEW x \in AwaitedOf(r, D), NEW y \in AwaitedOf(r, D), back(x) = back(y) PROVE x = y
  <2>1. \A z : next(z)[1] = d /\ next(z)[2] = a /\ next(z)[3] = p /\ next(z)[4] = z[4] + 1
    BY <1>0
  <2>2. here(next(x)) /\ here(next(y))
    BY <2>1
  <2> HIDE DEF next, here
  <2>3. here(x) <=> here(y)
    BY <1>5, <2>2
  <2>4. CASE here(x)
    <3>1. next(x) = next(y) /\ next(x)[4] = x[4] + 1 /\ next(y)[4] = y[4] + 1
      BY <1>5, <2>1, <2>3, <2>4
    <3>2. x[4] + 1 = y[4] + 1
      BY <3>1
    <3>3. x[4] \in Nat /\ x = WriteAt(d, a, p, x[4]) /\ y[4] \in Nat /\ y = WriteAt(d, a, p, y[4])
      BY <1>3, <2>3, <2>4
    <3>4. x[4] = y[4]
      BY <3>2, <3>3
    <3> QED
      BY <3>3, <3>4
  <2> QED
    BY <1>5, <2>3, <2>4
<1> HIDE DEF next, here
<1>6. \A x \in AwaitedOf(r, D) : back(x) \in AwaitedOf(q, D) \ {WriteAt(d, a, p, 1)}
  BY <1>3, <1>4
<1> HIDE DEF back
<1>7. f \in Injection(AwaitedOf(r, D), AwaitedOf(q, D) \ {WriteAt(d, a, p, 1)})
  BY <1>5, <1>6 DEF Injection, IsInjective
<1> QED
  BY <1>7

\* A write that leaves its queue is one less.
LEMMA AwaitedTail ==
  ASSUME NEW D, NEW S, NEW q \in Queues(D, S), IsFiniteSet(AwaitedOf(q, D)),
         NEW d \in Device, NEW a \in Account, NEW p \in D, q[d][a][p] # <<>>,
         NEW r, r[d][a][p] = Tail(q[d][a][p]), OthersStay(q, r, D, d, a, p)
  PROVE  /\ IsFiniteSet(AwaitedOf(r, D))
         /\ Cardinality(AwaitedOf(r, D)) <= Cardinality(AwaitedOf(q, D))
         /\ Head(q[d][a][p]).attached =>
              Cardinality(AwaitedOf(r, D)) + 1 <= Cardinality(AwaitedOf(q, D))
<1>1. PICK f : f \in Injection(AwaitedOf(r, D), AwaitedOf(q, D) \ {WriteAt(d, a, p, 1)})
  BY MovedUp
<1>2. 1 \in DOMAIN q[d][a][p] /\ Head(q[d][a][p]) = q[d][a][p][1]
  BY Dequeue DEF Queues
<1>3. Head(q[d][a][p]).attached => WriteAt(d, a, p, 1) \in AwaitedOf(q, D)
  BY <1>2, PlaceAwaited
<1> QED
  BY <1>1, <1>3, OneLess

\* A restart only takes closures away.
LEMMA AwaitedRestart ==
  ASSUME NEW D, NEW S, \A w \in S : [w EXCEPT !.attached = FALSE].attached = FALSE,
         NEW q \in Queues(D, S), IsFiniteSet(AwaitedOf(q, D)), NEW d \in Device,
         NEW r, \A a \in Account, p \in D : r[d][a][p] = Detached(q[d][a][p]),
         \A e \in Device : e # d => r[e] = q[e]
  PROVE  /\ IsFiniteSet(AwaitedOf(r, D))
         /\ Cardinality(AwaitedOf(r, D)) <= Cardinality(AwaitedOf(q, D))
<1>1. ASSUME NEW x \in AwaitedOf(r, D) PROVE x \in AwaitedOf(q, D)
  <2>1. PICK e \in Device, b \in Account, w \in D :
          \E i \in DOMAIN r[e][b][w] : r[e][b][w][i].attached /\ x = WriteAt(e, b, w, i)
    BY AwaitedPlace
  <2>2. PICK i \in DOMAIN r[e][b][w] : r[e][b][w][i].attached /\ x = WriteAt(e, b, w, i)
    BY <2>1
  <2>3. e # d
    <3> SUFFICES ASSUME e = d PROVE FALSE
      OBVIOUS
    <3>1. r[d][b][w] = Detached(q[d][b][w]) /\ q[d][b][w] \in Seq(S)
      BY DEF Queues
    <3>2. i \in DOMAIN q[d][b][w] /\ r[d][b][w][i] = [q[d][b][w][i] EXCEPT !.attached = FALSE]
      BY <2>2, <3>1 DEF Detached
    <3>3. q[d][b][w][i] \in S
      BY <3>1, <3>2, ElementOf
    <3> QED
      BY <2>2, <3>2, <3>3
  <2>4. i \in DOMAIN q[e][b][w] /\ q[e][b][w][i].attached
    BY <2>2, <2>3
  <2> QED
    BY <2>2, <2>4, PlaceAwaited
<1>2. AwaitedOf(r, D) \subseteq AwaitedOf(q, D)
  BY <1>1
<1> QED
  BY <1>2, FS_Subset

-----------------------------------------------------------------------------
(* How large the numbers get *)

LEMMA FieldsGrow ==
  ASSUME NEW b \in Int, NEW c \in Int, b <= c, SessionTypeOK(Int), FieldsWithin(b), NotSet \notin Int
  PROVE  FieldsWithin(c)
<1>1. \A d \in Device : info[d].field \in Int
  BY DEF SessionTypeOK
<1>2. \A l \in loads : l.field # NotSet => l.field \in Int
  BY DEF SessionTypeOK, LoadRecord
<1> QED
  BY <1>1, <1>2 DEF FieldsWithin

\* Users bring in the value of a cleared singleton only.
LEMMA FieldsUserStep ==
  ASSUME SessionTypeOK(Int), NEW d \in Device,
         \/ \E u \in User : SignIn(d, u)
         \/ MapAppears(d)
         \/ SignOut(d)
         \/ Relaunch(d),
         NEW b \in Int, Initial <= b, FieldsWithin(b)
  PROVE  FieldsWithin(b)'
<1>1. info' = info \/ info' = [info EXCEPT ![d] = ClearedInfo]
  BY DEF SignIn, MapAppears, SignOut, Relaunch, GetUserInfo
<1>2. \A l \in loads' : l \in loads \/ l.field = NotSet
  BY DEF SignIn, MapAppears, SignOut, Relaunch, GetUserInfo
<1>3. info \in [Device -> [email : Email, field : Int]] /\ ClearedInfo.field = Initial
  BY DEF SessionTypeOK, ClearedInfo
<1> HIDE DEF ClearedInfo
<1> QED
  BY <1>1, <1>2, <1>3 DEF FieldsWithin

\* An answer brings in what the query has seen.
LEMMA FieldsLoadStep ==
  ASSUME SessionTypeOK(Int), NEW l \in loads, NEW seen,
         AnswerLoad(l, seen) \/ LoadArrives(l) \/ LoadFails(l),
         NEW b \in Int, seen # NotSet => seen <= b, FieldsWithin(b)
  PROVE  FieldsWithin(b)'
<1>1. l \in LoadRecord(Int) /\ info \in [Device -> [email : Email, field : Int]]
  BY DEF SessionTypeOK
<1>2. CASE AnswerLoad(l, seen)
  <2>1. [l EXCEPT !.answered = TRUE, !.field = seen].field = seen
    BY <1>1 DEF LoadRecord
  <2> QED
    BY <1>2, <2>1 DEF AnswerLoad, FieldsWithin
<1>3. CASE LoadArrives(l)
  BY <1>1, <1>3 DEF LoadArrives, FieldsWithin
<1>4. CASE LoadFails(l)
  BY <1>4 DEF LoadFails, FieldsWithin
<1> QED
  BY <1>2, <1>3, <1>4

\* A completion raises the singleton's number by one.
LEMMA FieldsBump ==
  ASSUME SessionTypeOK(Int), NotSet \notin Int, NEW d \in Device, NEW b \in Int, FieldsWithin(b),
         info' = [info EXCEPT ![d].field = @ + 1], loads' = loads
  PROVE  FieldsWithin(b + 1)'
<1>1. \A e \in Device : info[e].field \in Int /\ info[e].field <= b
  BY DEF SessionTypeOK, FieldsWithin
<1>2. \A e \in Device : info'[e].field = IF e = d THEN info[e].field + 1 ELSE info[e].field
  BY DEF SessionTypeOK
<1>3. \A l \in loads : l.field # NotSet => l.field \in Int /\ l.field <= b
  BY DEF SessionTypeOK, LoadRecord, FieldsWithin
<1> QED
  BY <1>1, <1>2, <1>3 DEF FieldsWithin
=============================================================================
