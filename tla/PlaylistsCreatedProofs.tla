----------------------- MODULE PlaylistsCreatedProofs -----------------------
(***************************************************************************)
(* Proofs about PlaylistsCreated and PatientCreating, for any sets of      *)
(* phones and users and any number of clicks.                              *)
(***************************************************************************)
EXTENDS PatientCreating, SessionProofs, TLAPS

-----------------------------------------------------------------------------
(* Type correctness *)

Creates == Queues(User, CreateRecord)

LEMMA TypeOKInit == Init => TypeOK
<1> SUFFICES ASSUME Init PROVE TypeOK
  OBVIOUS
<1>1. SessionTypeOK(Int)
  BY CreatedAssumption, SessionInitType DEF Init
<1> QED
  BY <1>1, CreatedAssumption DEF Init, TypeOK, Account, Email

\* The queue of counts at whose head the backend is, and what is left of it.
LEMMA HeadOfCreates ==
  ASSUME TypeOK, NEW d \in Device, NEW u \in User, creates[d][auth[d]][u] # <<>>
  PROVE  /\ auth[d] \in Account
         /\ Head(creates[d][auth[d]][u]) \in CreateRecord
         /\ Head(creates[d][auth[d]][u]) = creates[d][auth[d]][u][1]
         /\ 1 \in DOMAIN creates[d][auth[d]][u]
         /\ [creates EXCEPT ![d][auth[d]][u] = Tail(@)] \in Creates
<1>1. auth[d] \in Account /\ creates[d][auth[d]][u] \in Seq(CreateRecord)
  BY DEF TypeOK, SessionTypeOK
<1>2. /\ Head(creates[d][auth[d]][u]) \in CreateRecord
      /\ Head(creates[d][auth[d]][u]) = creates[d][auth[d]][u][1]
      /\ 1 \in DOMAIN creates[d][auth[d]][u]
      /\ Tail(creates[d][auth[d]][u]) \in Seq(CreateRecord)
  BY <1>1, Dequeue
<1> QED
  BY <1>1, <1>2, PutQueue DEF TypeOK, Creates, Queues

LEMMA CompletionType ==
  ASSUME TypeOK, NEW d \in Device, Completion(d)
  PROVE  SessionTypeOK(Int)'
<1>0. SessionTypeOK(Int) /\ Initial \in Int /\ info[d] \in [email : Email, field : Int]
  BY CreatedAssumption DEF TypeOK, SessionTypeOK
<1>1. CASE auth[d] # Nobody /\ GetUserInfo(d, auth[d], loads) /\ UNCHANGED auth
  <2>1. auth[d] \in User
    BY <1>0, <1>1 DEF SessionTypeOK, Account
  <2> QED
    BY <1>0, <1>1, <2>1, GetUserInfoType DEF SessionTypeOK, LoadRecord
<1>2. CASE /\ info' = [info EXCEPT ![d].field = @ + 1]
           /\ UNCHANGED <<auth, loads, appeared>>
  <2>1. [info[d] EXCEPT !.field = @ + 1] \in [email : Email, field : Int]
    BY <1>0
  <2>2. info' = [info EXCEPT ![d] = [info[d] EXCEPT !.field = @ + 1]]
    BY <1>0, <1>2 DEF SessionTypeOK
  <2>3. info' \in [Device -> [email : Email, field : Int]]
    BY <1>0, <2>1, <2>2 DEF SessionTypeOK
  <2> QED
    BY <1>0, <1>2, <2>3 DEF SessionTypeOK, LoadRecord
<1> QED
  BY <1>1, <1>2 DEF Completion

LEMMA TypeOKNext == TypeOK /\ [Next]_vars => TypeOK'
<1> SUFFICES ASSUME TypeOK, [Next]_vars PROVE TypeOK'
  OBVIOUS
<1>0. SessionTypeOK(Int) /\ Initial \in Int
  BY CreatedAssumption DEF TypeOK
<1>1. ASSUME NEW d \in Device, ComeAndGo(d) PROVE TypeOK'
  <2>1. SessionTypeOK(Int)'
    BY <1>0, <1>1, SessionUserType DEF ComeAndGo
  <2> QED
    BY <1>1, <2>1 DEF TypeOK, ComeAndGo, docVars
<1>2. ASSUME NEW d \in Device, Restart(d) PROVE TypeOK'
  <2>1. SessionTypeOK(Int)'
    BY <1>0, <1>2, SessionUserType DEF Restart
  <2>2. \A r \in CreateRecord : [r EXCEPT !.attached = FALSE] \in CreateRecord
    BY DEF CreateRecord
  <2>3. ASSUME NEW a \in Account, NEW u \in User
        PROVE  Detached(creates[d][a][u]) \in Seq(CreateRecord)
    <3>1. creates[d][a][u] \in Seq(CreateRecord)
      BY DEF TypeOK
    <3> QED
      BY <2>2, <3>1, DetachedType
  <2>4. creates' \in [Device -> [Account -> [User -> Seq(CreateRecord)]]]
    BY <1>2, <2>3 DEF TypeOK, Restart
  <2> QED
    BY <1>2, <2>1, <2>4 DEF TypeOK, Restart, docVars
<1>3. ASSUME NEW d \in Device, Click(d) PROVE TypeOK'
  <2>1. /\ auth[d] \in User /\ auth[d] \in Account
        /\ info[d].email \in Email /\ info[d].field + 1 \in Int /\ clicks \in Nat
    BY <1>3, CreatedAssumption DEF Click, TypeOK, SessionTypeOK, Account
  <2>2. lookups' \subseteq LookupRecord
    BY <1>3, <2>1 DEF Click, TypeOK, LookupRecord
  <2>3. adds' \in [Device -> [Account -> Seq(AddRecord)]]
    <3>1. [id |-> clicks, email |-> info[d].email] \in AddRecord
      BY <2>1 DEF AddRecord
    <3>2. Append(adds[d][auth[d]], [id |-> clicks, email |-> info[d].email]) \in Seq(AddRecord)
      BY <2>1, <3>1 DEF TypeOK
    <3>3. adds' = [adds EXCEPT ![d][auth[d]] =
                     Append(adds[d][auth[d]], [id |-> clicks, email |-> info[d].email])]
      BY <1>3 DEF Click
    <3> QED
      BY <2>1, <3>2, <3>3 DEF TypeOK
  <2>4. clicks' \in 0..MaxClicks /\ clicker' \in Seq(User) /\ Len(clicker') = clicks'
    BY <1>3, <2>1, CreatedAssumption DEF Click, TypeOK
  <2> QED
    BY <1>3, <2>2, <2>3, <2>4, SessionStutter DEF Click, TypeOK, docVars
<1>4. ASSUME NEW d \in Device, CommitAdd(d) \/ RejectAdd(d) PROVE TypeOK'
  <2>1. auth[d] \in Account /\ adds[d][auth[d]] \in Seq(AddRecord) /\ adds[d][auth[d]] # <<>>
    BY <1>4 DEF TypeOK, SessionTypeOK, CommitAdd, RejectAdd
  <2>2. Head(adds[d][auth[d]]) \in AddRecord /\ Tail(adds[d][auth[d]]) \in Seq(AddRecord)
    BY <2>1, Dequeue
  <2>3. adds' \in [Device -> [Account -> Seq(AddRecord)]]
    <3>1. adds' = adds \/ adds' = [adds EXCEPT ![d][auth[d]] = Tail(adds[d][auth[d]])]
      BY <1>4 DEF CommitAdd, RejectAdd
    <3>2. [adds EXCEPT ![d][auth[d]] = Tail(adds[d][auth[d]])]
            \in [Device -> [Account -> Seq(AddRecord)]]
      BY <2>1, <2>2 DEF TypeOK
    <3> QED
      BY <3>1, <3>2 DEF TypeOK
  <2>4. userPlaylists' \subseteq AddRecord
    BY <1>4, <2>2 DEF CommitAdd, RejectAdd, TypeOK, docVars
  <2> QED
    BY <1>4, <2>3, <2>4, SessionStutter DEF CommitAdd, RejectAdd, TypeOK, docVars
<1>5. ASSUME NEW l \in loads, Load(l) PROVE TypeOK'
  <2> DEFINE queue == creates[l.dev][auth[l.dev]][l.email]
  <2>1. l.dev \in Device /\ l.email \in User /\ auth[l.dev] \in Account
    BY DEF TypeOK, SessionTypeOK, LoadRecord
  <2>2. queue \in Seq(CreateRecord) /\ totalPlaylistsCreated[l.email] \in Int \cup {NotSet}
    BY <2>1 DEF TypeOK
  <2>3. ASSUME NEW i \in DOMAIN queue PROVE queue[i].val \in Int
    <3>1. queue[i] \in CreateRecord
      BY <2>2, ElementOf
    <3> QED
      BY <3>1 DEF CreateRecord
  <2>4. SeenCount(l.dev, l.email) \in Int \cup {NotSet}
    BY <2>2, <2>3, OverlayCases DEF SeenCount
  <2>5. SessionTypeOK(Int)'
    BY <1>0, <1>5, <2>4, SessionLoadType DEF Load
  <2> QED
    BY <1>5, <2>5 DEF Load, TypeOK, docVars
<1>6. ASSUME NEW q \in lookups, LookupArrives(q) PROVE TypeOK'
  <2>1. q.dev \in Device /\ q.email \in Account /\ q.val \in Int /\ auth[q.dev] \in Account
    BY DEF TypeOK, SessionTypeOK, LookupRecord, Email
  <2>2. creates' \in [Device -> [Account -> [User -> Seq(CreateRecord)]]]
    <3>1. CASE q.email = Nobody
      BY <1>6, <3>1 DEF TypeOK, LookupArrives
    <3>2. CASE q.email # Nobody
      <4> DEFINE w == [val |-> q.val, attached |-> TRUE]
      <4>1. w \in CreateRecord /\ q.email \in User
        BY <2>1, <3>2 DEF CreateRecord, Account
      <4> HIDE DEF w
      <4>2. Append(creates[q.dev][auth[q.dev]][q.email], w) \in Seq(CreateRecord)
        BY <2>1, <4>1 DEF TypeOK
      <4>3. creates' = [creates EXCEPT ![q.dev][auth[q.dev]][q.email] =
                          Append(creates[q.dev][auth[q.dev]][q.email], w)]
        BY <1>6, <3>2 DEF LookupArrives, w
      <4> QED
        BY <2>1, <4>1, <4>2, <4>3 DEF TypeOK
    <3> QED
      BY <3>1, <3>2
  <2> QED
    BY <1>6, <2>2, SessionStutter DEF LookupArrives, TypeOK, docVars
<1>7. ASSUME NEW q \in lookups, LookupFails(q) PROVE TypeOK'
  BY <1>7, SessionStutter DEF LookupFails, TypeOK, docVars
<1>8. ASSUME NEW d \in Device, NEW u \in User, CommitCreate(d, u) PROVE TypeOK'
  <2> DEFINE w == Head(creates[d][auth[d]][u])
  <2>1. w \in CreateRecord /\ w.val \in Int
    BY <1>8, HeadOfCreates DEF CommitCreate, CreateRecord
  <2>2. totalPlaylistsCreated' \in [User -> Int \cup {NotSet}]
    BY <1>8, <2>1 DEF TypeOK, CommitCreate
  <2>3. creates' \in [Device -> [Account -> [User -> Seq(CreateRecord)]]]
    <3>1. creates' = creates \/ creates' = [creates EXCEPT ![d][auth[d]][u] = Tail(@)]
      BY <1>8 DEF CommitCreate
    <3>2. creates[d][auth[d]][u] # <<>>
      BY <1>8 DEF CommitCreate
    <3>3. [creates EXCEPT ![d][auth[d]][u] = Tail(@)] \in Creates
      BY <3>2, HeadOfCreates
    <3> QED
      BY <3>1, <3>3 DEF TypeOK, Creates, Queues
  <2>4. SessionTypeOK(Int)'
    <3>1. Completion(d) \/ UNCHANGED sessionVars
      BY <1>8, Zenon DEF CommitCreate
    <3> QED
      BY <1>0, <3>1, CompletionType, SessionStutter
  <2> QED
    BY <1>8, <2>2, <2>3, <2>4 DEF TypeOK, CommitCreate
<1>9. ASSUME NEW d \in Device, NEW u \in User, RejectCreate(d, u) PROVE TypeOK'
  <2>1. creates' \in [Device -> [Account -> [User -> Seq(CreateRecord)]]]
    BY <1>9, HeadOfCreates DEF TypeOK, RejectCreate, Creates, Queues
  <2> QED
    BY <1>9, <2>1, SessionStutter DEF TypeOK, RejectCreate, docVars
<1>10. CASE UNCHANGED vars
  BY <1>10, SessionStutter DEF TypeOK, vars, docVars
<1> QED
  BY <1>1, <1>2, <1>3, <1>4, <1>5, <1>6, <1>7, <1>8, <1>9, <1>10 DEF Next

\* Every callback of addPlaylistVC.swift finds its data in the shape it reads
\* it, whatever clicks and sessions are still on their way.
THEOREM TypeCorrect == Spec => []TypeOK
<1>1. Init => TypeOK
  BY TypeOKInit
<1>2. TypeOK /\ [Next]_vars => TypeOK'
  BY TypeOKNext
<1> QED
  BY <1>1, <1>2, PTL DEF Spec

-----------------------------------------------------------------------------
(* How much clicks are worth *)

LEMMA WorthType ==
  ASSUME TypeOK, IsFiniteSet(lookups), IsFiniteSet(Open)
  PROVE  /\ clicks \in Nat /\ Cardinality(lookups) \in Nat /\ Cardinality(Open) \in Nat
         /\ Worth \in Int /\ Worth <= 2 * clicks
<1>1. clicks \in Nat
  BY CreatedAssumption DEF TypeOK
<1>2. Cardinality(lookups) \in Nat /\ Cardinality(Open) \in Nat
  BY FS_CardinalityType
<1> QED
  BY <1>1, <1>2 DEF Worth

LEMMA WithinGrows ==
  ASSUME TypeOK, NEW b \in Int, NEW c \in Int, b <= c, Within(b)
  PROVE  Within(c)
<1>1. FieldsWithin(c)
  BY CreatedAssumption, FieldsGrow DEF TypeOK, Within
<1>2. \A q \in lookups : q.val \in Int
  BY DEF TypeOK, LookupRecord
<1>3. ASSUME NEW d \in Device, NEW a \in Account, NEW u \in User, NEW i \in DOMAIN creates[d][a][u]
      PROVE  creates[d][a][u][i].val \in Int
  <2>1. creates[d][a][u] \in Seq(CreateRecord)
    BY DEF TypeOK
  <2>2. creates[d][a][u][i] \in CreateRecord
    BY <2>1, ElementOf
  <2> QED
    BY <2>2 DEF CreateRecord
<1>4. \A u \in User : totalPlaylistsCreated[u] # NotSet => totalPlaylistsCreated[u] \in Int
  BY DEF TypeOK
<1> QED
  BY <1>1, <1>2, <1>3, <1>4 DEF Within

LEMMA WorthInit == Init => WorthInv
<1> SUFFICES ASSUME Init PROVE WorthInv
  OBVIOUS
<1>1. \A x : x \notin AwaitedOf(creates, User)
  <2> SUFFICES ASSUME NEW x \in AwaitedOf(creates, User) PROVE FALSE
    OBVIOUS
  <2>1. PICK d \in Device, a \in Account, u \in User : DOMAIN creates[d][a][u] # {}
    BY AwaitedPlace
  <2>2. creates[d][a][u] = <<>>
    BY DEF Init
  <2> QED
    BY <2>1, <2>2
<1>2. Open = {} /\ lookups = {}
  BY <1>1 DEF Init, Open, AwaitedOf
<1>3. /\ IsFiniteSet(lookups) /\ Cardinality(lookups) = 0
      /\ IsFiniteSet(Open) /\ Cardinality(Open) = 0
  BY <1>2, FS_EmptySet
<1>4. Worth = 0 /\ clicks = 0
  BY <1>3 DEF Worth, Init
<1>5. FieldsWithin(0)
  BY CreatedAssumption DEF Init, SessionInit, ClearedInfo, FieldsWithin
<1>6. Within(0)
  BY <1>5 DEF Init, Within
<1>7. Enough(0) /\ 0 \in 0..(2 * clicks)
  BY <1>3, <1>4, <1>6 DEF Enough
<1> QED
  BY <1>7 DEF WorthInv

\* A step that leaves no more requests and writes under way than before, and
\* clicks, is still worth b.
LEMMA WorthStays ==
  ASSUME TypeOK, NEW b \in Int, Enough(b), UNCHANGED clicks,
         IsFiniteSet(lookups'), IsFiniteSet(Open'), NEW n \in Int, n >= 0,
         Cardinality(lookups') + Cardinality(Open') + n <= Cardinality(lookups) + Cardinality(Open)
  PROVE  Worth' >= b + n
<1>1. clicks \in Nat /\ Cardinality(lookups) \in Nat /\ Cardinality(Open) \in Nat /\ Worth >= b
  BY WorthType DEF Enough
<1>2. Cardinality(lookups') \in Nat /\ Cardinality(Open') \in Nat
  BY FS_CardinalityType
<1> DEFINE l == Cardinality(lookups)
           o == Cardinality(Open)
           k == Cardinality(lookups')
           m == Cardinality(Open')
<1>3. Worth = 2 * clicks - l - o /\ Worth' = 2 * clicks - k - m
  BY DEF Worth
<1> HIDE DEF l, o, k, m
<1> QED
  BY <1>1, <1>2, <1>3 DEF l, o, k, m

LEMMA EnoughAfter ==
  ASSUME TypeOK', NEW b \in Int, b >= 0, IsFiniteSet(lookups'), IsFiniteSet(Open'),
         Worth' >= b, Within(b)'
  PROVE  WorthInv'
<1>1. clicks' \in Nat
  BY CreatedAssumption DEF TypeOK
<1>2. Cardinality(lookups') \in Nat /\ Cardinality(Open') \in Nat
  BY FS_CardinalityType
<1> DEFINE w == Worth'
           c == clicks'
           k == Cardinality(lookups')
           m == Cardinality(Open')
<1>3. w = 2 * c - k - m
  BY DEF Worth
<1>4. c \in Nat /\ k \in Nat /\ m \in Nat /\ w >= b
  BY <1>1, <1>2
<1> HIDE DEF w, c, k, m
<1>5. b \in 0..(2 * c)
  BY <1>3, <1>4
<1> QED
  BY <1>5 DEF WorthInv, Enough, c

\* What the count of a user looks like through the queue is no more than b.
LEMMA SeenWithin ==
  ASSUME TypeOK, NEW b \in Int, Within(b), NEW d \in Device, NEW u \in User, SeenCount(d, u) # NotSet
  PROVE  SeenCount(d, u) <= b
<1> DEFINE queue == creates[d][auth[d]][u]
<1>1. auth[d] \in Account /\ queue \in Seq(CreateRecord)
  BY DEF TypeOK, SessionTypeOK
<1>2. \/ SeenCount(d, u) = totalPlaylistsCreated[u]
      \/ \E i \in DOMAIN queue : SeenCount(d, u) = queue[i].val
  BY <1>1, OverlayCases DEF SeenCount
<1> QED
  BY <1>1, <1>2 DEF Within

LEMMA HeadOut ==
  ASSUME TypeOK, NEW d \in Device, NEW u \in User, creates[d][auth[d]][u] # <<>>,
         NEW r, r = [creates EXCEPT ![d][auth[d]][u] = Tail(@)]
  PROVE  r[d][auth[d]][u] = Tail(creates[d][auth[d]][u]) /\ OthersStay(creates, r, User, d, auth[d], u)
<1> DEFINE c == auth[d]
           v == Tail(creates[d][c][u])
<1>1. c \in Account /\ creates \in Queues(User, CreateRecord) /\ creates[d][c][u] \in Seq(CreateRecord)
  BY DEF TypeOK, SessionTypeOK, Queues
<1>2. v \in Seq(CreateRecord) /\ r = [creates EXCEPT ![d][c][u] = v]
  BY <1>1, Dequeue
<1> HIDE DEF c, v
<1>3. r[d][c][u] = v /\ OthersStay(creates, r, User, d, c, u)
  BY <1>1, <1>2 DEF Queues, OthersStay
<1> QED
  BY <1>3 DEF c, v

\* What is left of the queues when one loses its head.
LEMMA CreatesTail ==
  ASSUME TypeOK, NEW b \in Int, Enough(b), NEW d \in Device, NEW u \in User,
         creates[d][auth[d]][u] # <<>>,
         creates'[d][auth[d]][u] = Tail(creates[d][auth[d]][u]),
         OthersStay(creates, creates', User, d, auth[d], u)
  PROVE  /\ \A e \in Device, a \in Account, v \in User :
              \A i \in DOMAIN creates'[e][a][v] : creates'[e][a][v][i].val <= b
         /\ IsFiniteSet(Open') /\ Cardinality(Open') <= Cardinality(Open)
         /\ Head(creates[d][auth[d]][u]).attached => Cardinality(Open') + 1 <= Cardinality(Open)
<1> DEFINE q == creates
           r == creates'
           c == auth[d]
           s == q[d][c][u]
<1>1. /\ c \in Account /\ q \in Creates /\ s \in Seq(CreateRecord)
  BY DEF TypeOK, SessionTypeOK, Creates, Queues
<1>2. Tail(s) \in Seq(CreateRecord) /\ \A i \in DOMAIN Tail(s) : i + 1 \in DOMAIN s /\ Tail(s)[i] = s[i + 1]
  BY <1>1, Dequeue
<1>3. r[d][c][u] = Tail(s) /\ OthersStay(q, r, User, d, c, u)
  OBVIOUS
<1>4. ASSUME NEW e \in Device, NEW a \in Account, NEW v \in User, NEW i \in DOMAIN r[e][a][v]
      PROVE  r[e][a][v][i].val <= b
  <2>1. CASE e = d /\ a = c /\ v = u
    <3>1. \A j \in DOMAIN s : s[j].val <= b
      BY <1>1 DEF Enough, Within
    <3>2. r[e][a][v] = Tail(s) /\ i \in DOMAIN Tail(s)
      BY <1>3, <1>4, <2>1
    <3>3. i + 1 \in DOMAIN s /\ r[e][a][v][i] = s[i + 1]
      BY <1>2, <3>2
    <3> QED
      BY <3>1, <3>3
  <2>2. CASE ~(e = d /\ a = c /\ v = u)
    BY <1>3, <2>2 DEF Enough, Within, OthersStay
  <2> QED
    BY <2>1, <2>2
<1>5. AwaitedOf(q, User) = Open /\ AwaitedOf(r, User) = Open'
  BY DEF AwaitedOf, Open
<1>6. IsFiniteSet(AwaitedOf(q, User))
  BY <1>5 DEF Enough
<1> HIDE DEF q, r, c
<1>7. /\ IsFiniteSet(AwaitedOf(r, User))
      /\ Cardinality(AwaitedOf(r, User)) <= Cardinality(AwaitedOf(q, User))
      /\ Head(s).attached => Cardinality(AwaitedOf(r, User)) + 1 <= Cardinality(AwaitedOf(q, User))
  BY <1>1, <1>3, <1>6, AwaitedTail DEF Creates, q, r, c
<1> QED
  BY <1>4, <1>5, <1>7 DEF q, r, c

\* A restart of the app: queries end, closures go, numbers stay.
LEMMA WorthRestart ==
  ASSUME TypeOK, TypeOK', NEW b \in Int, b >= 0, Enough(b), NEW d \in Device, Restart(d)
  PROVE  WorthInv'
<1> DEFINE q == creates
           r == creates'
<1>1. FieldsWithin(b)'
  BY CreatedAssumption, FieldsUserStep DEF TypeOK, Restart, Enough, Within
<1>2. lookups' \in SUBSET lookups
  BY DEF Restart
<1>3. q \in Creates /\ (\A a \in Account, u \in User : r[d][a][u] = Detached(q[d][a][u]))
      /\ \A e \in Device : e # d => r[e] = q[e]
  BY DEF TypeOK, Restart, Creates, Queues
<1>4. ASSUME NEW e \in Device, NEW a \in Account, NEW u \in User, NEW i \in DOMAIN r[e][a][u]
      PROVE  r[e][a][u][i].val <= b
  <2>1. CASE e = d
    <3>1. i \in DOMAIN q[d][a][u] /\ r[d][a][u][i] = [q[d][a][u][i] EXCEPT !.attached = FALSE]
      <4> HIDE DEF q, r
      <4>1. r[d][a][u] = Detached(q[d][a][u]) /\ i \in DOMAIN r[d][a][u]
        BY <1>3, <2>1
      <4> QED
        BY <4>1 DEF Detached
    <3>2. q[d][a][u][i] \in CreateRecord
      BY <1>3, <3>1, ElementOf DEF Creates, Queues
    <3>3. r[d][a][u][i].val = q[d][a][u][i].val
      BY <3>1, <3>2 DEF CreateRecord
    <3> QED
      BY <2>1, <3>1, <3>3 DEF Enough, Within
  <2>2. CASE e # d
    BY <1>3, <2>2 DEF Enough, Within
  <2> QED
    BY <2>1, <2>2
<1>5. AwaitedOf(q, User) = Open /\ AwaitedOf(r, User) = Open'
  BY DEF AwaitedOf, Open
<1>6. IsFiniteSet(AwaitedOf(q, User))
  BY <1>5 DEF Enough
<1>7. \A w \in CreateRecord : [w EXCEPT !.attached = FALSE].attached = FALSE
  BY DEF CreateRecord
<1>8. IsFiniteSet(Open') /\ Cardinality(Open') <= Cardinality(Open)
  <2> HIDE DEF q, r
  <2>1. /\ IsFiniteSet(AwaitedOf(r, User))
        /\ Cardinality(AwaitedOf(r, User)) <= Cardinality(AwaitedOf(q, User))
    BY <1>3, <1>6, <1>7, AwaitedRestart DEF Creates
  <2> QED
    BY <1>5, <2>1
<1>9. IsFiniteSet(lookups') /\ Cardinality(lookups') <= Cardinality(lookups)
  BY <1>2, FS_Subset DEF Enough
<1>10. Worth' >= b + 0
  <2>1. /\ Cardinality(lookups) \in Nat /\ Cardinality(Open) \in Nat
        /\ Cardinality(lookups') \in Nat /\ Cardinality(Open') \in Nat
    BY <1>8, <1>9, FS_CardinalityType DEF Enough
  <2>2. UNCHANGED clicks
    BY DEF Restart
  <2> QED
    BY <1>8, <1>9, <2>1, <2>2, WorthStays
<1>11. Within(b)'
  BY <1>1, <1>2, <1>4 DEF Within, Enough, Restart, docVars
<1> QED
  BY <1>8, <1>9, <1>10, <1>11, EnoughAfter

\* Steps that are not about clicks, lookups and writes of counts.
LEMMA WorthSame ==
  ASSUME TypeOK', NEW b \in Int, b >= 0, Enough(b), UNCHANGED <<clicks, lookups, creates>>, Within(b)'
  PROVE  WorthInv'
<1>1. Open' = Open
  BY DEF Open
<1>2. Worth' = Worth
  BY <1>1 DEF Worth
<1> QED
  BY <1>1, <1>2, EnoughAfter DEF Enough

\* A click is worth one at once: the number it computes is one up, and its
\* completion is still to come.
LEMMA WorthClick ==
  ASSUME TypeOK, TypeOK', NEW b \in Int, b >= 0, Enough(b), NEW d \in Device, Click(d)
  PROVE  WorthInv'
<1> DEFINE q == [id |-> clicks, dev |-> d, email |-> info[d].email, val |-> info[d].field + 1]
<1>1. /\ lookups' = lookups \cup {q} /\ clicks' = clicks + 1 /\ creates' = creates
      /\ UNCHANGED sessionVars /\ UNCHANGED docVars
  BY DEF Click
<1>2. q.val = info[d].field + 1 /\ info[d].field \in Int /\ info[d].field <= b
  BY DEF TypeOK, SessionTypeOK, Enough, Within, FieldsWithin
<1> HIDE DEF q
<1>3. IsFiniteSet(lookups') /\ Cardinality(lookups') <= Cardinality(lookups) + 1
  BY <1>1, OneMore DEF Enough
<1>4. Open' = Open
  BY <1>1 DEF Open
<1>5. Within(b + 1)'
  <2>1. Within(b + 1)
    BY WithinGrows DEF Enough
  <2>2. FieldsWithin(b + 1)'
    BY <1>1, <2>1 DEF Within, FieldsWithin, sessionVars
  <2>3. \A x \in lookups' : x.val <= b + 1
    BY <1>1, <1>2, <2>1 DEF Within
  <2> QED
    BY <1>1, <2>1, <2>2, <2>3 DEF Within, docVars
<1>6. Worth' >= b + 1
  <2> DEFINE l == Cardinality(lookups)
             o == Cardinality(Open)
             k == Cardinality(lookups')
  <2>1. /\ clicks \in Nat /\ l \in Nat /\ o \in Nat /\ k \in Nat /\ k <= l + 1
        /\ Worth >= b
    BY <1>3, WorthType, FS_CardinalityType DEF Enough
  <2>2. Worth = 2 * clicks - l - o /\ Worth' = 2 * (clicks + 1) - k - o
    BY <1>1, <1>4 DEF Worth
  <2> HIDE DEF l, o, k
  <2> QED
    BY <2>1, <2>2
<1> QED
  BY <1>3, <1>4, <1>5, <1>6, EnoughAfter DEF Enough

\* The lookup's callback queues the number with a completion still to come.
LEMMA WorthLookup ==
  ASSUME TypeOK, TypeOK', NEW b \in Int, b >= 0, Enough(b), NEW q \in lookups,
         LookupArrives(q) \/ LookupFails(q)
  PROVE  WorthInv'
<1>1. /\ lookups' = lookups \ {q} /\ clicks' = clicks
      /\ UNCHANGED sessionVars /\ UNCHANGED docVars
  BY DEF LookupArrives, LookupFails
<1>2. /\ IsFiniteSet(lookups') /\ Cardinality(lookups') = Cardinality(lookups) - 1
      /\ Cardinality(lookups) \in Nat /\ Cardinality(Open) \in Nat
  <2>1. IsFiniteSet(lookups') /\ Cardinality(lookups') = Cardinality(lookups) - 1
    BY <1>1, FS_RemoveElement DEF Enough
  <2> QED
    BY <2>1, FS_CardinalityType DEF Enough
<1>3. FieldsWithin(b)' /\ q.val <= b
  BY <1>1 DEF Enough, Within, FieldsWithin, sessionVars
<1>4. CASE creates' = creates
  <2>1. Open' = Open
    BY <1>4 DEF Open
  <2>2. Within(b)'
    BY <1>1, <1>3, <1>4 DEF Enough, Within, docVars
  <2>3. Worth' >= b + 0
    <3>1. /\ IsFiniteSet(Open') /\ clicks' = clicks
          /\ Cardinality(lookups') + Cardinality(Open') + 0 <= Cardinality(lookups) + Cardinality(Open)
      <4> DEFINE k == Cardinality(lookups')
                 l == Cardinality(lookups)
                 o == Cardinality(Open)
      <4>1. k = l - 1 /\ l \in Nat /\ o \in Nat
        BY <1>2
      <4> HIDE DEF k, l, o
      <4>2. k + o + 0 <= l + o
        BY <4>1
      <4> QED
        BY <1>1, <2>1, <4>2 DEF Enough, k, l, o
    <3> QED
      BY <1>2, <3>1, WorthStays
  <2> QED
    BY <1>2, <2>1, <2>2, <2>3, EnoughAfter DEF Enough
<1>5. CASE creates' # creates
  <2> DEFINE d == q.dev
             c == auth[q.dev]
             u == q.email
             w == [val |-> q.val, attached |-> TRUE]
             s == creates[d][c][u]
             r == creates'
  <2>1. /\ u # Nobody /\ r = [creates EXCEPT ![d][c][u] = Append(s, w)]
    BY <1>5 DEF LookupArrives, LookupFails
  <2>2. d \in Device /\ c \in Account /\ u \in User /\ q.val \in Int
    BY <2>1 DEF TypeOK, SessionTypeOK, LookupRecord, Email, Account
  <2>3. w \in CreateRecord /\ w.val <= b /\ w.attached
    BY <1>3, <2>2 DEF CreateRecord
  <2>4. creates \in Queues(User, CreateRecord) /\ s \in Seq(CreateRecord)
    BY <2>2 DEF TypeOK, Queues
  <2> HIDE DEF d, c, u, w, r
  <2>5. Append(s, w) \in Seq(CreateRecord)
    BY <2>3, <2>4
  <2>6. r[d][c][u] = Append(s, w) /\ OthersStay(creates, r, User, d, c, u)
    <3> HIDE DEF s
    <3> QED
      BY <2>1, <2>2, <2>4, <2>5 DEF Queues, OthersStay
  <2>7. ASSUME NEW e \in Device, NEW a \in Account, NEW v \in User, NEW i \in DOMAIN r[e][a][v]
        PROVE  r[e][a][v][i].val <= b
    <3>1. CASE e = d /\ a = c /\ v = u
      <4>1. (i \in DOMAIN s /\ Append(s, w)[i] = s[i]) \/ Append(s, w)[i] = w
        <5> HIDE DEF s
        <5>1. i \in DOMAIN Append(s, w)
          BY <2>6, <3>1
        <5> QED
          BY <2>3, <2>4, <5>1, Enqueue
      <4> QED
        BY <2>2, <2>3, <2>6, <3>1, <4>1 DEF Enough, Within
    <3>2. CASE ~(e = d /\ a = c /\ v = u)
      BY <2>6, <3>2 DEF Enough, Within, OthersStay
    <3> QED
      BY <3>1, <3>2
  <2>8. AwaitedOf(creates, User) = Open /\ AwaitedOf(r, User) = Open'
    BY DEF AwaitedOf, Open, r
  <2>9. IsFiniteSet(Open') /\ Cardinality(Open') <= Cardinality(Open) + 1
    <3>1. IsFiniteSet(AwaitedOf(creates, User))
      BY <2>8 DEF Enough
    <3>2. /\ IsFiniteSet(AwaitedOf(r, User))
          /\ Cardinality(AwaitedOf(r, User)) <= Cardinality(AwaitedOf(creates, User)) + 1
      BY <2>2, <2>4, <2>6, <3>1, AwaitedAppend
    <3> QED
      BY <2>8, <3>2
  <2>10. Within(b)'
    BY <1>1, <1>3, <2>7 DEF Enough, Within, docVars, r
  <2>11. Worth' >= b + 0
    <3>1. /\ clicks' = clicks
          /\ Cardinality(lookups') + Cardinality(Open') + 0 <= Cardinality(lookups) + Cardinality(Open)
      <4> DEFINE k == Cardinality(lookups')
                 l == Cardinality(lookups)
                 o == Cardinality(Open)
                 m == Cardinality(Open')
      <4>1. k = l - 1 /\ l \in Nat /\ o \in Nat /\ m \in Nat /\ m <= o + 1
        BY <1>2, <2>9, FS_CardinalityType
      <4> HIDE DEF k, l, o, m
      <4>2. k + m + 0 <= l + o
        BY <4>1
      <4> QED
        BY <1>1, <4>2 DEF k, l, o, m
    <3> QED
      BY <1>2, <2>9, <3>1, WorthStays
  <2> QED
    BY <1>2, <2>9, <2>10, <2>11, EnoughAfter DEF Enough
<1> QED
  BY <1>4, <1>5

\* A write that leaves its queue: what its completion adds was accounted for.
LEMMA WorthWrite ==
  ASSUME TypeOK, TypeOK', NEW b \in Int, b >= 0, Enough(b), NEW d \in Device, NEW u \in User,
         CommitCreate(d, u) \/ RejectCreate(d, u)
  PROVE  WorthInv'
<1> DEFINE s == creates[d][auth[d]][u]
<1>1. /\ s # <<>> /\ lookups' = lookups /\ clicks' = clicks
      /\ userPlaylists' = userPlaylists
  BY DEF CommitCreate, RejectCreate, docVars
<1>2. Head(s).val <= b
  <2>1. auth[d] \in Account /\ Head(s) = s[1] /\ 1 \in DOMAIN s
    BY <1>1, HeadOfCreates
  <2> QED
    BY <2>1 DEF Enough, Within
<1>3. \A v \in User : totalPlaylistsCreated'[v] # NotSet => totalPlaylistsCreated'[v] <= b
  <2>1. \/ totalPlaylistsCreated' = totalPlaylistsCreated
        \/ totalPlaylistsCreated' = [totalPlaylistsCreated EXCEPT ![u] = Head(s).val]
    BY DEF CommitCreate, RejectCreate, docVars
  <2> QED
    BY <1>2, <2>1 DEF TypeOK, Enough, Within
<1>4. CASE creates' = creates /\ UNCHANGED sessionVars
  <2>1. FieldsWithin(b)'
    BY <1>4 DEF Enough, Within, FieldsWithin, sessionVars
  <2>2. Within(b)'
    BY <1>1, <1>3, <1>4, <2>1 DEF Enough, Within
  <2> QED
    BY <1>1, <1>4, <2>2, WorthSame
<1>5. CASE /\ creates' = [creates EXCEPT ![d][auth[d]][u] = Tail(@)]
           /\ (Head(s).attached /\ Completion(d)) \/ UNCHANGED sessionVars
  <2>1. creates'[d][auth[d]][u] = Tail(s) /\ OthersStay(creates, creates', User, d, auth[d], u)
    BY <1>1, <1>5, HeadOut
  <2>2. /\ \A e \in Device, a \in Account, v \in User :
              \A i \in DOMAIN creates'[e][a][v] : creates'[e][a][v][i].val <= b
        /\ IsFiniteSet(Open') /\ Cardinality(Open') <= Cardinality(Open)
        /\ Head(s).attached => Cardinality(Open') + 1 <= Cardinality(Open)
    BY <1>1, <2>1, CreatesTail
  <2>3. /\ Cardinality(lookups) \in Nat /\ Cardinality(Open) \in Nat
        /\ Cardinality(Open') \in Nat
        /\ IsFiniteSet(lookups') /\ Cardinality(lookups') = Cardinality(lookups)
    BY <1>1, <2>2, FS_CardinalityType DEF Enough
  <2>4. CASE FieldsWithin(b)'
    <3>1. Within(b)'
      BY <1>1, <1>3, <2>2, <2>4 DEF Enough, Within
    <3>2. Worth' >= b + 0
      BY <1>1, <2>2, <2>3, WorthStays
    <3> QED
      BY <2>2, <2>3, <3>1, <3>2, EnoughAfter
  <2>5. CASE Head(s).attached /\ FieldsWithin(b + 1)'
    <3>1. \A x \in lookups' : x.val <= b + 1
      <4>1. \A x \in lookups' : x.val \in Int /\ x.val <= b
        BY <1>1 DEF TypeOK, LookupRecord, Enough, Within
      <4> QED
        BY <4>1
    <3>2. ASSUME NEW e \in Device, NEW a \in Account, NEW v \in User, NEW i \in DOMAIN creates'[e][a][v]
          PROVE  creates'[e][a][v][i].val <= b + 1
      <4>1. creates'[e][a][v] \in Seq(CreateRecord)
        BY DEF TypeOK
      <4>2. creates'[e][a][v][i] \in CreateRecord
        BY <4>1, ElementOf
      <4>3. creates'[e][a][v][i].val \in Int /\ creates'[e][a][v][i].val <= b
        BY <2>2, <4>2 DEF CreateRecord
      <4> QED
        BY <4>3
    <3>3. \A v \in User : totalPlaylistsCreated'[v] # NotSet => totalPlaylistsCreated'[v] <= b + 1
      <4>1. \A v \in User : totalPlaylistsCreated'[v] # NotSet =>
              totalPlaylistsCreated'[v] \in Int /\ totalPlaylistsCreated'[v] <= b
        BY <1>3 DEF TypeOK
      <4> QED
        BY <4>1
    <3>4. Within(b + 1)'
      BY <2>5, <3>1, <3>2, <3>3 DEF Within
    <3>5. Worth' >= b + 1
      BY <1>1, <2>2, <2>3, <2>5, WorthStays
    <3> QED
      BY <2>2, <2>3, <3>4, <3>5, EnoughAfter
  <2>6. FieldsWithin(b)' \/ (Head(s).attached /\ FieldsWithin(b + 1)')
    <3>1. CASE UNCHANGED sessionVars
      BY <3>1 DEF Enough, Within, FieldsWithin, sessionVars
    <3>2. CASE Head(s).attached /\ auth[d] # Nobody /\ GetUserInfo(d, auth[d], loads) /\ UNCHANGED auth
      <4>1. MapAppears(d)
        BY <3>2 DEF MapAppears
      <4> QED
        BY <4>1, CreatedAssumption, FieldsUserStep DEF TypeOK, Enough, Within
    <3>3. CASE /\ Head(s).attached /\ info' = [info EXCEPT ![d].field = @ + 1]
               /\ UNCHANGED <<auth, loads, appeared>>
      BY <3>3, CreatedAssumption, FieldsBump DEF TypeOK, Enough, Within
    <3> QED
      BY <1>5, <3>1, <3>2, <3>3 DEF Completion
  <2> QED
    BY <2>4, <2>5, <2>6
<1> QED
  BY <1>1, <1>4, <1>5 DEF CommitCreate, RejectCreate

LEMMA WorthNext == TypeOK /\ TypeOK' /\ WorthInv /\ [Next]_vars => WorthInv'
<1> SUFFICES ASSUME TypeOK, TypeOK', WorthInv, [Next]_vars PROVE WorthInv'
  OBVIOUS
<1>1. PICK b \in 0..(2 * clicks) : Enough(b)
  BY DEF WorthInv
<1>2. b \in Int /\ b >= 0 /\ Initial <= b /\ SessionTypeOK(Int) /\ FieldsWithin(b)
  BY <1>1, CreatedAssumption DEF TypeOK, Enough, Within
<1>3. ASSUME NEW d \in Device, ComeAndGo(d) PROVE WorthInv'
  <2>1. FieldsWithin(b)'
    BY <1>2, <1>3, FieldsUserStep DEF ComeAndGo
  <2>2. Within(b)' /\ UNCHANGED <<clicks, lookups, creates>>
    BY <1>1, <1>3, <2>1 DEF ComeAndGo, Enough, Within, docVars
  <2> QED
    BY <1>1, <1>2, <2>2, WorthSame
<1>4. ASSUME NEW d \in Device, Restart(d) PROVE WorthInv'
  BY <1>1, <1>2, <1>4, WorthRestart
<1>5. ASSUME NEW d \in Device, Click(d) PROVE WorthInv'
  BY <1>1, <1>2, <1>5, WorthClick
<1>6. ASSUME NEW d \in Device, CommitAdd(d) \/ RejectAdd(d) PROVE WorthInv'
  <2>1. UNCHANGED <<sessionVars, totalPlaylistsCreated, clicks, lookups, creates>>
    BY <1>6 DEF CommitAdd, RejectAdd, docVars
  <2>2. Within(b)'
    BY <1>1, <2>1 DEF Enough, Within, FieldsWithin, sessionVars
  <2> QED
    BY <1>1, <1>2, <2>1, <2>2, WorthSame
<1>7. ASSUME NEW l \in loads, Load(l) PROVE WorthInv'
  <2>1. l.dev \in Device /\ l.email \in User
    BY <1>2 DEF SessionTypeOK, LoadRecord
  <2>2. SeenCount(l.dev, l.email) # NotSet => SeenCount(l.dev, l.email) <= b
    BY <1>1, <1>2, <2>1, SeenWithin DEF Enough
  <2>3. FieldsWithin(b)'
    BY <1>2, <1>7, <2>2, FieldsLoadStep DEF Load
  <2>4. Within(b)' /\ UNCHANGED <<clicks, lookups, creates>>
    BY <1>1, <1>7, <2>3 DEF Load, Enough, Within, docVars
  <2> QED
    BY <1>1, <1>2, <2>4, WorthSame
<1>8. ASSUME NEW q \in lookups, LookupArrives(q) \/ LookupFails(q) PROVE WorthInv'
  BY <1>1, <1>2, <1>8, WorthLookup
<1>9. ASSUME NEW d \in Device, NEW u \in User, CommitCreate(d, u) \/ RejectCreate(d, u) PROVE WorthInv'
  BY <1>1, <1>2, <1>9, WorthWrite
<1>10. CASE UNCHANGED vars
  <2>1. Within(b)' /\ UNCHANGED <<clicks, lookups, creates>>
    BY <1>1, <1>10 DEF vars, Enough, Within, FieldsWithin, sessionVars, docVars
  <2> QED
    BY <1>1, <1>2, <2>1, WorthSame
<1> QED
  BY <1>3, <1>4, <1>5, <1>6, <1>7, <1>8, <1>9, <1>10 DEF Next

\* No count of playlists, stored for a user or shown by a phone, gets ahead of
\* twice the clicks of the add button (addPlaylistVC.swift): whatever reloads,
\* resends, rejections, late callbacks and restarts come in between, a click
\* raises a number when it is computed and when its completion bumps the
\* singleton, and no more.
THEOREM CountsAreBounded == Spec => []CreatedBounded
<1>1. Init => TypeOK /\ WorthInv
  BY TypeOKInit, WorthInit
<1>2. TypeOK /\ WorthInv /\ [Next]_vars => (TypeOK /\ WorthInv)'
  BY TypeOKNext, WorthNext
<1>3. TypeOK /\ WorthInv => CreatedBounded
  <2> SUFFICES ASSUME TypeOK, WorthInv PROVE CreatedBounded
    OBVIOUS
  <2>1. PICK b \in 0..(2 * clicks) : Enough(b)
    BY DEF WorthInv
  <2>2. clicks \in Nat /\ b \in Int /\ b <= 2 * clicks
    BY <2>1, CreatedAssumption DEF TypeOK
  <2>3. \A u \in User : totalPlaylistsCreated[u] # NotSet =>
          totalPlaylistsCreated[u] \in Int /\ totalPlaylistsCreated[u] <= b
    BY <2>1 DEF TypeOK, Enough, Within
  <2>4. \A d \in Device : info[d].field \in Int /\ info[d].field <= b
    BY <2>1 DEF TypeOK, SessionTypeOK, Enough, Within, FieldsWithin
  <2> DEFINE m == 2 * clicks
  <2>5. m \in Int /\ b <= m
    BY <2>2
  <2> HIDE DEF m
  <2>6. /\ \A u \in User : totalPlaylistsCreated[u] # NotSet => totalPlaylistsCreated[u] <= m
        /\ \A d \in Device : info[d].field <= m
    BY <2>2, <2>3, <2>4, <2>5
  <2> QED
    BY <2>6 DEF CreatedBounded, m
<1> QED
  BY <1>1, <1>2, <1>3, PTL DEF Spec

-----------------------------------------------------------------------------
(* Patient histories: types *)

\* A step of a patient history is a step of PlaylistsCreated.
LEMMA PatientStepIsNext == PatientStep => Next
BY DEF PatientStep, Next

LEMMA StepIsNext == Step => Next /\ patient' = patient
BY PatientStepIsNext DEF Step

LEMMA HistoryTypes == Histories => []TypeOK
<1>1. EitherInit => TypeOK
  BY TypeOKInit DEF EitherInit
<1>2. TypeOK /\ [Step]_<<vars, patient>> => TypeOK'
  BY StepIsNext, TypeOKNext DEF vars
<1> QED
  BY <1>1, <1>2, PTL DEF Histories

-----------------------------------------------------------------------------
(* Patient histories: one request at a time *)

\* The document that click n is to store.
DocOf(n) == [id |-> n - 1, email |-> clicker[n]]

\* Every document, stored or queued.
Documents == userPlaylists \cup UNION {Range(adds[d][a]) : d \in Device, a \in Account}

\* Every document is of a click and names who clicked, and every click has its
\* document.
DocsInv == Documents = {DocOf(n) : n \in 1..clicks}

\* The number each user ought to have: that of their clicks.
due == [a \in Account |-> Cardinality({n \in 1..clicks : clicker[n] = a})]

OwnPhone == \A d \in Device : auth[d] # Nobody => PhoneOf[auth[d]] = d

\* Phone d shows what its user has added.
Ready(d) == auth[d] # Nobody => info[d] = [email |-> auth[d], field |-> due[auth[d]]]

Right(u) == Stored(totalPlaylistsCreated[u]) = due[u]

NoCreates == \A d \in Device, a \in Account, u \in User : creates[d][a][u] = <<>>

\* Nothing is under way but, perhaps, documents of clicks.
AtRest ==
  /\ loads = {} /\ lookups = {} /\ NoCreates
  /\ \A d \in Device : Ready(d)
  /\ \A u \in User : Right(u)

\* Phone d is loading its user's number.
Loading(d) ==
  /\ \E l \in loads :
       /\ loads = {l} /\ l.dev = d /\ l.email = auth[d]
       /\ l.answered => l.field = totalPlaylistsCreated[l.email]
  /\ info[d] = ClearedInfo
  /\ lookups = {} /\ NoCreates
  /\ \A e \in Device \ {d} : Ready(e)
  /\ \A u \in User : Right(u)

\* The last click of phone d has not been counted yet.
Behind(d) ==
  /\ loads = {} /\ auth[d] # Nobody
  /\ info[d] = [email |-> auth[d], field |-> due[auth[d]] - 1]
  /\ \A e \in Device \ {d} : Ready(e)
  /\ \A u \in User \ {auth[d]} : Right(u)

Looking(d) ==
  /\ Behind(d)
  /\ \E q \in lookups :
       lookups = {q} /\ q.dev = d /\ q.email = auth[d] /\ q.val = due[auth[d]]
  /\ NoCreates

Writing(d) ==
  /\ Behind(d)
  /\ lookups = {}
  /\ \A e \in Device, a \in Account, u \in User :
       creates[e][a][u] = IF e = d /\ a = auth[d] /\ u = auth[d]
                            THEN <<[val |-> due[auth[d]], attached |-> TRUE]>> ELSE <<>>

InPhase == AtRest \/ \E d \in Device : Loading(d) \/ Looking(d) \/ Writing(d)

\* What makes the properties of patient histories inductive: a click's count
\* passes through one request at a time, and nobody else's meanwhile.
PatientInv == DocsInv /\ OwnPhone /\ InPhase

LEMMA DocumentsHave ==
  /\ \A x : x \in Documents <=>
       x \in userPlaylists \/ \E d \in Device, a \in Account : x \in Range(adds[d][a])
  /\ \A x : x \in Documents' <=>
       x \in userPlaylists' \/ \E d \in Device, a \in Account : x \in Range(adds'[d][a])
BY DEF Documents

LEMMA SameDocs ==
  DocsInv /\ UNCHANGED <<userPlaylists, adds, clicks, clicker>> => DocsInv'
BY DEF DocsInv, Documents, DocOf

LEMMA SameDue == UNCHANGED <<clicks, clicker>> => due' = due
BY DEF due

LEMMA SameNoCreates == NoCreates /\ creates' = creates => NoCreates'
BY DEF NoCreates

LEMMA DueType ==
  ASSUME TypeOK
  PROVE  due \in [Account -> Nat]
<1>1. IsFiniteSet(1..clicks)
  BY CreatedAssumption, FS_Interval DEF TypeOK
<1>2. ASSUME NEW a \in Account PROVE Cardinality({n \in 1..clicks : clicker[n] = a}) \in Nat
  <2>1. {n \in 1..clicks : clicker[n] = a} \in SUBSET (1..clicks)
    OBVIOUS
  <2>2. IsFiniteSet({n \in 1..clicks : clicker[n] = a})
    BY <1>1, <2>1, FS_Subset
  <2> QED
    BY <2>2, FS_CardinalityType
<1> QED
  BY <1>2 DEF due

\* When all is quiet no request is on its way, nor a document.
LEMMA QuietAtRest ==
  ASSUME TypeOK, InPhase, AllQuiet
  PROVE  AtRest
<1>1. ASSUME NEW d \in Device, Loading(d) \/ Looking(d) PROVE FALSE
  BY <1>1 DEF Loading, Looking, AllQuiet
<1>2. ASSUME NEW d \in Device, Writing(d) PROVE FALSE
  <2>1. auth[d] \in User /\ auth[d] \in Account
    BY <1>2 DEF Writing, Behind, TypeOK, SessionTypeOK, Account
  <2>2. creates[d][auth[d]][auth[d]] = <<[val |-> due[auth[d]], attached |-> TRUE]>>
    BY <1>2, <2>1 DEF Writing
  <2>3. creates[d][auth[d]][auth[d]] = <<>>
    BY <2>1 DEF AllQuiet
  <2>4. \A w : <<w>> # <<>>
    OBVIOUS
  <2> QED
    BY <2>2, <2>3, <2>4, Zenon
<1> QED
  BY <1>1, <1>2 DEF InPhase

LEMMA PatientInit == Init => PatientInv
<1> SUFFICES ASSUME Init PROVE PatientInv
  OBVIOUS
<1>1. DocsInv /\ OwnPhone /\ NoCreates /\ \A d \in Device : Ready(d)
  <2>1. DOMAIN <<>> = {}
    OBVIOUS
  <2>2. 1..clicks = {} /\ \A d \in Device, a \in Account : adds[d][a] = <<>>
    BY DEF Init
  <2>3. \A d \in Device, a \in Account : Range(adds[d][a]) = {}
    BY <2>1, <2>2 DEF Range
  <2>4. Documents = {}
    BY <2>3 DEF Init, Documents
  <2>5. DocsInv
    BY <2>2, <2>4 DEF DocsInv
  <2> QED
    BY <2>5 DEF Init, SessionInit, OwnPhone, NoCreates, Ready
<1>2. \A u \in User : Right(u)
  <2>1. \A a \in Account : {n \in 1..clicks : clicker[n] = a} = {}
    BY DEF Init
  <2>2. \A a \in Account : due[a] = 0
    BY <2>1, FS_EmptySet DEF due
  <2> QED
    BY <2>2 DEF Init, Right, Stored, Account
<1> QED
  BY <1>1, <1>2 DEF PatientInv, InPhase, AtRest, Init, SessionInit

-----------------------------------------------------------------------------
(* Patient histories: steps *)

LEMMA PatientComes ==
  ASSUME TypeOK, AtRest, OwnPhone, NEW d \in Device, ComeAndGo(d),
         \A u \in User : auth'[d] = u => PhoneOf[u] = d
  PROVE  OwnPhone' /\ InPhase'
<1>0. /\ UNCHANGED <<totalPlaylistsCreated, lookups, creates, clicks, clicker>>
      /\ due' = due
  BY SameDue DEF ComeAndGo, docVars
<1>1. /\ auth \in [Device -> Account] /\ info \in [Device -> [email : Email, field : Int]]
      /\ loads = {}
  BY DEF TypeOK, SessionTypeOK, AtRest
<1>2. ASSUME NEW u \in User, auth' = [auth EXCEPT ![d] = u], GetUserInfo(d, u, loads)
      PROVE  OwnPhone' /\ Loading(d)'
  <2>1. \A e \in Device : auth'[e] = IF e = d THEN u ELSE auth[e]
    BY <1>1, <1>2
  <2>2. OwnPhone'
    BY <2>1 DEF OwnPhone
  <2>3. \A e \in Device : info'[e] = IF e = d THEN ClearedInfo ELSE info[e]
    BY <1>1, <1>2 DEF GetUserInfo
  <2> DEFINE l == [n |-> appeared, dev |-> d, email |-> u, answered |-> FALSE, field |-> NotSet]
  <2>4. loads' = {l} /\ l.dev = d /\ l.email = u /\ ~l.answered
    BY <1>1, <1>2 DEF GetUserInfo
  <2> HIDE DEF l
  <2>5. \E k \in loads' : loads' = {k} /\ k.dev = d /\ k.email = auth'[d] /\ ~k.answered
    BY <2>1, <2>4
  <2>6. NoCreates' /\ lookups' = {}
    BY <1>0, SameNoCreates DEF AtRest
  <2>7. \A e \in Device \ {d} : Ready(e)'
    BY <1>0, <2>1, <2>3 DEF AtRest, Ready
  <2>8. \A v \in User : Right(v)'
    BY <1>0 DEF AtRest, Right, Stored
  <2> QED
    BY <2>2, <2>3, <2>5, <2>6, <2>7, <2>8 DEF Loading, ClearedInfo
<1>3. CASE \E u \in User : SignIn(d, u)
  BY <1>2, <1>3 DEF SignIn, InPhase
<1>4. CASE MapAppears(d)
  <2>1. auth[d] \in User /\ auth' = [auth EXCEPT ![d] = auth[d]]
    BY <1>1, <1>4 DEF MapAppears, Account
  <2> QED
    BY <1>2, <1>4, <2>1 DEF MapAppears, InPhase
<1>5. CASE SignOut(d)
  <2>1. /\ UNCHANGED <<info, loads>>
        /\ \A e \in Device : auth'[e] = IF e = d THEN Nobody ELSE auth[e]
    BY <1>1, <1>5 DEF SignOut
  <2>2. OwnPhone'
    BY <2>1 DEF OwnPhone
  <2>3. NoCreates'
    BY <1>0, SameNoCreates DEF AtRest
  <2>4. AtRest'
    BY <1>0, <2>1, <2>3 DEF AtRest, Ready, Right, Stored
  <2> QED
    BY <2>2, <2>4 DEF InPhase
<1> QED
  BY <1>3, <1>4, <1>5 DEF ComeAndGo

\* A click adds one to the number of whoever clicks.
LEMMA DueAfterClick ==
  ASSUME TypeOK, NEW d \in Device, Click(d)
  PROVE  /\ auth[d] \in User
         /\ \A a \in Account : due'[a] = IF a = auth[d] THEN due[a] + 1 ELSE due[a]
         /\ \A n \in 1..clicks : DocOf(n)' = DocOf(n)
         /\ \A n : n = clicks + 1 => DocOf(n)' = [id |-> clicks, email |-> auth[d]]
<1>1. /\ clicks \in Nat /\ clicker \in Seq(User) /\ Len(clicker) = clicks
      /\ auth[d] \in User
  BY CreatedAssumption DEF TypeOK, SessionTypeOK, Account, Click
<1>2. clicks' = clicks + 1 /\ clicker' = Append(clicker, auth[d])
  BY DEF Click
<1>3. /\ \A n \in 1..clicks : clicker'[n] = clicker[n]
      /\ clicker'[clicks + 1] = auth[d]
  BY <1>1, <1>2
<1>4. ASSUME NEW a \in Account
      PROVE  due'[a] = IF a = auth[d] THEN due[a] + 1 ELSE due[a]
  <2> DEFINE S == {n \in 1..clicks : clicker[n] = a}
             T == {n \in 1..(clicks + 1) : clicker'[n] = a}
  <2>1. due[a] = Cardinality(S) /\ due'[a] = Cardinality(T)
    BY <1>2 DEF due
  <2>2. T = IF a = auth[d] THEN S \cup {clicks + 1} ELSE S
    BY <1>1, <1>3
  <2>3. IsFiniteSet(S) /\ clicks + 1 \notin S
    <3>1. S \in SUBSET (1..clicks) /\ IsFiniteSet(1..clicks)
      BY <1>1, FS_Interval
    <3> QED
      BY <1>1, <3>1, FS_Subset
  <2> HIDE DEF S, T
  <2> QED
    BY <2>1, <2>2, <2>3, FS_AddElement
<1>5. \A n : n = clicks + 1 => n - 1 = clicks /\ clicker'[n] = auth[d]
  BY <1>1, <1>3
<1>6. \A n : n = clicks + 1 => DocOf(n)' = [id |-> clicks, email |-> auth[d]]
  BY <1>5 DEF DocOf
<1>7. \A n \in 1..clicks : DocOf(n)' = DocOf(n)
  BY <1>3 DEF DocOf
<1> QED
  BY <1>1, <1>4, <1>6, <1>7

LEMMA PatientClick ==
  ASSUME TypeOK, TypeOK', DocsInv, AtRest, OwnPhone, NEW d \in Device, Click(d)
  PROVE  PatientInv'
<1> DEFINE u == auth[d]
<1>1. /\ u \in User /\ u \in Account
      /\ \A a \in Account : due'[a] = IF a = u THEN due[a] + 1 ELSE due[a]
      /\ \A n \in 1..clicks : DocOf(n)' = DocOf(n)
      /\ \A n : n = clicks + 1 => DocOf(n)' = [id |-> clicks, email |-> u]
  BY DueAfterClick DEF Account
<1>2. /\ UNCHANGED <<auth, info, loads, userPlaylists, totalPlaylistsCreated, creates>>
      /\ clicks' = clicks + 1 /\ clicks \in Nat
  BY CreatedAssumption DEF Click, sessionVars, docVars, TypeOK
<1>3. info[d] = [email |-> u, field |-> due[u]] /\ u # Nobody
  BY DEF AtRest, Ready, Click
<1>4. Behind(d)'
  <2>1. due[u] \in Nat
    BY <1>1, DueType
  <2>2. info'[d] = [email |-> auth'[d], field |-> due'[auth'[d]] - 1]
    BY <1>1, <1>2, <1>3, <2>1
  <2>3. ASSUME NEW e \in Device \ {d} PROVE Ready(e)'
    <3>1. auth[e] # Nobody => auth[e] \in Account /\ auth[e] # u
      BY <1>3 DEF OwnPhone, TypeOK, SessionTypeOK
    <3> QED
      BY <1>1, <1>2, <3>1 DEF AtRest, Ready
  <2>4. \A v \in User \ {auth'[d]} : Right(v)'
    BY <1>1, <1>2 DEF AtRest, Right, Stored, Account
  <2> QED
    BY <1>2, <1>3, <2>2, <2>3, <2>4 DEF AtRest, Behind
<1>5. Looking(d)'
  <2> DEFINE q == [id |-> clicks, dev |-> d, email |-> u, val |-> due[u] + 1]
  <2>1. lookups' = {q}
    BY <1>3 DEF Click, AtRest
  <2>2. q.dev = d /\ q.email = u /\ q.val = due[u] + 1
    OBVIOUS
  <2> HIDE DEF q
  <2>3. \E p \in lookups' : lookups' = {p} /\ p.dev = d /\ p.email = auth'[d] /\ p.val = due'[auth'[d]]
    BY <1>1, <1>2, <2>1, <2>2
  <2>4. NoCreates'
    BY <1>2, SameNoCreates DEF AtRest
  <2> QED
    BY <1>4, <2>3, <2>4 DEF Looking
<1>6. OwnPhone'
  BY <1>2 DEF OwnPhone
<1>7. DocsInv'
  <2> DEFINE x == [id |-> clicks, email |-> u]
  <2>1. /\ adds' = [adds EXCEPT ![d][u] = Append(@, x)]
        /\ x \in AddRecord
    BY <1>1, <1>2, <1>3 DEF Click, AddRecord, Email
  <2>2. adds \in [Device -> [Account -> Seq(AddRecord)]]
    BY DEF TypeOK
  <2>3. {DocOf(n)' : n \in 1..(clicks + 1)} = {DocOf(n) : n \in 1..clicks} \cup {x}
    <3>1. 1..(clicks + 1) = 1..clicks \cup {clicks + 1}
      BY <1>2
    <3> QED
      BY <1>1, <3>1
  <2> HIDE DEF x
  <2>4. \A e \in Device, a \in Account :
          adds'[e][a] = IF e = d /\ a = u THEN Append(adds[d][u], x) ELSE adds[e][a]
    BY <1>1, <2>1, <2>2
  <2>5. Range(Append(adds[d][u], x)) = Range(adds[d][u]) \cup {x}
    BY <1>1, <2>1, <2>2, Enqueue
  <2>6. \A e \in Device, a \in Account :
          Range(adds'[e][a]) = IF e = d /\ a = u THEN Range(adds[e][a]) \cup {x}
                               ELSE Range(adds[e][a])
    BY <2>4, <2>5
  <2>7. ASSUME NEW y PROVE y \in Documents' <=> y \in Documents \/ y = x
    <3> DEFINE queued(e, a) == y \in Range(adds[e][a])
               queuedThen(e, a) == y \in Range(adds'[e][a])
    <3>1. \A e \in Device, a \in Account :
            queuedThen(e, a) <=> queued(e, a) \/ (e = d /\ a = u /\ y = x)
      BY <2>6
    <3>2. /\ y \in Documents <=> y \in userPlaylists \/ \E e \in Device, a \in Account : queued(e, a)
          /\ y \in Documents' <=> y \in userPlaylists' \/ \E e \in Device, a \in Account : queuedThen(e, a)
      BY DocumentsHave
    <3> HIDE DEF queued, queuedThen, u
    <3> QED
      BY <1>1, <1>2, <3>1, <3>2
  <2>8. Documents' = Documents \cup {x}
    BY <2>7
  <2> QED
    BY <1>2, <2>3, <2>8 DEF DocsInv
<1> QED
  BY <1>5, <1>6, <1>7 DEF PatientInv, InPhase

LEMMA PatientLoad ==
  ASSUME TypeOK, InPhase, NEW l \in loads, Load(l), ~LoadFails(l)
  PROVE  InPhase'
<1>1. PICK d \in Device : Loading(d)
  BY DEF InPhase, AtRest, Looking, Writing, Behind
<1>2. /\ loads = {l} /\ l.dev = d /\ l.email = auth[d] /\ l \in LoadRecord(Int)
      /\ l.answered => l.field = totalPlaylistsCreated[auth[d]]
      /\ auth[d] \in User /\ auth[d] \in Account /\ auth[d] # Nobody
  BY <1>1, SessionAssumption DEF Loading, TypeOK, SessionTypeOK, LoadRecord, Account
<1>3. UNCHANGED <<totalPlaylistsCreated, lookups, creates, clicks, clicker>> /\ due' = due
  BY SameDue DEF Load, docVars
<1>4. NoCreates' /\ lookups' = {} /\ \A u \in User : Right(u)'
  BY <1>1, <1>3, SameNoCreates DEF Loading, Right, Stored
<1>5. CASE AnswerLoad(l, SeenCount(l.dev, l.email))
  <2>1. SeenCount(l.dev, l.email) = totalPlaylistsCreated[auth[d]]
    BY <1>1, <1>2 DEF SeenCount, Overlay, Loading, NoCreates
  <2> DEFINE k == [l EXCEPT !.answered = TRUE, !.field = totalPlaylistsCreated[auth[d]]]
  <2>2. loads' = {k} /\ UNCHANGED <<auth, info>>
    BY <1>2, <1>5, <2>1 DEF AnswerLoad
  <2>3. k.dev = d /\ k.email = auth[d] /\ k.field = totalPlaylistsCreated[auth[d]]
    BY <1>2 DEF LoadRecord
  <2> HIDE DEF k
  <2>4. \A e \in Device \ {d} : Ready(e)'
    BY <1>1, <1>3, <2>2 DEF Loading, Ready
  <2>5. \E j \in loads' : /\ loads' = {j} /\ j.dev = d /\ j.email = auth'[d]
                          /\ j.answered => j.field = totalPlaylistsCreated'[j.email]
    BY <1>3, <2>2, <2>3
  <2>6. info'[d] = ClearedInfo
    BY <1>1, <2>2 DEF Loading
  <2>7. Loading(d)'
    BY <1>4, <2>4, <2>5, <2>6 DEF Loading, ClearedInfo
  <2> QED
    BY <2>7 DEF InPhase
<1>6. CASE LoadArrives(l)
  <2>1. l.answered /\ loads' = {} /\ auth' = auth
    BY <1>2, <1>6 DEF LoadArrives
  <2>2. l.field = totalPlaylistsCreated[auth[d]] /\ Right(auth[d])
    BY <1>1, <1>2, <2>1 DEF Loading
  <2>3. info \in [Device -> [email : Email, field : Int]] /\ info[d] = [email |-> Nobody, field |-> 0]
    BY <1>1, CreatedAssumption DEF Loading, ClearedInfo, TypeOK, SessionTypeOK
  <2> DEFINE value == IF l.field = NotSet THEN info[d].field ELSE l.field
  <2>7. info' = [info EXCEPT ![d].email = auth[d], ![d].field = value]
    BY <1>2, <1>6 DEF LoadArrives
  <2>8. value = IF l.field = NotSet THEN 0 ELSE l.field
    BY <2>3
  <2> HIDE DEF value
  <2>9. /\ \A e \in Device \ {d} : info'[e] = info[e]
        /\ info'[d] = [email |-> auth[d], field |-> value]
    BY <2>3, <2>7
  <2>4. /\ \A e \in Device \ {d} : info'[e] = info[e]
        /\ info'[d] = [email |-> auth[d], field |-> IF l.field = NotSet THEN 0 ELSE l.field]
    BY <2>8, <2>9
  <2>5. info'[d] = [email |-> auth[d], field |-> due[auth[d]]]
    BY <2>2, <2>4 DEF Right, Stored
  <2>6. \A e \in Device : Ready(e)'
    BY <1>1, <1>3, <2>1, <2>4, <2>5 DEF Loading, Ready
  <2> QED
    BY <1>4, <2>1, <2>6 DEF AtRest, InPhase
<1> QED
  BY <1>5, <1>6 DEF Load

LEMMA PatientLookup ==
  ASSUME TypeOK, InPhase, NEW q \in lookups, LookupArrives(q)
  PROVE  InPhase'
<1>1. PICK d \in Device : Looking(d)
  BY DEF InPhase, AtRest, Loading, Writing
<1> DEFINE u == auth[d]
           w == [val |-> due[u], attached |-> TRUE]
<1>2. lookups = {q} /\ q.dev = d /\ q.email = u /\ q.val = due[u] /\ Behind(d) /\ NoCreates
  BY <1>1 DEF Looking
<1>3. u \in User /\ u \in Account /\ u # Nobody
  BY <1>2 DEF Behind, TypeOK, SessionTypeOK, Account
<1>4. /\ UNCHANGED <<auth, info, loads, totalPlaylistsCreated, clicks, clicker>> /\ due' = due
      /\ lookups' = {}
  BY <1>2, SameDue DEF LookupArrives, sessionVars, docVars
<1>5. creates' = [creates EXCEPT ![d][u][u] = Append(@, w)]
  BY <1>2, <1>3 DEF LookupArrives
<1>6. creates[d][u][u] = <<>> /\ Append(<<>>, w) = <<w>>
  BY <1>2, <1>3 DEF NoCreates
<1> HIDE DEF w
<1>7. \A e \in Device, a \in Account, v \in User :
        creates'[e][a][v] = IF e = d /\ a = u /\ v = u THEN <<w>> ELSE <<>>
  BY <1>2, <1>3, <1>5, <1>6 DEF TypeOK, NoCreates
<1>8. Behind(d)'
  BY <1>2, <1>4 DEF Behind, Ready, Right, Stored
<1>9. Writing(d)'
  BY <1>4, <1>7, <1>8 DEF Writing, w
<1> QED
  BY <1>9 DEF InPhase

LEMMA PatientAdd ==
  ASSUME TypeOK, DocsInv, NEW d \in Device, CommitAdd(d)
  PROVE  DocsInv'
<1> DEFINE u == auth[d]
           s == adds[d][u]
<1>1. u \in Account /\ s \in Seq(AddRecord) /\ s # <<>> /\ adds \in [Device -> [Account -> Seq(AddRecord)]]
  BY DEF TypeOK, SessionTypeOK, CommitAdd
<1>2. /\ UNCHANGED <<clicks, clicker>>
      /\ userPlaylists' = userPlaylists \cup {Head(s)}
      /\ adds' = adds \/ adds' = [adds EXCEPT ![d][u] = Tail(s)]
  BY DEF CommitAdd
<1>3. Head(s) \in Range(s) /\ Range(Tail(s)) \subseteq Range(s) /\ Range(s) \subseteq Range(Tail(s)) \cup {Head(s)}
  <2> HIDE DEF s
  <2>1. Head(s) = s[1] /\ 1 \in DOMAIN s
    BY <1>1
  <2>2. \A i \in DOMAIN Tail(s) : i + 1 \in DOMAIN s /\ Tail(s)[i] = s[i + 1]
    BY <1>1
  <2>3. \A i \in DOMAIN s : i = 1 \/ (i - 1 \in DOMAIN Tail(s) /\ Tail(s)[i - 1] = s[i])
    BY <1>1
  <2> QED
    BY <2>1, <2>2, <2>3 DEF Range
<1>4. ASSUME NEW x PROVE x \in Documents' <=> x \in Documents
  <2>1. CASE adds' = adds
    BY <1>1, <1>2, <1>3, <2>1, DocumentsHave
  <2>2. CASE adds' = [adds EXCEPT ![d][u] = Tail(s)]
    <3>1. \A e \in Device, a \in Account :
            adds'[e][a] = IF e = d /\ a = u THEN Tail(s) ELSE adds[e][a]
      BY <1>1, <2>2
    <3> DEFINE queued(e, a) == x \in Range(adds[e][a])
               queuedThen(e, a) == x \in Range(adds'[e][a])
    <3>4. /\ \A e \in Device, a \in Account : queuedThen(e, a) => queued(e, a)
          /\ \A e \in Device, a \in Account : queued(e, a) => queuedThen(e, a) \/ x = Head(s)
          /\ x = Head(s) => queued(d, u)
      BY <1>3, <3>1
    <3>5. /\ x \in Documents <=> x \in userPlaylists \/ \E e \in Device, a \in Account : queued(e, a)
          /\ x \in Documents' <=> x \in userPlaylists' \/ \E e \in Device, a \in Account : queuedThen(e, a)
      BY DocumentsHave
    <3> HIDE DEF queued, queuedThen
    <3>2. x \in Documents' => x \in Documents
      BY <1>1, <1>2, <3>4, <3>5
    <3>3. x \in Documents => x \in Documents'
      BY <1>2, <3>4, <3>5
    <3> QED
      BY <3>2, <3>3
  <2> QED
    BY <1>2, <2>1, <2>2
<1>5. Documents' = Documents
  BY <1>4
<1> QED
  BY <1>2, <1>5 DEF DocsInv, DocOf

LEMMA PatientWrite ==
  ASSUME TypeOK, InPhase, NEW d \in Device, NEW u \in User, CommitCreate(d, u)
  PROVE  InPhase'
<1> DEFINE w == [val |-> due[u], attached |-> TRUE]
<1>1. auth[d] \in Account /\ creates[d][auth[d]][u] # <<>>
  BY DEF TypeOK, SessionTypeOK, CommitCreate
<1>2. PICK e \in Device : Writing(e)
  BY <1>1 DEF InPhase, AtRest, Loading, Looking, NoCreates
<1>3. e = d /\ u = auth[d] /\ creates[d][u][u] = <<w>> /\ u # Nobody
  BY <1>1, <1>2 DEF Writing, Behind
<1>4. /\ \A k \in Device, a \in Account, v \in User :
           creates[k][a][v] = IF k = d /\ a = u /\ v = u THEN <<w>> ELSE <<>>
      /\ loads = {} /\ lookups = {}
      /\ info[d] = [email |-> u, field |-> due[u] - 1]
      /\ \A k \in Device \ {d} : Ready(k)
      /\ \A v \in User \ {u} : Right(v)
  BY <1>2, <1>3 DEF Writing, Behind
<1>5. Head(<<w>>) = w /\ Tail(<<w>>) = <<>> /\ w.val = due[u] /\ w.attached
  OBVIOUS
<1>6. /\ UNCHANGED <<lookups, clicks, clicker>> /\ due' = due
      /\ totalPlaylistsCreated' = [totalPlaylistsCreated EXCEPT ![u] = due[u]]
      /\ \/ creates' = [creates EXCEPT ![d][u][u] = <<>>] /\ Completion(d)
         \/ UNCHANGED <<creates, sessionVars>>
  BY <1>3, <1>5, SameDue DEF CommitCreate
<1> HIDE DEF w
<1>7. due[u] \in Nat /\ NotSet \notin Int
  BY DueType, CreatedAssumption DEF Account
<1>8. \A v \in User : totalPlaylistsCreated'[v] = IF v = u THEN due[u] ELSE totalPlaylistsCreated[v]
  BY <1>6 DEF TypeOK
<1>9. \A v \in User : Right(v)'
  BY <1>4, <1>6, <1>7, <1>8 DEF Right, Stored
<1>10. CASE UNCHANGED <<creates, sessionVars>>
  <2>1. Writing(d)'
    <3>1. Behind(d)'
      BY <1>3, <1>4, <1>6, <1>9, <1>10 DEF Behind, Ready, sessionVars
    <3>2. \A k \in Device, a \in Account, v \in User :
            creates'[k][a][v] = IF k = d /\ a = auth'[d] /\ v = auth'[d] THEN <<w>> ELSE <<>>
      BY <1>3, <1>4, <1>10 DEF sessionVars
    <3> QED
      BY <1>3, <1>4, <1>6, <1>10, <3>1, <3>2 DEF Writing, sessionVars, w
  <2> QED
    BY <2>1 DEF InPhase
<1>11. CASE creates' = [creates EXCEPT ![d][u][u] = <<>>] /\ Completion(d)
  <2>1. NoCreates'
    BY <1>1, <1>3, <1>4, <1>11 DEF NoCreates, TypeOK
  <2>2. /\ info \in [Device -> [email : Email, field : Int]] /\ auth' = auth /\ lookups' = {}
        /\ \/ GetUserInfo(d, u, {})
           \/ info' = [info EXCEPT ![d].field = @ + 1] /\ loads' = {}
    BY <1>3, <1>4, <1>6, <1>11 DEF Completion, TypeOK, SessionTypeOK
  <2>3. CASE GetUserInfo(d, u, {})
    <3> DEFINE l == [n |-> appeared, dev |-> d, email |-> u, answered |-> FALSE, field |-> NotSet]
    <3>1. loads' = {l} /\ l.dev = d /\ l.email = u /\ ~l.answered
      BY <2>3 DEF GetUserInfo
    <3> HIDE DEF l
    <3>2. \E k \in loads' : loads' = {k} /\ k.dev = d /\ k.email = auth'[d] /\ ~k.answered
      BY <1>3, <2>2, <3>1
    <3>3. \A k \in Device : info'[k] = IF k = d THEN ClearedInfo ELSE info[k]
      BY <2>2, <2>3 DEF GetUserInfo
    <3>4. \A k \in Device \ {d} : Ready(k)'
      BY <1>4, <1>6, <2>2, <3>3 DEF Ready
    <3>5. Loading(d)'
      BY <1>9, <2>1, <2>2, <3>2, <3>3, <3>4 DEF Loading, ClearedInfo
    <3> QED
      BY <3>5 DEF InPhase
  <2>4. CASE info' = [info EXCEPT ![d].field = @ + 1] /\ loads' = {}
    <3>1. /\ \A k \in Device \ {d} : info'[k] = info[k]
          /\ info'[d] = [email |-> u, field |-> due[u]]
      BY <1>4, <1>7, <2>2, <2>4
    <3>2. \A k \in Device : Ready(k)'
      BY <1>3, <1>4, <1>6, <2>2, <3>1 DEF Ready
    <3>3. AtRest'
      BY <1>9, <2>1, <2>2, <2>4, <3>2 DEF AtRest
    <3> QED
      BY <3>3 DEF InPhase
  <2> QED
    BY <2>2, <2>3, <2>4
<1> QED
  BY <1>6, <1>10, <1>11

\* What a step that has nothing to do with documents, or nothing with counts,
\* leaves alone.
LEMMA SamePhase ==
  InPhase /\ UNCHANGED <<sessionVars, totalPlaylistsCreated, lookups, creates, clicks, clicker>>
    => InPhase'
<1> SUFFICES ASSUME InPhase, UNCHANGED <<sessionVars, totalPlaylistsCreated, lookups, creates, clicks, clicker>>
             PROVE  InPhase'
  OBVIOUS
<1>1. UNCHANGED <<auth, info, loads, totalPlaylistsCreated, lookups, creates, due>>
  BY SameDue DEF sessionVars
<1>2. /\ \A d \in Device : Ready(d) => Ready(d)'
      /\ \A u : Right(u) => Right(u)'
      /\ NoCreates => NoCreates'
  BY <1>1, SameNoCreates DEF Ready, Right, Stored
<1>3. \A d \in Device : Behind(d) => Behind(d)'
  BY <1>1, <1>2 DEF Behind
<1> QED
  BY <1>1, <1>2, <1>3 DEF InPhase, AtRest, Loading, Looking, Writing, ClearedInfo

LEMMA PatientNext ==
  TypeOK /\ TypeOK' /\ PatientInv /\ PatientStep => PatientInv'
<1> SUFFICES ASSUME TypeOK, TypeOK', PatientInv, PatientStep PROVE PatientInv'
  OBVIOUS
<1>1. DocsInv /\ OwnPhone /\ InPhase
  BY DEF PatientInv
<1>2. ASSUME auth' = auth PROVE OwnPhone'
  BY <1>1, <1>2 DEF OwnPhone
<1>3. ASSUME AllQuiet, NEW d \in Device, ComeAndGo(d), \A u \in User : auth'[d] = u => PhoneOf[u] = d
      PROVE  PatientInv'
  BY <1>1, <1>3, QuietAtRest, PatientComes, SameDocs DEF PatientInv, ComeAndGo, docVars
<1>4. ASSUME AllQuiet, NEW d \in Device, Click(d) PROVE PatientInv'
  BY <1>1, <1>4, QuietAtRest, PatientClick
<1>5. ASSUME NEW l \in loads, Load(l), ~LoadFails(l) PROVE PatientInv'
  <2>1. auth' = auth
    BY <1>5 DEF Load, AnswerLoad, LoadArrives, LoadFails
  <2> QED
    BY <1>1, <1>2, <1>5, <2>1, PatientLoad, SameDocs DEF PatientInv, Load, docVars
<1>6. ASSUME NEW q \in lookups, LookupArrives(q) PROVE PatientInv'
  BY <1>1, <1>2, <1>6, PatientLookup, SameDocs DEF PatientInv, LookupArrives, docVars, sessionVars
<1>7. ASSUME NEW d \in Device, CommitAdd(d) PROVE PatientInv'
  BY <1>1, <1>2, <1>7, PatientAdd, SamePhase DEF PatientInv, CommitAdd, sessionVars
<1>8. ASSUME NEW d \in Device, NEW u \in User, CommitCreate(d, u) PROVE PatientInv'
  <2>1. auth' = auth
    BY <1>8 DEF CommitCreate, Completion, sessionVars
  <2> QED
    BY <1>1, <1>2, <1>8, <2>1, PatientWrite, SameDocs DEF PatientInv, CommitCreate
<1> QED
  BY <1>3, <1>4, <1>5, <1>6, <1>7, <1>8 DEF PatientStep

LEMMA PatientAlways == Histories => [](patient => PatientInv)
<1>1. EitherInit => (patient => PatientInv)
  BY PatientInit DEF EitherInit
<1>2. TypeOK /\ TypeOK' /\ (patient => PatientInv) /\ [Step]_<<vars, patient>>
        => (patient => PatientInv)'
  <2> SUFFICES ASSUME TypeOK, TypeOK', patient => PatientInv, [Step]_<<vars, patient>>, patient'
               PROVE  PatientInv'
    OBVIOUS
  <2>1. CASE Step
    BY <2>1, PatientNext DEF Step
  <2>2. CASE UNCHANGED <<vars, patient>>
    BY <2>2, SameDocs, SamePhase DEF PatientInv, OwnPhone, vars, sessionVars, docVars
  <2> QED
    BY <2>1, <2>2
<1> QED
  BY <1>1, <1>2, HistoryTypes, PTL DEF Histories

\* In a patient history every stored playlist names the user who clicked
\* ("get username/email", addPlaylistVC.addPlaylistClicked): the click finds the
\* email that getUserInfo has put in the singleton.
THEOREM AuthorsAreClickers == Histories => []AuthorIsClicker
<1>1. (patient => PatientInv) => AuthorIsClicker
  <2> SUFFICES ASSUME PatientInv, NEW x \in userPlaylists PROVE x.email = clicker[x.id + 1]
    BY DEF AuthorIsClicker
  <2>1. x \in Documents
    BY DocumentsHave
  <2>2. PICK n \in 1..clicks : x = DocOf(n)
    BY <2>1 DEF PatientInv, DocsInv
  <2>3. n - 1 + 1 = n
    BY <2>2
  <2> QED
    BY <2>2, <2>3 DEF DocOf
<1> QED
  BY <1>1, PatientAlways, PTL

\* In a patient history, when nothing is outstanding, each user's stored
\* totalPlaylistsCreated is the number of the playlists they added ("update
\* playlist in user info", addPlaylistVC.addPlaylistClicked).
THEOREM AddsAreCounted == Histories => []EachAddAddsOne
<1>1. TypeOK /\ (patient => PatientInv) => EachAddAddsOne
  <2> SUFFICES ASSUME TypeOK, PatientInv, AllQuiet, NEW u \in User
               PROVE  Stored(totalPlaylistsCreated[u]) = Cardinality(CreatedBy(u))
    BY DEF EachAddAddsOne
  <2>1. Stored(totalPlaylistsCreated[u]) = due[u]
    BY QuietAtRest DEF PatientInv, AtRest, Right
  <2> DEFINE S == {n \in 1..clicks : clicker[n] = u}
  <2>2. due[u] = Cardinality(S) /\ IsFiniteSet(S)
    <3>1. S \in SUBSET (1..clicks) /\ IsFiniteSet(1..clicks)
      BY CreatedAssumption, FS_Interval DEF TypeOK
    <3> QED
      BY <3>1, FS_Subset DEF due, Account
  <2>3. userPlaylists = {DocOf(n) : n \in 1..clicks}
    <3>1. DOMAIN <<>> = {}
      OBVIOUS
    <3>2. \A d \in Device, a \in Account : Range(adds[d][a]) = {}
      BY <3>1 DEF AllQuiet, Range
    <3>3. \A x : x \in Documents <=> x \in userPlaylists
      BY <3>2, DocumentsHave
    <3> QED
      BY <3>3 DEF PatientInv, DocsInv
  <2> DEFINE f == [n \in S |-> DocOf(n)]
  <2>4. f \in Bijection(S, CreatedBy(u))
    <3>1. \A n \in S : DocOf(n) \in CreatedBy(u)
      BY <2>3 DEF CreatedBy, DocOf
    <3>2. \A x \in CreatedBy(u) : \E n \in S : DocOf(n) = x
      BY <2>3 DEF CreatedBy, DocOf
    <3>3. \A m, n \in S : DocOf(m) = DocOf(n) => m = n
      BY DEF DocOf
    <3> HIDE DEF S
    <3> QED
      BY <3>1, <3>2, <3>3 DEF Bijection, Injection, Surjection, IsInjective
  <2> HIDE DEF S, f
  <2>5. Cardinality(S) = Cardinality(CreatedBy(u))
    BY <2>2, <2>4, FS_Bijection DEF ExistsBijection
  <2> QED
    BY <2>1, <2>2, <2>5
<1> QED
  BY <1>1, PatientAlways, HistoryTypes, PTL
=============================================================================
