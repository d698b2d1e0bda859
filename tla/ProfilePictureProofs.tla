------------------------ MODULE ProfilePictureProofs ------------------------
(***************************************************************************)
(* Proofs about ProfilePicture and PatientPicture, for any sets of phones, *)
(* users and pictures and any number of appearances of the map.            *)
(***************************************************************************)
EXTENDS PatientPicture, SessionProofs, TLAPS

Value == Picture \cup {NoPicture}

-----------------------------------------------------------------------------
(* Type correctness *)

LEMMA TypeOKInit == Init => TypeOK
<1> SUFFICES ASSUME Init PROVE TypeOK
  OBVIOUS
<1>1. SessionTypeOK(Value)
  BY PictureAssumption, SessionInitType DEF Init, Value
<1>2. links \in [Device -> [Account -> [User -> Seq(LinkRecord)]]]
  BY DEF Init
<1> QED
  BY <1>1, <1>2 DEF Init, TypeOK, Value

LEMMA TypeOKUserStep ==
  ASSUME TypeOK, NEW d \in Device,
         ComeAndGo(d) \/ Restart(d) \/ \E pic \in Picture : Pick(d, pic)
  PROVE  TypeOK'
<1>0. SessionTypeOK(Value) /\ Initial \in Value
  BY PictureAssumption DEF TypeOK, Value
<1>1. CASE ComeAndGo(d)
  <2>1. SessionTypeOK(Value)'
    BY <1>0, <1>1, SessionUserType DEF ComeAndGo
  <2> QED
    BY <1>1, <2>1 DEF TypeOK, ComeAndGo, docVars, Value
<1>2. CASE Restart(d)
  <2>1. SessionTypeOK(Value)'
    BY <1>0, <1>2, SessionUserType DEF Restart
  <2>2. links' \in [Device -> [Account -> [User -> Seq(LinkRecord)]]]
    <3>1. \A r \in LinkRecord : [r EXCEPT !.attached = FALSE] \in LinkRecord
      BY DEF LinkRecord
    <3>2. ASSUME NEW a \in Account, NEW u \in User
          PROVE  Detached(links[d][a][u]) \in Seq(LinkRecord)
      <4>1. links[d][a][u] \in Seq(LinkRecord)
        BY DEF TypeOK
      <4> QED
        BY <3>1, <4>1, DetachedType
    <3> QED
      BY <1>2, <3>2 DEF TypeOK, Restart
  <2> QED
    BY <1>2, <2>1, <2>2 DEF TypeOK, Restart, docVars, Value
<1>3. ASSUME NEW pic \in Picture, Pick(d, pic) PROVE TypeOK'
  <2>1. SessionTypeOK(Value)'
    BY <1>0, <1>3, SessionStutter DEF Pick
  <2>2. [pic |-> pic, dev |-> d, stored |-> FALSE] \in PutRecord
    BY DEF PutRecord
  <2> QED
    BY <1>3, <2>1, <2>2 DEF TypeOK, Pick, docVars, Value
<1> QED
  BY <1>1, <1>2, <1>3

\* What a query of the user's document can be answered with.
LEMMA SeenPictureIs ==
  ASSUME TypeOK, NEW d \in Device, NEW u \in User
  PROVE  /\ SeenPicture(d, u) \in Value \cup {NotSet}
         /\ \/ SeenPicture(d, u) = profilePicURL[u]
            \/ \E i \in DOMAIN links[d][auth[d]][u] :
                 SeenPicture(d, u) = links[d][auth[d]][u][i].val
<1>1. auth[d] \in Account
  BY DEF TypeOK, SessionTypeOK
<1>2. links[d][auth[d]][u] \in Seq(LinkRecord) /\ profilePicURL[u] \in Picture \cup {NotSet}
  BY <1>1 DEF TypeOK
<1>3. ASSUME NEW i \in DOMAIN links[d][auth[d]][u]
      PROVE  links[d][auth[d]][u][i].val \in Picture
  <2>1. links[d][auth[d]][u][i] \in LinkRecord
    BY <1>2, ElementOf
  <2> QED
    BY <2>1 DEF LinkRecord
<1>4. \/ SeenPicture(d, u) = profilePicURL[u]
      \/ \E i \in DOMAIN links[d][auth[d]][u] :
           SeenPicture(d, u) = links[d][auth[d]][u][i].val
  BY <1>2, OverlayCases DEF SeenPicture
<1> QED
  BY <1>2, <1>3, <1>4 DEF Value

LEMMA TypeOKLoadStep ==
  ASSUME TypeOK, NEW l \in loads, Load(l)
  PROVE  TypeOK'
<1>1. l.dev \in Device /\ l.email \in User
  BY DEF TypeOK, SessionTypeOK, LoadRecord
<1>2. SeenPicture(l.dev, l.email) \in Value \cup {NotSet} /\ SessionTypeOK(Value)
  BY <1>1, SeenPictureIs DEF TypeOK, Value
<1>3. SessionTypeOK(Value)'
  BY <1>2, SessionLoadType DEF Load
<1> QED
  BY <1>3 DEF Load, TypeOK, docVars, Value

LEMMA TypeOKStorageStep ==
  ASSUME TypeOK,
         \/ \E q \in puts : PutDone(q) \/ UrlArrives(q) \/ PutFails(q)
         \/ \E pic \in erases : EraseDone(pic) \/ EraseFails(pic)
  PROVE  TypeOK'
<1>0. SessionTypeOK(Value)
  BY DEF TypeOK, Value
<1>1. ASSUME NEW q \in puts, PutDone(q) PROVE TypeOK'
  <2>1. q \in PutRecord /\ q.pic \in Picture /\ [q EXCEPT !.stored = TRUE] \in PutRecord
    BY DEF TypeOK, PutRecord
  <2>2. SessionTypeOK(Value)'
    BY <1>0, <1>1, SessionStutter DEF PutDone
  <2> QED
    BY <1>1, <2>1, <2>2 DEF TypeOK, PutDone, Value
<1>2. ASSUME NEW q \in puts, UrlArrives(q) PROVE TypeOK'
  <2>1. q.dev \in Device /\ q.pic \in Picture
    BY DEF TypeOK, PutRecord
  <2>2. info[q.dev].field \in Value /\ info[q.dev].email \in Email
    BY <1>0, <2>1 DEF SessionTypeOK
  <2>3. [pic |-> q.pic, dev |-> q.dev, email |-> info[q.dev].email] \in LookupRecord
    BY <2>1, <2>2 DEF LookupRecord
  <2>4. erases' \subseteq Picture
    BY <1>2, <2>2 DEF TypeOK, UrlArrives, Value
  <2>5. SessionTypeOK(Value)'
    BY <1>0, <1>2, SessionStutter DEF UrlArrives
  <2> QED
    BY <1>2, <2>3, <2>4, <2>5 DEF TypeOK, UrlArrives, docVars, Value
<1>3. ASSUME NEW q \in puts, PutFails(q) PROVE TypeOK'
  <2>1. SessionTypeOK(Value)'
    BY <1>0, <1>3, SessionStutter DEF PutFails
  <2> QED
    BY <1>3, <2>1 DEF TypeOK, PutFails, docVars, Value
<1>4. ASSUME NEW pic \in erases, EraseDone(pic) PROVE TypeOK'
  <2>1. SessionTypeOK(Value)'
    BY <1>0, <1>4, SessionStutter DEF EraseDone
  <2> QED
    BY <1>4, <2>1 DEF TypeOK, EraseDone, Value
<1>5. ASSUME NEW pic \in erases, EraseFails(pic) PROVE TypeOK'
  <2>1. SessionTypeOK(Value)'
    BY <1>0, <1>5, SessionStutter DEF EraseFails
  <2> QED
    BY <1>5, <2>1 DEF TypeOK, EraseFails, docVars, Value
<1> QED
  BY <1>1, <1>2, <1>3, <1>4, <1>5

\* A queue of links, after its front is gone.
LEMMA FrontLink ==
  ASSUME TypeOK, NEW d \in Device, NEW u \in User, links[d][auth[d]][u] # <<>>
  PROVE  /\ auth[d] \in Account
         /\ links[d][auth[d]][u] \in Seq(LinkRecord)
         /\ Head(links[d][auth[d]][u]) \in LinkRecord
         /\ Tail(links[d][auth[d]][u]) \in Seq(LinkRecord)
         /\ [links EXCEPT ![d][auth[d]][u] = Tail(@)] \in Queues(User, LinkRecord)
<1>1. auth[d] \in Account /\ links[d][auth[d]][u] \in Seq(LinkRecord)
  BY DEF TypeOK, SessionTypeOK
<1>2. /\ Head(links[d][auth[d]][u]) \in LinkRecord
      /\ Tail(links[d][auth[d]][u]) \in Seq(LinkRecord)
  BY <1>1, Dequeue
<1> QED
  BY <1>1, <1>2, PutQueue DEF TypeOK, Queues

LEMMA TypeOKLinkStep ==
  ASSUME TypeOK,
         \/ \E q \in lookups : LookupArrives(q) \/ LookupFails(q)
         \/ \E d \in Device, u \in User : CommitLink(d, u) \/ RejectLink(d, u)
  PROVE  TypeOK'
<1>0. SessionTypeOK(Value)
  BY DEF TypeOK, Value
<1>1. ASSUME NEW q \in lookups, LookupArrives(q) PROVE TypeOK'
  <2>1. /\ q.dev \in Device /\ q.pic \in Picture /\ q.email \in Account
        /\ auth[q.dev] \in Account
    BY DEF TypeOK, SessionTypeOK, LookupRecord, Email
  <2> DEFINE w == [val |-> q.pic, attached |-> TRUE]
  <2>2. links' \in [Device -> [Account -> [User -> Seq(LinkRecord)]]]
    <3>1. CASE q.email = Nobody
      BY <1>1, <3>1 DEF TypeOK, LookupArrives
    <3>2. CASE q.email # Nobody
      <4>1. q.email \in User
        BY <2>1, <3>2 DEF Account
      <4>2. w \in LinkRecord
        BY <2>1 DEF LinkRecord
      <4>3. links[q.dev][auth[q.dev]][q.email] \in Seq(LinkRecord)
        BY <2>1, <4>1 DEF TypeOK
      <4> HIDE DEF w
      <4>4. Append(links[q.dev][auth[q.dev]][q.email], w) \in Seq(LinkRecord)
        BY <4>2, <4>3
      <4>5. links' = [links EXCEPT ![q.dev][auth[q.dev]][q.email] =
                        Append(links[q.dev][auth[q.dev]][q.email], w)]
        BY <1>1, <2>1, <3>2, <4>1 DEF TypeOK, LookupArrives, w
      <4> QED
        BY <2>1, <4>1, <4>4, <4>5 DEF TypeOK
    <3> QED
      BY <3>1, <3>2
  <2>3. SessionTypeOK(Value)'
    BY <1>0, <1>1, SessionStutter DEF LookupArrives
  <2> QED
    BY <1>1, <2>2, <2>3 DEF TypeOK, LookupArrives, docVars, Value
<1>2. ASSUME NEW q \in lookups, LookupFails(q) PROVE TypeOK'
  <2>1. SessionTypeOK(Value)'
    BY <1>0, <1>2, SessionStutter DEF LookupFails
  <2> QED
    BY <1>2, <2>1 DEF TypeOK, LookupFails, docVars, Value
<1>3. ASSUME NEW d \in Device, NEW u \in User, CommitLink(d, u) PROVE TypeOK'
  <2> DEFINE w == Head(links[d][auth[d]][u])
  <2>0. links[d][auth[d]][u] # <<>>
    BY <1>3 DEF CommitLink
  <2>1. w \in LinkRecord /\ w.val \in Picture
    BY <2>0, FrontLink DEF LinkRecord
  <2>2. profilePicURL' \in [User -> Picture \cup {NotSet}]
    BY <1>3, <2>1 DEF TypeOK, CommitLink
  <2>3. links' \in [Device -> [Account -> [User -> Seq(LinkRecord)]]]
    <3>1. links' = links \/ links' = [links EXCEPT ![d][auth[d]][u] = Tail(@)]
      BY <1>3 DEF CommitLink
    <3>2. [links EXCEPT ![d][auth[d]][u] = Tail(@)] \in Queues(User, LinkRecord)
      BY <2>0, FrontLink
    <3> QED
      BY <3>1, <3>2 DEF TypeOK, Queues
  <2>4. info' \in [Device -> [email : Email, field : Value]]
    <3>1. info[d] \in [email : Email, field : Value]
      BY <1>0 DEF SessionTypeOK
    <3>2. [info[d] EXCEPT !.field = w.val] \in [email : Email, field : Value]
      BY <2>1, <3>1 DEF Value
    <3>3. info' = info \/ info' = [info EXCEPT ![d] = [info[d] EXCEPT !.field = w.val]]
      BY <1>0, <1>3 DEF SessionTypeOK, CommitLink, Shown
    <3> QED
      BY <1>0, <3>2, <3>3 DEF SessionTypeOK
  <2>5. SessionTypeOK(Value)'
    BY <1>0, <1>3, <2>4 DEF SessionTypeOK, LoadRecord, CommitLink
  <2> QED
    BY <1>3, <2>2, <2>3, <2>5 DEF TypeOK, CommitLink, Value
<1>4. ASSUME NEW d \in Device, NEW u \in User, RejectLink(d, u) PROVE TypeOK'
  <2>1. SessionTypeOK(Value)'
    BY <1>0, <1>4, SessionStutter DEF RejectLink
  <2>2. links' \in Queues(User, LinkRecord)
    BY <1>4, FrontLink DEF RejectLink
  <2> QED
    BY <1>4, <2>1, <2>2 DEF TypeOK, RejectLink, docVars, Value, Queues
<1> QED
  BY <1>1, <1>2, <1>3, <1>4

LEMMA TypeOKNext == TypeOK /\ [Next]_vars => TypeOK'
<1> SUFFICES ASSUME TypeOK, [Next]_vars PROVE TypeOK'
  OBVIOUS
<1>1. CASE Next
  BY <1>1, TypeOKUserStep, TypeOKLoadStep, TypeOKStorageStep, TypeOKLinkStep DEF Next
<1>2. CASE UNCHANGED vars
  <2>1. SessionTypeOK(Value)'
    BY <1>2, SessionStutter DEF TypeOK, Value, vars
  <2> QED
    BY <1>2, <2>1 DEF TypeOK, vars, docVars, Value
<1> QED
  BY <1>1, <1>2

\* The callbacks of storeProfilePic find documents, singleton and queues in
\* the shape they read them, whatever uploads and sessions overlap.
THEOREM TypeCorrect == Spec => []TypeOK
<1>1. Init => TypeOK
  BY TypeOKInit
<1>2. TypeOK /\ [Next]_vars => TypeOK'
  BY TypeOKNext
<1> QED
  BY <1>1, <1>2, PTL DEF Spec

-----------------------------------------------------------------------------
(* Where a picture is known: a document, a queued link, a singleton, an     *)
(* answer on its way to one, or a request to delete it.                     *)

Queued(x) ==
  \E d \in Device, a \in Account, u \in User :
    \E i \in DOMAIN links[d][a][u] : links[d][a][u][i].val = x

Named(x) == \/ \E u \in User : profilePicURL[u] = x
            \/ Queued(x)
            \/ Held(x)

Known(x) == Named(x) \/ x \in erases

\* An uploaded picture goes through puts and then lookups, once, and is not
\* known to anybody before it has left both; it passes to lookups only when
\* Storage has taken it, so that what anybody knows, Storage has taken.
UploadInv ==
  /\ \A q, r \in puts : q.pic = r.pic => q = r
  /\ \A q, r \in lookups : q.pic = r.pic => q = r
  /\ \A q \in puts, r \in lookups : q.pic # r.pic
  /\ \A q \in puts \cup lookups : q.pic \in used /\ ~Known(q.pic)
  /\ \A q \in puts : q.stored => q.pic \in taken
  /\ \A q \in lookups : q.pic \in taken
  /\ \A x \in Picture : Known(x) => x \in used /\ x \in taken

LEMMA UploadInvInit == Init => UploadInv
<1> SUFFICES ASSUME Init PROVE UploadInv
  OBVIOUS
<1>1. ASSUME NEW x \in Picture PROVE ~Known(x)
  BY <1>1, PictureAssumption
  DEF Init, SessionInit, ClearedInfo, Known, Named, Queued, Held
<1> QED
  BY <1>1 DEF Init, UploadInv

\* A step that makes nothing known and leaves the uploads alone, or ends some.
LEMMA NothingLearnt ==
  ASSUME UploadInv, puts' \subseteq puts, lookups' \subseteq lookups,
         used' = used, taken' = taken, TypeOK,
         \A x \in Picture : Known(x)' => Known(x)
  PROVE  UploadInv'
<1>1. \A q \in puts \cup lookups : q.pic \in Picture
  BY DEF TypeOK, PutRecord, LookupRecord
<1> HIDE DEF Known
<1> QED
  BY <1>1 DEF UploadInv

LEMMA SameQueues ==
  ASSUME UNCHANGED links, NEW x
  PROVE  Queued(x)' = Queued(x)
BY DEF Queued

LEMMA UploadUserStep ==
  ASSUME TypeOK, UploadInv, NEW d \in Device,
         ComeAndGo(d) \/ Restart(d) \/ \E pic \in Picture : Pick(d, pic)
  PROVE  UploadInv'
<1>0. SessionTypeOK(Value) /\ Initial \notin Picture /\ NotSet \notin Picture
  BY PictureAssumption DEF TypeOK, Value
<1>1. CASE ComeAndGo(d)
  <2>1. ASSUME NEW x \in Picture, Known(x)' PROVE Known(x)
    <3>1. Held(x)' => Held(x)
      BY <1>0, <1>1, HeldUserStep DEF ComeAndGo
    <3>2. Queued(x)' = Queued(x)
      BY <1>1, SameQueues DEF ComeAndGo
    <3> HIDE DEF Queued, Held
    <3> QED
      BY <1>1, <2>1, <3>1, <3>2 DEF ComeAndGo, docVars, Known, Named
  <2> QED
    BY <1>1, <2>1, NothingLearnt DEF ComeAndGo
<1>2. CASE Restart(d)
  <2>1. ASSUME NEW x \in Picture, Known(x)' PROVE Known(x)
    <3>1. Held(x)' => Held(x)
      BY <1>0, <1>2, HeldUserStep DEF Restart
    <3>2. ASSUME Queued(x)' PROVE Queued(x)
      <4>1. PICK e \in Device, a \in Account, u \in User :
              \E i \in DOMAIN links'[e][a][u] : links'[e][a][u][i].val = x
        BY <3>2 DEF Queued
      <4>2. PICK i \in DOMAIN links'[e][a][u] : links'[e][a][u][i].val = x
        BY <4>1
      <4>3. links'[e][a][u] = links[e][a][u] \/ links'[e][a][u] = Detached(links[e][a][u])
        BY <1>2 DEF Restart, TypeOK
      <4>4. links[e][a][u] \in Seq(LinkRecord)
        BY DEF TypeOK
      <4>5. i \in DOMAIN links[e][a][u] /\ links'[e][a][u][i].val = links[e][a][u][i].val
        <5>1. CASE links'[e][a][u] = links[e][a][u]
          BY <4>2, <5>1
        <5>2. CASE links'[e][a][u] = Detached(links[e][a][u])
          <6>1. i \in DOMAIN links[e][a][u]
            BY <4>2, <5>2 DEF Detached
          <6>2. links[e][a][u][i] \in LinkRecord
            BY <4>4, <6>1, ElementOf
          <6>3. links'[e][a][u][i] = [links[e][a][u][i] EXCEPT !.attached = FALSE]
            BY <5>2, <6>1 DEF Detached
          <6> QED
            BY <6>1, <6>2, <6>3 DEF LinkRecord
        <5> QED
          BY <4>3, <5>1, <5>2
      <4> QED
        BY <4>2, <4>5 DEF Queued
    <3> HIDE DEF Queued, Held
    <3> QED
      BY <1>2, <2>1, <3>1, <3>2 DEF Restart, docVars, Known, Named
  <2>2. /\ puts' \subseteq puts /\ lookups' \subseteq lookups
        /\ used' = used /\ taken' = taken
    BY <1>2 DEF Restart
  <2> QED
    BY <2>1, <2>2, NothingLearnt
<1>3. ASSUME NEW pic \in Picture, Pick(d, pic) PROVE UploadInv'
  <2> DEFINE q == [pic |-> pic, dev |-> d, stored |-> FALSE]
  <2>1. ASSUME NEW x \in Picture PROVE Known(x)' = Known(x)
    <3>1. Held(x)' = Held(x)
      BY <1>3 DEF Pick, sessionVars, Held
    <3>2. Queued(x)' = Queued(x)
      BY <1>3, SameQueues DEF Pick
    <3> HIDE DEF Queued, Held
    <3> QED
      BY <1>3, <3>1, <3>2 DEF Pick, docVars, Known, Named
  <2>2. \A r \in puts \cup lookups : r.pic \in Picture /\ r.pic # pic
    BY <1>3 DEF Pick, UploadInv, TypeOK, PutRecord, LookupRecord
  <2>3. /\ puts' = puts \cup {q} /\ lookups' = lookups /\ used' = used \cup {pic}
        /\ taken' = taken /\ q.pic = pic /\ ~q.stored /\ ~Known(pic)
    BY <1>3 DEF Pick, UploadInv
  <2> HIDE DEF q, Known
  <2> QED
    BY <2>1, <2>2, <2>3 DEF UploadInv
<1> QED
  BY <1>1, <1>2, <1>3

LEMMA UploadLoadStep ==
  ASSUME TypeOK, UploadInv, NEW l \in loads, Load(l)
  PROVE  UploadInv'
<1> DEFINE seen == SeenPicture(l.dev, l.email)
<1>1. l.dev \in Device /\ l.email \in User /\ auth[l.dev] \in Account
  BY DEF TypeOK, SessionTypeOK, LoadRecord
<1>2. SessionTypeOK(Value)
  BY DEF TypeOK, Value
<1>3. ASSUME NEW x \in Picture, Known(x)' PROVE Known(x)
  <2>1. Held(x)' => Held(x) \/ seen = x
    BY <1>2, HeldLoadStep DEF Load
  <2>2. seen = x => Named(x)
    BY <1>1, SeenPictureIs DEF Named, Queued
  <2>3. Queued(x)' = Queued(x)
    BY SameQueues DEF Load
  <2> HIDE DEF Queued, Held, seen
  <2> QED
    BY <1>3, <2>1, <2>2, <2>3 DEF Load, docVars, Known, Named
<1> QED
  BY <1>3, NothingLearnt DEF Load

LEMMA UploadStorageStep ==
  ASSUME TypeOK, UploadInv,
         \/ \E q \in puts : PutDone(q) \/ UrlArrives(q) \/ PutFails(q)
         \/ \E pic \in erases : EraseDone(pic) \/ EraseFails(pic)
  PROVE  UploadInv'
<1>0. ASSUME UNCHANGED <<profilePicURL, links, info, loads>>, NEW x
      PROVE  Named(x)' = Named(x)
  <2>1. Held(x)' = Held(x) /\ Queued(x)' = Queued(x)
    BY <1>0, SameQueues DEF Held
  <2> HIDE DEF Queued, Held
  <2> QED
    BY <1>0, <2>1 DEF Named
<1>1. ASSUME NEW q \in puts, PutDone(q) PROVE UploadInv'
  <2> DEFINE r == [q EXCEPT !.stored = TRUE]
  <2>1. \A x : Named(x)' = Named(x)
    BY <1>0, <1>1 DEF PutDone, sessionVars
  <2>2. q \in PutRecord /\ r.pic = q.pic
    BY DEF TypeOK, PutRecord
  <2>3. puts' = (puts \ {q}) \cup {r} /\ taken' = taken \cup {q.pic}
    BY <1>1 DEF PutDone
  <2> HIDE DEF r, Named
  <2> QED
    BY <1>1, <2>1, <2>2, <2>3 DEF PutDone, UploadInv, Known
<1>2. ASSUME NEW q \in puts, UrlArrives(q) PROVE UploadInv'
  <2> DEFINE old == info[q.dev].field
             r   == [pic |-> q.pic, dev |-> q.dev, email |-> info[q.dev].email]
  <2>1. \A x : Named(x)' = Named(x)
    BY <1>0, <1>2 DEF UrlArrives, sessionVars, docVars
  <2>2. q.dev \in Device /\ q.pic \in Picture
    BY DEF TypeOK, PutRecord
  <2>3. Named(old)
    BY <2>2 DEF Named, Held
  <2>4. /\ puts' = puts \ {q} /\ lookups' = lookups \cup {r} /\ r.pic = q.pic
        /\ erases' \subseteq erases \cup {old} /\ used' = used /\ taken' = taken
        /\ q.stored
    BY <1>2 DEF UrlArrives
  <2> HIDE DEF old, r, Named
  <2>5. \A x \in Picture : Known(x)' => Known(x)
    BY <2>1, <2>3, <2>4 DEF Known
  <2>6. \A s \in puts \cup lookups : s.pic \in Picture
    BY DEF TypeOK, PutRecord, LookupRecord
  <2> HIDE DEF Known
  <2> QED
    BY <2>2, <2>4, <2>5, <2>6 DEF UploadInv
<1>3. ASSUME NEW q \in puts, PutFails(q) PROVE UploadInv'
  <2>1. \A x : Named(x)' = Named(x)
    BY <1>0, <1>3 DEF PutFails, sessionVars, docVars
  <2> HIDE DEF Named
  <2>2. \A x \in Picture : Known(x)' => Known(x)
    BY <1>3, <2>1 DEF PutFails, Known
  <2> QED
    BY <1>3, <2>2, NothingLearnt DEF PutFails
<1>4. ASSUME NEW pic \in erases, EraseDone(pic) \/ EraseFails(pic) PROVE UploadInv'
  <2>1. \A x : Named(x)' = Named(x)
    BY <1>0, <1>4 DEF EraseDone, EraseFails, sessionVars, docVars
  <2> HIDE DEF Named
  <2>2. \A x \in Picture : Known(x)' => Known(x)
    BY <1>4, <2>1 DEF EraseDone, EraseFails, Known
  <2> QED
    BY <1>4, <2>2, NothingLearnt DEF EraseDone, EraseFails
<1> QED
  BY <1>1, <1>2, <1>3, <1>4

LEMMA UploadLookupStep ==
  ASSUME TypeOK, UploadInv, NEW q \in lookups, LookupArrives(q) \/ LookupFails(q)
  PROVE  UploadInv'
<1>1. /\ q.dev \in Device /\ q.pic \in Picture /\ q.email \in Account
      /\ auth[q.dev] \in Account
  BY DEF TypeOK, SessionTypeOK, LookupRecord, Email
<1>2. ASSUME NEW x, Queued(x)' PROVE Queued(x) \/ x = q.pic
  <2>1. CASE links' = links
    BY <1>2, <2>1, SameQueues
  <2>2. CASE links' # links
    <3>1. LookupArrives(q) /\ q.email \in User
      BY <1>1, <2>2 DEF LookupArrives, LookupFails, Account
    <3> DEFINE w == [val |-> q.pic, attached |-> TRUE]
               queue == links[q.dev][auth[q.dev]][q.email]
    <3>2. queue \in Seq(LinkRecord)
      BY <1>1, <3>1 DEF TypeOK
    <3>3. w \in LinkRecord /\ w.val = q.pic
      BY <1>1 DEF LinkRecord
    <3>4. links' = [links EXCEPT ![q.dev][auth[q.dev]][q.email] = Append(queue, w)]
      BY <2>2, <3>1 DEF LookupArrives
    <3>5. PICK d \in Device, a \in Account, u \in User :
            \E i \in DOMAIN links'[d][a][u] : links'[d][a][u][i].val = x
      BY <1>2 DEF Queued
    <3>6. PICK i \in DOMAIN links'[d][a][u] : links'[d][a][u][i].val = x
      BY <3>5
    <3> HIDE DEF w
    <3>7. links \in Queues(User, LinkRecord)
      BY DEF TypeOK, Queues
    <3>8. links'[d][a][u] =
            IF d = q.dev /\ a = auth[q.dev] /\ u = q.email THEN Append(queue, w)
                                                           ELSE links[d][a][u]
      BY <1>1, <3>1, <3>4, <3>7 DEF Queues
    <3>9. CASE links'[d][a][u] = links[d][a][u]
      BY <3>6, <3>9 DEF Queued
    <3>10. CASE /\ d = q.dev /\ a = auth[q.dev] /\ u = q.email
                /\ links'[d][a][u] = Append(queue, w)
      <4>1. (i \in DOMAIN queue /\ queue[i].val = x) \/ w.val = x
        <5>1. i \in DOMAIN Append(queue, w) /\ Append(queue, w)[i].val = x
          BY <3>6, <3>10
        <5> HIDE DEF queue
        <5> QED
          BY <3>2, <5>1, Appended
      <4> QED
        BY <1>1, <3>1, <3>3, <4>1 DEF Queued
    <3> QED
      BY <3>8, <3>9, <3>10
  <2> QED
    BY <2>1, <2>2
<1>3. ASSUME NEW x, Known(x)' PROVE Known(x) \/ x = q.pic
  <2>1. Held(x)' = Held(x)
    BY DEF LookupArrives, LookupFails, sessionVars, Held
  <2> HIDE DEF Held, Queued
  <2> QED
    BY <1>2, <1>3, <2>1 DEF LookupArrives, LookupFails, docVars, Known, Named
<1>4. lookups' = lookups \ {q} /\ puts' = puts /\ used' = used /\ taken' = taken
  BY DEF LookupArrives, LookupFails
<1>5. \A s \in puts \cup lookups : s.pic \in Picture
  BY DEF TypeOK, PutRecord, LookupRecord
<1> HIDE DEF Known
<1> QED
  BY <1>1, <1>3, <1>4, <1>5 DEF UploadInv

LEMMA UploadLinkStep ==
  ASSUME TypeOK, UploadInv, NEW d \in Device, NEW u \in User,
         CommitLink(d, u) \/ RejectLink(d, u)
  PROVE  UploadInv'
<1> DEFINE queue == links[d][auth[d]][u]
           w     == Head(queue)
<1>1. /\ auth[d] \in Account /\ queue \in Seq(LinkRecord) /\ queue # <<>>
      /\ Tail(queue) \in Seq(LinkRecord) /\ w \in LinkRecord /\ w.val \in Picture
  BY FrontLink DEF CommitLink, RejectLink, LinkRecord
<1>2. Queued(w.val)
  <2>1. 1 \in DOMAIN queue /\ queue[1] = w
    BY <1>1, Dequeue
  <2> QED
    BY <1>1, <2>1 DEF Queued
<1>3. ASSUME NEW x, Queued(x)' PROVE Queued(x)
  <2>1. CASE links' = links
    BY <1>3, <2>1, SameQueues
  <2>2. CASE links' = [links EXCEPT ![d][auth[d]][u] = Tail(queue)]
    <3>1. PICK e \in Device, a \in Account, v \in User :
            \E i \in DOMAIN links'[e][a][v] : links'[e][a][v][i].val = x
      BY <1>3 DEF Queued
    <3>2. PICK i \in DOMAIN links'[e][a][v] : links'[e][a][v][i].val = x
      BY <3>1
    <3>3. links \in Queues(User, LinkRecord)
      BY DEF TypeOK, Queues
    <3>4. links'[e][a][v] =
            IF e = d /\ a = auth[d] /\ v = u THEN Tail(queue) ELSE links[e][a][v]
      BY <1>1, <2>2, <3>3 DEF Queues
    <3>5. CASE links'[e][a][v] = links[e][a][v]
      BY <3>2, <3>5 DEF Queued
    <3>6. CASE e = d /\ a = auth[d] /\ v = u /\ links'[e][a][v] = Tail(queue)
      <4>1. i + 1 \in DOMAIN queue /\ Tail(queue)[i] = queue[i + 1]
        BY <1>1, <3>2, <3>6, Dequeue
      <4> QED
        BY <1>1, <3>2, <3>6, <4>1 DEF Queued
    <3> QED
      BY <3>4, <3>5, <3>6
  <2>3. links' = links \/ links' = [links EXCEPT ![d][auth[d]][u] = Tail(queue)]
    BY DEF CommitLink, RejectLink
  <2> QED
    BY <2>1, <2>2, <2>3
<1>4. ASSUME NEW x, Held(x)' PROVE Held(x) \/ x = w.val
  <2>1. info' = info \/ info' = [info EXCEPT ![d].field = w.val]
    BY DEF CommitLink, RejectLink, Shown, sessionVars
  <2>2. loads' = loads
    BY DEF CommitLink, RejectLink, sessionVars
  <2>3. info \in [Device -> [email : Email, field : Value]]
    BY DEF TypeOK, SessionTypeOK, Value
  <2> HIDE DEF w
  <2> QED
    BY <1>4, <2>1, <2>2, <2>3 DEF Held
<1>5. ASSUME NEW x, NEW v \in User, profilePicURL'[v] = x
      PROVE  profilePicURL[v] = x \/ x = w.val
  <2>1. profilePicURL' = profilePicURL \/ profilePicURL' = [profilePicURL EXCEPT ![u] = w.val]
    BY DEF CommitLink, RejectLink, docVars
  <2>2. profilePicURL \in [User -> Picture \cup {NotSet}]
    BY DEF TypeOK
  <2> HIDE DEF w
  <2> QED
    BY <1>5, <2>1, <2>2
<1>6. UNCHANGED <<puts, lookups, used, taken, erases>>
  BY DEF CommitLink, RejectLink
<1> HIDE DEF w, Queued, Held
<1>7. \A x \in Picture : Known(x)' => Known(x)
  BY <1>2, <1>3, <1>4, <1>5, <1>6 DEF Known, Named
<1> QED
  BY <1>6, <1>7, NothingLearnt

LEMMA UploadInvNext == TypeOK /\ UploadInv /\ [Next]_vars => UploadInv'
<1> SUFFICES ASSUME TypeOK, UploadInv, [Next]_vars PROVE UploadInv'
  OBVIOUS
<1>1. CASE Next
  BY <1>1, UploadUserStep, UploadLoadStep, UploadStorageStep, UploadLookupStep,
     UploadLinkStep DEF Next
<1>2. CASE UNCHANGED vars
  <2>1. \A x : Known(x)' = Known(x)
    BY <1>2 DEF vars, docVars, sessionVars, Known, Named, Queued, Held
  <2> HIDE DEF Known
  <2> QED
    BY <1>2, <2>1, NothingLearnt DEF vars
<1> QED
  BY <1>1, <1>2

-----------------------------------------------------------------------------
(* What follows of uploads *)

LEMMA UploadsStayUnknown ==
  ASSUME TypeOK, UploadInv
  PROVE  LinkedAfterStored /\ NeverErasesUnlinked
<1>1. ASSUME NEW x \in Linked \cup Pending \cup Singletons PROVE x \in taken
  <2>1. CASE x \in Linked
    BY <2>1 DEF Linked, TypeOK, UploadInv, Known, Named
  <2>2. CASE x \in Pending
    <3>1. Queued(x)
      BY <2>2 DEF Pending, Queued
    <3>2. x \in Picture
      <4>1. PICK d \in Device, a \in Account, u \in User :
              \E i \in DOMAIN links[d][a][u] : links[d][a][u][i].val = x
        BY <3>1 DEF Queued
      <4>2. PICK i \in DOMAIN links[d][a][u] : links[d][a][u][i].val = x
        BY <4>1
      <4>3. links[d][a][u][i] \in LinkRecord
        BY ElementOf DEF TypeOK
      <4> QED
        BY <4>2, <4>3 DEF LinkRecord
    <3> QED
      BY <3>1, <3>2 DEF UploadInv, Known, Named
  <2>3. CASE x \in Singletons
    <3>1. x \in Picture
      BY <2>3 DEF Singletons, TypeOK, SessionTypeOK
    <3> QED
      BY <2>3, <3>1 DEF Singletons, UploadInv, Known, Named, Held
  <2> QED
    BY <2>1, <2>2, <2>3
<1>2. ASSUME NEW q \in puts \cup lookups PROVE q.pic \notin erases
  BY DEF UploadInv, Known
<1> QED
  BY <1>1, <1>2 DEF LinkedAfterStored, NeverErasesUnlinked

LEMMA UploadsInvariant == Spec => [](TypeOK /\ UploadInv)
<1>1. Init => TypeOK /\ UploadInv
  BY TypeOKInit, UploadInvInit
<1>2. (TypeOK /\ UploadInv) /\ [Next]_vars => (TypeOK /\ UploadInv)'
  BY TypeOKNext, UploadInvNext
<1> QED
  BY <1>1, <1>2, PTL DEF Spec

\* Whatever uploads, sessions, phones and restarts cross, whichever requests fail
\* or are cut off, nobody links to or is shown a picture that Storage has not
\* taken (profileVC.storeProfilePic).
THEOREM LinksAreStored == Spec => []LinkedAfterStored
<1>1. TypeOK /\ UploadInv => LinkedAfterStored
  BY UploadsStayUnknown
<1> QED
  BY <1>1, UploadsInvariant, PTL

\* The deletion of the picture that the singleton names never hits one that is
\* still on its way to a profile (profileVC.storeProfilePic).
THEOREM DeletionsAreOfLinked == Spec => []NeverErasesUnlinked
<1>1. TypeOK /\ UploadInv => NeverErasesUnlinked
  BY UploadsStayUnknown
<1> QED
  BY <1>1, UploadsInvariant, PTL

-----------------------------------------------------------------------------
(* Patient histories: types and uploads *)

\* A step of a patient history is a step of ProfilePicture.
LEMMA PatientStepIsNext == PatientStep => Next
BY DEF PatientStep, Next

LEMMA StepIsNext == Step => Next /\ patient' = patient
BY PatientStepIsNext DEF Step

LEMMA HistoryUploads == Histories => [](TypeOK /\ UploadInv)
<1>1. EitherInit => TypeOK /\ UploadInv
  BY TypeOKInit, UploadInvInit DEF EitherInit
<1>2. TypeOK /\ UploadInv /\ [Step]_<<vars, patient>> => TypeOK' /\ UploadInv'
  BY StepIsNext, TypeOKNext, UploadInvNext DEF vars
<1> QED
  BY <1>1, <1>2, PTL DEF Histories

-----------------------------------------------------------------------------
(* Patient histories: one request at a time *)

NoLinks == \A d \in Device, a \in Account, u \in User : links[d][a][u] = <<>>

\* What a user's profile shows.
shown == [u \in User |-> IF profilePicURL[u] = NotSet THEN NoPicture ELSE profilePicURL[u]]

\* The pictures that the other profiles link to.
Others(u) == {profilePicURL[v] : v \in User \ {u}} \ {NotSet}

OwnPhone == \A d \in Device : auth[d] # Nobody => PhoneOf[auth[d]] = d

OwnPicture ==
  \A u, v \in User : profilePicURL[u] = profilePicURL[v] => u = v \/ profilePicURL[u] = NotSet

\* Phone d shows its user's picture.
Ready(d) == auth[d] # Nobody => info[d] = [email |-> auth[d], field |-> shown[auth[d]]]

\* Storage has the pictures in use and those whose deletion is on its way.
MediaIs(inUse) == media = inUse \cup erases /\ erases \cap inUse = {}

\* Nothing is under way but, perhaps, deletions.
AtRest ==
  /\ loads = {} /\ puts = {} /\ lookups = {} /\ NoLinks
  /\ \A d \in Device : Ready(d)
  /\ MediaIs(Linked)

\* Phone d is loading its user's picture.
Loading(d) ==
  /\ \E l \in loads :
       /\ loads = {l} /\ l.dev = d /\ l.email = auth[d]
       /\ l.answered => l.field = profilePicURL[l.email]
  /\ info[d] = ClearedInfo
  /\ puts = {} /\ lookups = {} /\ erases = {} /\ NoLinks
  /\ \A e \in Device \ {d} : Ready(e)
  /\ media = Linked

\* Phone d is putting a picture in Storage.
Putting(d) ==
  /\ auth[d] # Nobody
  /\ \E q \in puts :
       /\ puts = {q} /\ q.dev = d
       /\ media = Linked \cup (IF q.stored THEN {q.pic} ELSE {})
  /\ loads = {} /\ lookups = {} /\ erases = {} /\ NoLinks
  /\ \A e \in Device : Ready(e)

\* Picture pic is in Storage and takes the place of the old one of d's user.
Replacing(d, pic) ==
  /\ auth[d] # Nobody /\ info[d].email = auth[d]
  /\ loads = {} /\ puts = {}
  /\ \A e \in Device \ {d} : Ready(e)
  /\ MediaIs(Others(auth[d]) \cup {pic})

Looking(d) ==
  /\ \E q \in lookups : lookups = {q} /\ q.dev = d /\ q.email = auth[d] /\ Replacing(d, q.pic)
  /\ NoLinks

Writing(d) ==
  \E pic \in Picture :
    /\ Replacing(d, pic) /\ pic \notin Others(auth[d])
    /\ lookups = {}
    /\ \A e \in Device, a \in Account, u \in User :
         links[e][a][u] = IF e = d /\ a = auth[d] /\ u = auth[d]
                            THEN <<[val |-> pic, attached |-> TRUE]>> ELSE <<>>

InPhase == AtRest \/ \E d \in Device : Loading(d) \/ Putting(d) \/ Looking(d) \/ Writing(d)

\* What makes the properties of patient histories inductive: a picture passes
\* through one request at a time, and the old one leaves beside it.
PatientInv == OwnPhone /\ OwnPicture /\ InPhase

\* What happens to nothing that phones show or profiles say.
LEMMA SameReady ==
  UNCHANGED <<auth, info, profilePicURL>> =>
    /\ shown' = shown /\ Linked' = Linked
    /\ \A d \in Device : Ready(d) => Ready(d)'
    /\ \A u : Others(u)' = Others(u)
    /\ OwnPicture => OwnPicture'
    /\ OwnPhone => OwnPhone'
BY DEF shown, Linked, Ready, Others, OwnPicture, OwnPhone

LEMMA SameNoLinks == NoLinks /\ links' = links => NoLinks'
BY DEF NoLinks

\* Whoever is signed in has an account.
LEMMA UserOf ==
  ASSUME TypeOK, NEW d \in Device
  PROVE  /\ auth[d] \in Account
         /\ auth[d] # Nobody => auth[d] \in User
         /\ info \in [Device -> [email : Email, field : Value]]
BY DEF TypeOK, SessionTypeOK, Account, Value

LEMMA QuietAtRest ==
  ASSUME TypeOK, InPhase, AllQuiet
  PROVE  AtRest /\ media = Linked
<1>1. ASSUME NEW d \in Device, Loading(d) \/ Putting(d) \/ Looking(d) PROVE FALSE
  BY <1>1 DEF Loading, Putting, Looking, AllQuiet
<1>2. ASSUME NEW d \in Device, Writing(d) PROVE FALSE
  <2>1. PICK pic \in Picture : Replacing(d, pic) /\ \A e \in Device, a \in Account, u \in User :
          links[e][a][u] = IF e = d /\ a = auth[d] /\ u = auth[d]
                             THEN <<[val |-> pic, attached |-> TRUE]>> ELSE <<>>
    BY <1>2 DEF Writing
  <2>2. auth[d] \in User /\ auth[d] \in Account
    BY <2>1, UserOf DEF Replacing
  <2>3. links[d][auth[d]][auth[d]] = <<[val |-> pic, attached |-> TRUE]>>
    BY <2>1, <2>2
  <2>4. links[d][auth[d]][auth[d]] = <<>>
    BY <2>2 DEF AllQuiet
  <2>5. \A w : <<w>> # <<>>
    OBVIOUS
  <2> QED
    BY <2>3, <2>4, <2>5, Zenon
<1>3. AtRest
  BY <1>1, <1>2 DEF InPhase
<1> QED
  BY <1>3 DEF AtRest, MediaIs, AllQuiet

LEMMA PatientInit == Init => PatientInv
<1> SUFFICES ASSUME Init PROVE PatientInv
  OBVIOUS
<1>1. OwnPhone /\ OwnPicture /\ NoLinks /\ \A d \in Device : Ready(d)
  BY DEF Init, SessionInit, OwnPhone, OwnPicture, NoLinks, Ready
<1>2. MediaIs(Linked)
  BY DEF Init, MediaIs, Linked
<1> QED
  BY <1>1, <1>2 DEF PatientInv, InPhase, AtRest, Init, SessionInit

LEMMA PatientComes ==
  ASSUME TypeOK, PatientInv, AllQuiet, NEW d \in Device, ComeAndGo(d),
         \A u \in User : auth'[d] = u => PhoneOf[u] = d
  PROVE  PatientInv'
<1>0. /\ UNCHANGED <<profilePicURL, media, puts, erases, lookups, links>>
      /\ shown' = shown /\ Linked' = Linked
      /\ AtRest /\ media = Linked /\ OwnPhone /\ OwnPicture
  BY QuietAtRest DEF ComeAndGo, docVars, shown, Linked, PatientInv
<1>1. /\ auth \in [Device -> Account] /\ info \in [Device -> [email : Email, field : Value]]
      /\ loads = {} /\ puts = {} /\ lookups = {} /\ erases = {} /\ NoLinks
  BY <1>0 DEF TypeOK, SessionTypeOK, AtRest, AllQuiet, Value
<1>2. OwnPicture' /\ NoLinks'
  BY <1>0, <1>1, SameNoLinks DEF OwnPicture
<1>3. ASSUME NEW u \in User, auth' = [auth EXCEPT ![d] = u], GetUserInfo(d, u, loads)
      PROVE  OwnPhone' /\ Loading(d)'
  <2>1. \A e \in Device : auth'[e] = IF e = d THEN u ELSE auth[e]
    BY <1>1, <1>3
  <2>2. OwnPhone'
    BY <1>0, <2>1 DEF OwnPhone
  <2>3. \A e \in Device : info'[e] = IF e = d THEN ClearedInfo ELSE info[e]
    BY <1>1, <1>3 DEF GetUserInfo
  <2> DEFINE l == [n |-> appeared, dev |-> d, email |-> u, answered |-> FALSE, field |-> NotSet]
  <2>4. loads' = {l} /\ l.dev = d /\ l.email = u /\ ~l.answered
    BY <1>1, <1>3 DEF GetUserInfo
  <2> HIDE DEF l
  <2>5. \E k \in loads' : loads' = {k} /\ k.dev = d /\ k.email = auth'[d] /\ ~k.answered
    BY <2>1, <2>4
  <2>6. \A e \in Device \ {d} : Ready(e)'
    BY <1>0, <2>1, <2>3 DEF AtRest, Ready
  <2> QED
    BY <1>0, <1>1, <1>2, <2>2, <2>3, <2>5, <2>6 DEF Loading, ClearedInfo
<1>4. CASE \E u \in User : SignIn(d, u)
  BY <1>2, <1>3, <1>4 DEF SignIn, InPhase, PatientInv
<1>5. CASE MapAppears(d)
  <2>1. auth[d] \in User /\ auth' = [auth EXCEPT ![d] = auth[d]]
    BY <1>1, <1>5 DEF MapAppears, Account
  <2> QED
    BY <1>2, <1>3, <1>5, <2>1 DEF MapAppears, InPhase, PatientInv
<1>6. CASE SignOut(d)
  <2>1. /\ UNCHANGED <<info, loads>>
        /\ \A e \in Device : auth'[e] = IF e = d THEN Nobody ELSE auth[e]
    BY <1>1, <1>6 DEF SignOut
  <2>2. OwnPhone'
    BY <1>0, <2>1 DEF OwnPhone
  <2>3. \A e \in Device : Ready(e)'
    BY <1>0, <2>1 DEF AtRest, Ready
  <2>4. AtRest'
    BY <1>0, <1>1, <1>2, <2>1, <2>3 DEF AtRest, MediaIs
  <2> QED
    BY <1>2, <2>2, <2>4 DEF InPhase, PatientInv
<1> QED
  BY <1>4, <1>5, <1>6 DEF ComeAndGo

LEMMA PatientPick ==
  ASSUME TypeOK, PatientInv, AllQuiet, NEW d \in Device, NEW pic \in Picture, Pick(d, pic)
  PROVE  PatientInv'
<1>1. AtRest /\ media = Linked
  BY QuietAtRest DEF PatientInv
<1>2. UNCHANGED <<auth, info, loads, profilePicURL, media, erases, lookups, links>> /\ auth[d] # Nobody
  BY DEF Pick, sessionVars, docVars
<1> DEFINE q == [pic |-> pic, dev |-> d, stored |-> FALSE]
<1>3. puts' = {q} /\ q.dev = d /\ ~q.stored
  BY <1>1 DEF Pick, AtRest
<1> HIDE DEF q
<1>4. \E r \in puts' : /\ puts' = {r} /\ r.dev = d
                       /\ media' = Linked' \cup (IF r.stored THEN {r.pic} ELSE {})
  BY <1>1, <1>2, <1>3, SameReady
<1>5. Putting(d)'
  BY <1>1, <1>2, <1>4, SameReady, SameNoLinks DEF AtRest, AllQuiet, Putting
<1> QED
  BY <1>2, <1>5, SameReady DEF PatientInv, InPhase

LEMMA PatientLoad ==
  ASSUME TypeOK, PatientInv, NEW l \in loads, Load(l), ~LoadFails(l)
  PROVE  PatientInv'
<1>1. PICK d \in Device : Loading(d)
  BY DEF PatientInv, InPhase, AtRest, Putting, Looking, Writing, Replacing
<1>2. /\ loads = {l} /\ l.dev = d /\ l.email = auth[d] /\ l \in LoadRecord(Value)
      /\ l.answered => l.field = profilePicURL[auth[d]]
      /\ auth[d] \in User /\ auth[d] \in Account /\ auth[d] # Nobody
      /\ info \in [Device -> [email : Email, field : Value]]
  BY <1>1, SessionAssumption DEF Loading, TypeOK, SessionTypeOK, LoadRecord, Account, Value
<1>3. UNCHANGED <<auth, profilePicURL, media, puts, erases, lookups, links>>
  BY DEF Load, docVars, AnswerLoad, LoadArrives, LoadFails
<1>4. /\ shown' = shown /\ Linked' = Linked /\ NoLinks' /\ puts' = {} /\ lookups' = {} /\ erases' = {}
      /\ media' = Linked'
  BY <1>1, <1>3, SameNoLinks DEF Loading, shown, Linked
<1>5. OwnPhone' /\ OwnPicture'
  BY <1>3 DEF PatientInv, OwnPhone, OwnPicture
<1>6. CASE AnswerLoad(l, SeenPicture(l.dev, l.email))
  <2>1. SeenPicture(l.dev, l.email) = profilePicURL[auth[d]]
    BY <1>1, <1>2 DEF SeenPicture, Overlay, Loading, NoLinks
  <2> DEFINE k == [l EXCEPT !.answered = TRUE, !.field = profilePicURL[auth[d]]]
  <2>2. loads' = {k} /\ UNCHANGED info
    BY <1>2, <1>6, <2>1 DEF AnswerLoad
  <2>3. k.dev = d /\ k.email = auth[d] /\ k.field = profilePicURL[auth[d]]
    BY <1>2 DEF LoadRecord
  <2> HIDE DEF k
  <2>4. \A e \in Device \ {d} : Ready(e)'
    BY <1>1, <1>3, <1>4, <2>2 DEF Loading, Ready
  <2>5. \E j \in loads' : /\ loads' = {j} /\ j.dev = d /\ j.email = auth'[d]
                          /\ j.answered => j.field = profilePicURL'[j.email]
    BY <1>3, <2>2, <2>3
  <2>6. info'[d] = ClearedInfo
    BY <1>1, <2>2 DEF Loading
  <2>7. Loading(d)'
    BY <1>4, <2>4, <2>5, <2>6 DEF Loading, ClearedInfo
  <2> QED
    BY <1>5, <2>7 DEF InPhase, PatientInv
<1>7. CASE LoadArrives(l)
  <2>1. l.answered /\ loads' = {}
    BY <1>2, <1>7 DEF LoadArrives
  <2>2. info[d] = [email |-> Nobody, field |-> NoPicture]
    BY <1>1, PictureAssumption DEF Loading, ClearedInfo
  <2> DEFINE value == IF l.field = NotSet THEN info[d].field ELSE l.field
  <2>3. info' = [info EXCEPT ![d].email = auth[d], ![d].field = value]
    BY <1>2, <1>7 DEF LoadArrives
  <2>4. value = shown[auth[d]]
    BY <1>2, <2>1, <2>2 DEF shown
  <2> HIDE DEF value
  <2>5. /\ \A e \in Device \ {d} : info'[e] = info[e]
        /\ info'[d] = [email |-> auth[d], field |-> value]
    BY <1>2, <2>2, <2>3
  <2>6. \A e \in Device : Ready(e)'
    BY <1>1, <1>3, <1>4, <2>4, <2>5 DEF Loading, Ready
  <2>7. AtRest'
    BY <1>4, <2>1, <2>6 DEF AtRest, MediaIs
  <2> QED
    BY <1>5, <2>7 DEF InPhase, PatientInv
<1> QED
  BY <1>6, <1>7 DEF Load

\* Storage takes the picture.
LEMMA PatientPut ==
  ASSUME TypeOK, PatientInv, NEW q \in puts, PutDone(q)
  PROVE  PatientInv'
<1>1. PICK d \in Device : Putting(d)
  BY DEF PatientInv, InPhase, AtRest, Loading, Looking, Writing, Replacing
<1>2. UNCHANGED <<auth, info, loads, profilePicURL, erases, lookups, links>>
  BY DEF PutDone, sessionVars
<1> DEFINE r == [q EXCEPT !.stored = TRUE]
<1>3. puts = {q} /\ q.dev = d /\ media = Linked /\ ~q.stored
  BY <1>1 DEF Putting, PutDone
<1>4. puts' = {r} /\ media' = media \cup {q.pic}
  BY <1>3 DEF PutDone
<1>5. r.dev = d /\ r.pic = q.pic /\ r.stored
  BY <1>3 DEF TypeOK, PutRecord
<1> HIDE DEF r
<1>6. \E p \in puts' : /\ puts' = {p} /\ p.dev = d
                       /\ media' = Linked' \cup (IF p.stored THEN {p.pic} ELSE {})
  BY <1>2, <1>3, <1>4, <1>5, SameReady
<1>7. Putting(d)'
  BY <1>1, <1>2, <1>6, SameReady, SameNoLinks DEF Putting
<1> QED
  BY <1>2, <1>7, SameReady DEF PatientInv, InPhase

\* What is linked is one's own picture and those of others.
LEMMA LinkedParts ==
  ASSUME TypeOK, NEW u \in User
  PROVE  Linked = Others(u) \cup ({profilePicURL[u]} \ {NotSet})
BY DEF Linked, Others

\* The old picture's deletion is sent, and the document looked up.
LEMMA PatientUrl ==
  ASSUME TypeOK, PatientInv, UploadInv, NEW q \in puts, UrlArrives(q)
  PROVE  PatientInv'
<1>1. PICK d \in Device : Putting(d)
  BY DEF PatientInv, InPhase, AtRest, Loading, Looking, Writing, Replacing
<1> DEFINE u == auth[d]
<1>2. UNCHANGED <<auth, info, loads, profilePicURL, media, links>>
  BY DEF UrlArrives, sessionVars, docVars
<1>3. /\ puts = {q} /\ q.dev = d /\ media = Linked \cup {q.pic} /\ q.pic \in Picture
      /\ u # Nobody /\ u \in User
      /\ info[d] = [email |-> u, field |-> shown[u]]
  BY <1>1, UserOf DEF Putting, UrlArrives, Ready, TypeOK, PutRecord
<1>4. /\ puts' = {} /\ lookups' = {[pic |-> q.pic, dev |-> d, email |-> u]}
      /\ erases' = IF shown[u] = NoPicture THEN {} ELSE {shown[u]}
  BY <1>1, <1>3 DEF UrlArrives, Putting
<1>5. q.pic \notin Linked
  BY <1>3 DEF UploadInv, Known, Named, Linked
<1>6. erases' = {profilePicURL[u]} \ {NotSet}
  BY <1>3, <1>4, PictureAssumption DEF shown, TypeOK
<1>7. Others(u) \cap {profilePicURL[u]} = {}
  BY <1>3 DEF Others, PatientInv, OwnPicture
<1>8. /\ media' = (Others(u) \cup {q.pic}) \cup erases'
      /\ erases' \cap (Others(u) \cup {q.pic}) = {}
  BY <1>2, <1>3, <1>5, <1>6, <1>7, LinkedParts
<1>9. Others(u)' = Others(u)
  BY <1>2 DEF Others
<1>10. ASSUME NEW pic, pic = q.pic PROVE Replacing(d, pic)'
  BY <1>1, <1>2, <1>3, <1>4, <1>8, <1>9, <1>10, SameReady DEF Replacing, MediaIs, Putting
<1>11. ASSUME NEW r, r = [pic |-> q.pic, dev |-> d, email |-> u]
       PROVE  lookups' = {r} /\ r.dev = d /\ r.email = auth'[d] /\ Replacing(d, r.pic)'
  BY <1>2, <1>4, <1>10, <1>11
<1>12. Looking(d)'
  BY <1>1, <1>2, <1>4, <1>11, SameNoLinks DEF Looking, Putting
<1> QED
  BY <1>2, <1>12, SameReady DEF PatientInv, InPhase

\* A deletion is carried out.
LEMMA PatientErase ==
  ASSUME TypeOK, PatientInv, NEW pic \in erases, EraseDone(pic)
  PROVE  PatientInv'
<1>1. /\ UNCHANGED <<auth, info, loads, profilePicURL, puts, lookups, links>>
      /\ erases' = erases \ {pic} /\ media' = media \ {pic}
  BY DEF EraseDone, sessionVars
<1>2. ASSUME NEW S, MediaIs(S)
      PROVE  media' = S \cup erases' /\ erases' \cap S = {}
  BY <1>1, <1>2 DEF MediaIs
<1>3. CASE AtRest
  <2>1. MediaIs(Linked)'
    BY <1>1, <1>2, <1>3, SameReady DEF AtRest, MediaIs
  <2>2. AtRest'
    BY <1>1, <1>3, <2>1, SameReady, SameNoLinks DEF AtRest
  <2> QED
    BY <1>1, <2>2, SameReady DEF PatientInv, InPhase
<1>4. ASSUME NEW d \in Device, NEW p, Replacing(d, p) PROVE Replacing(d, p)'
  <2>1. MediaIs(Others(auth[d]) \cup {p})
    BY <1>4 DEF Replacing
  <2>2. Others(auth[d])' = Others(auth[d])
    BY <1>1 DEF Others
  <2>3. MediaIs(Others(auth[d]) \cup {p})'
    BY <1>2, <2>1, <2>2 DEF MediaIs
  <2> QED
    BY <1>1, <1>4, <2>3, SameReady DEF Replacing
<1>5. ASSUME NEW d \in Device, Looking(d) PROVE PatientInv'
  <2>1. PICK q \in lookups : lookups = {q} /\ q.dev = d /\ q.email = auth[d] /\ Replacing(d, q.pic)
    BY <1>5 DEF Looking
  <2>2. Replacing(d, q.pic)'
    <3>1. ASSUME NEW p, p = q.pic PROVE Replacing(d, p)'
      BY <1>4, <2>1, <3>1
    <3> QED
      BY <1>1, <2>1, <3>1
  <2>3. Looking(d)'
    BY <1>1, <1>5, <2>1, <2>2, SameNoLinks DEF Looking
  <2> QED
    BY <1>1, <2>3, SameReady DEF PatientInv, InPhase
<1>6. ASSUME NEW d \in Device, Writing(d) PROVE PatientInv'
  <2>1. PICK p \in Picture :
          /\ Replacing(d, p) /\ p \notin Others(auth[d]) /\ lookups = {}
          /\ \A e \in Device, a \in Account, u \in User :
               links[e][a][u] = IF e = d /\ a = auth[d] /\ u = auth[d]
                                  THEN <<[val |-> p, attached |-> TRUE]>> ELSE <<>>
    BY <1>6 DEF Writing
  <2>2. Others(auth[d])' = Others(auth[d])
    BY <1>1 DEF Others
  <2>3. Writing(d)'
    BY <1>1, <1>4, <2>1, <2>2 DEF Writing
  <2> QED
    BY <1>1, <2>3, SameReady DEF PatientInv, InPhase
<1>7. ASSUME NEW d \in Device, Loading(d) \/ Putting(d) PROVE FALSE
  BY <1>7 DEF Loading, Putting
<1> QED
  BY <1>3, <1>5, <1>6, <1>7 DEF PatientInv, InPhase

\* The link is queued.
LEMMA PatientLookup ==
  ASSUME TypeOK, PatientInv, UploadInv, NEW q \in lookups, LookupArrives(q)
  PROVE  PatientInv'
<1>1. PICK d \in Device : Looking(d)
  BY DEF PatientInv, InPhase, AtRest, Loading, Putting, Writing
<1> DEFINE u == auth[d]
           w == [val |-> q.pic, attached |-> TRUE]
<1>2. lookups = {q} /\ q.dev = d /\ q.email = u /\ Replacing(d, q.pic) /\ NoLinks
  BY <1>1 DEF Looking
<1>3. u \in User /\ u \in Account /\ u # Nobody /\ q.pic \in Picture
  BY <1>2, UserOf DEF Replacing, TypeOK, LookupRecord
<1>4. UNCHANGED <<auth, info, loads, profilePicURL, media, puts, erases>> /\ lookups' = {}
  BY <1>2 DEF LookupArrives, sessionVars, docVars
<1>5. links' = [links EXCEPT ![d][u][u] = Append(@, w)]
  BY <1>2, <1>3 DEF LookupArrives
<1>6. links[d][u][u] = <<>> /\ Append(<<>>, w) = <<w>>
  BY <1>2, <1>3 DEF NoLinks
<1> HIDE DEF w
<1>7. \A e \in Device, a \in Account, v \in User :
        links'[e][a][v] = IF e = d /\ a = u /\ v = u THEN <<w>> ELSE <<>>
  BY <1>2, <1>3, <1>5, <1>6 DEF TypeOK, NoLinks
<1>8. q.pic \notin Others(u) /\ Others(u)' = Others(u)
  BY <1>3, <1>4 DEF UploadInv, Known, Named, Others
<1>9. ASSUME NEW p \in Picture, p = q.pic PROVE Writing(d)'
  <2>1. Others(auth[d])' = Others(auth[d])
    BY <1>4 DEF Others
  <2>2. MediaIs(Others(auth[d]) \cup {p})
    BY <1>2, <1>9 DEF Replacing
  <2>3. MediaIs(Others(auth[d]) \cup {p})'
    BY <1>4, <2>1, <2>2 DEF MediaIs
  <2>4. Replacing(d, p)'
    BY <1>2, <1>4, <2>3, SameReady DEF Replacing
  <2>5. p \notin Others(auth[d])'
    BY <1>8, <1>9, <2>1
  <2>6. \A e \in Device, a \in Account, v \in User :
          links'[e][a][v] = IF e = d /\ a = auth'[d] /\ v = auth'[d]
                              THEN <<[val |-> p, attached |-> TRUE]>> ELSE <<>>
    BY <1>4, <1>7, <1>9 DEF w
  <2> QED
    BY <1>4, <2>4, <2>5, <2>6 DEF Writing
<1>10. Writing(d)'
  BY <1>3, <1>9
<1> QED
  BY <1>4, <1>10, SameReady DEF PatientInv, InPhase

\* The profile links to the picture, and the singleton follows.
LEMMA PatientLink ==
  ASSUME TypeOK, PatientInv, NEW d \in Device, NEW u \in User, CommitLink(d, u)
  PROVE  PatientInv'
<1>1. auth[d] \in Account /\ links[d][auth[d]][u] # <<>>
  BY UserOf DEF CommitLink
<1>2. PICK e \in Device : Writing(e)
  BY <1>1 DEF PatientInv, InPhase, AtRest, Loading, Putting, Looking, NoLinks
<1>3. PICK pic \in Picture :
        /\ Replacing(e, pic) /\ pic \notin Others(auth[e]) /\ lookups = {}
        /\ \A k \in Device, a \in Account, v \in User :
             links[k][a][v] = IF k = e /\ a = auth[e] /\ v = auth[e]
                                THEN <<[val |-> pic, attached |-> TRUE]>> ELSE <<>>
  BY <1>2 DEF Writing
<1> DEFINE w == [val |-> pic, attached |-> TRUE]
<1>4. e = d /\ u = auth[d] /\ links[d][u][u] = <<w>> /\ u # Nobody
  BY <1>1, <1>3 DEF Replacing
<1>5. /\ \A k \in Device, a \in Account, v \in User :
           links[k][a][v] = IF k = d /\ a = u /\ v = u THEN <<w>> ELSE <<>>
      /\ loads = {} /\ puts = {} /\ info[d].email = u
      /\ \A k \in Device \ {d} : Ready(k)
      /\ MediaIs(Others(u) \cup {pic}) /\ pic \notin Others(u)
  BY <1>3, <1>4 DEF Replacing
<1>6. Head(<<w>>) = w /\ Tail(<<w>>) = <<>> /\ w.val = pic /\ w.attached
  OBVIOUS
<1>7. /\ UNCHANGED <<auth, loads, media, puts, erases, lookups>>
      /\ profilePicURL' = [profilePicURL EXCEPT ![u] = pic]
      /\ \/ links' = [links EXCEPT ![d][u][u] = <<>>] /\ info' = [info EXCEPT ![d].field = pic]
         \/ UNCHANGED <<links, info>>
  BY <1>4, <1>6 DEF CommitLink, Shown
<1> HIDE DEF w
<1>8. pic # NotSet /\ \A v \in User : profilePicURL'[v] = IF v = u THEN pic ELSE profilePicURL[v]
  BY <1>7, PictureAssumption DEF TypeOK
<1>9. OwnPhone' /\ OwnPicture' /\ Others(u)' = Others(u) /\ Linked' = Others(u) \cup {pic}
  <2>1. OwnPhone'
    BY <1>7 DEF PatientInv, OwnPhone
  <2>2. \A v \in User \ {u} : profilePicURL[v] # pic
    BY <1>5, <1>8 DEF Others
  <2>3. OwnPicture'
    BY <1>8, <2>2 DEF PatientInv, OwnPicture
  <2>4. Others(u)' = Others(u)
    BY <1>8 DEF Others
  <2>5. Linked' = Others(u) \cup {pic}
    BY <1>8 DEF Others, Linked
  <2> QED
    BY <2>1, <2>3, <2>4, <2>5
<1>10. ASSUME NEW k \in Device \ {d}, info'[k] = info[k] PROVE Ready(k)'
  <2>1. auth[k] # Nobody => auth[k] \in User /\ auth[k] # u
    BY <1>4, UserOf DEF PatientInv, OwnPhone
  <2>2. auth[k] # Nobody => shown'[auth[k]] = shown[auth[k]]
    BY <1>8, <2>1 DEF shown
  <2> QED
    BY <1>5, <1>7, <1>10, <2>2 DEF Ready
<1>11. MediaIs(Others(u) \cup {pic})'
  BY <1>5, <1>7, <1>9 DEF MediaIs
<1>12. CASE UNCHANGED <<links, info>>
  <2>1. Replacing(d, pic)'
    BY <1>4, <1>5, <1>7, <1>9, <1>10, <1>11, <1>12 DEF Replacing, MediaIs
  <2>2. pic \notin Others(auth[d])' /\ lookups' = {}
    BY <1>3, <1>4, <1>5, <1>7, <1>9
  <2>3. \A k \in Device, a \in Account, v \in User :
          links'[k][a][v] = IF k = d /\ a = auth'[d] /\ v = auth'[d]
                              THEN <<[val |-> pic, attached |-> TRUE]>> ELSE <<>>
    BY <1>4, <1>5, <1>7, <1>12 DEF w
  <2>4. Writing(d)'
    BY <2>1, <2>2, <2>3 DEF Writing
  <2> QED
    BY <1>9, <2>4 DEF PatientInv, InPhase
<1>13. CASE links' = [links EXCEPT ![d][u][u] = <<>>] /\ info' = [info EXCEPT ![d].field = pic]
  <2>1. NoLinks'
    BY <1>1, <1>4, <1>5, <1>13 DEF NoLinks, TypeOK
  <2>2. info \in [Device -> [email : Email, field : Value]]
    BY UserOf
  <2>3. /\ \A k \in Device \ {d} : info'[k] = info[k]
        /\ info'[d] = [email |-> u, field |-> pic]
    BY <1>5, <1>13, <2>2
  <2>4. shown'[u] = pic
    BY <1>8 DEF shown
  <2>5. \A k \in Device : Ready(k)'
    BY <1>4, <1>7, <1>10, <2>3, <2>4 DEF Ready
  <2>6. MediaIs(Linked)'
    BY <1>9, <1>11 DEF MediaIs
  <2>7. AtRest'
    BY <1>3, <1>5, <1>7, <2>1, <2>5, <2>6 DEF AtRest
  <2> QED
    BY <1>9, <2>7 DEF PatientInv, InPhase
<1> QED
  BY <1>7, <1>12, <1>13

LEMMA PatientNext == TypeOK /\ PatientInv /\ UploadInv /\ PatientStep => PatientInv'
BY PatientComes, PatientPick, PatientLoad, PatientPut, PatientUrl, PatientErase, PatientLookup,
   PatientLink DEF PatientStep

LEMMA PatientStutter ==
  ASSUME PatientInv, UNCHANGED vars
  PROVE  PatientInv'
<1>1. UNCHANGED <<auth, info, loads, profilePicURL, media, puts, erases, lookups, links>>
  BY DEF vars, sessionVars, docVars
<1>2. ASSUME NEW S, NEW T, MediaIs(S), T = S PROVE media' = T \cup erases' /\ erases' \cap T = {}
  BY <1>1, <1>2 DEF MediaIs
<1>3. \A d \in Device : \A p : Replacing(d, p) => Replacing(d, p)'
  <2> SUFFICES ASSUME NEW d \in Device, NEW p, Replacing(d, p) PROVE Replacing(d, p)'
    OBVIOUS
  <2>1. MediaIs(Others(auth[d]) \cup {p})'
    BY <1>1 DEF Replacing, MediaIs, Others
  <2> QED
    BY <1>1, <2>1, SameReady DEF Replacing
<1>4. AtRest => AtRest'
  BY <1>1, SameReady, SameNoLinks DEF AtRest, MediaIs
<1>5. \A d \in Device : (Loading(d) => Loading(d)') /\ (Putting(d) => Putting(d)')
  BY <1>1, SameReady, SameNoLinks DEF Loading, Putting, ClearedInfo
<1>6. ASSUME NEW d \in Device, Looking(d) PROVE Looking(d)'
  <2>1. PICK q \in lookups : lookups = {q} /\ q.dev = d /\ q.email = auth[d] /\ Replacing(d, q.pic)
    BY <1>6 DEF Looking
  <2>2. Replacing(d, q.pic)'
    BY <1>3, <2>1
  <2> QED
    BY <1>1, <1>6, <2>1, <2>2, SameNoLinks DEF Looking
<1>7. ASSUME NEW d \in Device, Writing(d) PROVE Writing(d)'
  <2>1. Others(auth[d])' = Others(auth[d])
    BY <1>1 DEF Others
  <2> QED
    BY <1>1, <1>3, <1>7, <2>1 DEF Writing
<1> QED
  BY <1>1, <1>4, <1>5, <1>6, <1>7, SameReady DEF PatientInv, InPhase

LEMMA PatientAlways == Histories => [](patient => PatientInv)
<1>1. EitherInit => (patient => PatientInv)
  BY PatientInit DEF EitherInit
<1>2. TypeOK /\ UploadInv /\ (patient => PatientInv) /\ [Step]_<<vars, patient>>
        => (patient => PatientInv)'
  BY PatientNext, PatientStutter DEF Step
<1> QED
  BY <1>1, <1>2, HistoryUploads, PTL DEF Histories

\* In a patient history, when nothing is outstanding, Storage holds the pictures
\* that profiles link to, which are the new ones ("must store profile picture in
\* firebase storage"), and no others ("if user has profile pic already - delete
\* it from storage", profileVC.storeProfilePic).
THEOREM StorageFollowsProfiles == Histories => []StorageMatchesProfiles
<1>1. TypeOK /\ (patient => PatientInv) => StorageMatchesProfiles
  BY QuietAtRest DEF PatientInv, StorageMatchesProfiles, LinkedIsStored, ReplacedIsErased
<1> QED
  BY <1>1, HistoryUploads, PatientAlways, PTL

=============================================================================
