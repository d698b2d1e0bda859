------------------------ MODULE PlaylistBoardProofs ------------------------
(***************************************************************************)
(* Proofs about PlaylistBoard, for any sets of phones, users, playlists,   *)
(* places and radii and any number of reloads, taps and edits.             *)
(***************************************************************************)
EXTENDS PlaylistBoard, SessionProofs, TLAPS

(* Type correctness *)

Value == Radius \cup {Initial}
Write == {"delete", "mark"}

CalmTyped == calm \in [Device -> BOOLEAN]

BoardTyped ==
  /\ view \in [Device -> Nat]
  /\ pins \in [Device -> [Playlist -> Nat]]
  /\ where \in [Device -> Place \cup {Unknown}]
  /\ boards \subseteq BoardRecord
  /\ reloads \in 0..MaxReloads

FindTyped ==
  /\ checks \subseteq [dev : Device, playlist : Playlist]
  /\ acts \in 0..MaxActs

EditTyped ==
  /\ mapRadius \in [User -> Radius \cup {NotSet}]
  /\ edits \subseteq [n : Nat, dev : Device, email : User]
  /\ radii \in Queues(User, RadiusRecord)

DocsTyped ==
  /\ docs \in [Playlist -> SUBSET Group]
  /\ expired \subseteq Playlist \ Master

\* TypeOK but for calm, by the component each part belongs to.
Typed ==
  /\ SessionTypeOK(Value)
  /\ DocsTyped
  /\ BoardTyped
  /\ FindTyped
  /\ writes \in Queues(Playlist, Write)
  /\ EditTyped

LEMMA TypeOKParts == TypeOK <=> Typed /\ CalmTyped
BY DEF TypeOK, Typed, CalmTyped, DocsTyped, BoardTyped, FindTyped, EditTyped, Value, Write, Queues

LEMMA BoardStutter == BoardTyped /\ UNCHANGED boardVars => BoardTyped'
BY DEF BoardTyped, boardVars, BoardRecord

LEMMA FindStutter == FindTyped /\ UNCHANGED findVars => FindTyped'
BY DEF FindTyped, findVars

LEMMA EditStutter == EditTyped /\ UNCHANGED editVars => EditTyped'
BY DEF EditTyped, editVars, Queues, RadiusRecord

LEMMA TypedInit == Init => TypeOK
<1> SUFFICES ASSUME Init PROVE TypeOK
  OBVIOUS
<1>1. SessionTypeOK(Value)
  BY SessionInitType DEF Init, Value
<1>2. 0 \in 0..MaxReloads /\ 0 \in 0..MaxActs
  BY BoardAssumption
<1>3. NoPins \in [Playlist -> Nat]
  BY DEF NoPins
<1>4. Typed
  BY <1>1, <1>2, <1>3, BoardAssumption
     DEF Init, Typed, DocsTyped, BoardTyped, FindTyped, EditTyped, Queues, Group
<1>5. CalmTyped
  BY DEF Init, CalmTyped
<1> QED
  BY <1>4, <1>5, TypeOKParts

\* Sending the two queries of a reload.
LEMMA AddAnnotationsType ==
  ASSUME NEW d \in Device, NEW v \in Nat, NEW others \in SUBSET boards,
         BoardTyped, AddAnnotations(d, v, others)
  PROVE  boards' \subseteq BoardRecord /\ reloads' \in 0..MaxReloads
<1>1. reloads \in Nat /\ reloads' \in 0..MaxReloads
  BY BoardAssumption DEF BoardTyped, AddAnnotations
<1>2. Master \in SUBSET Playlist
  BY BoardAssumption
<1>3. /\ [n |-> reloads, dev |-> d, view |-> v, coll |-> "masterPlaylists",
          answered |-> TRUE, found |-> Master] \in BoardRecord
      /\ [n |-> reloads, dev |-> d, view |-> v, coll |-> "userPlaylists",
          answered |-> FALSE, found |-> {}] \in BoardRecord
  BY <1>1, <1>2 DEF BoardRecord
<1> QED
  BY <1>1, <1>3 DEF BoardTyped, AddAnnotations

LEMMA OpenMapType ==
  ASSUME NEW d \in Device, NEW others \in SUBSET boards,
         BoardTyped, appeared' \in Nat, OpenMap(d, others)
  PROVE  BoardTyped'
<1>1. boards' \subseteq BoardRecord /\ reloads' \in 0..MaxReloads
  BY AddAnnotationsType DEF OpenMap
<1>2. NoPins \in [Playlist -> Nat]
  BY DEF NoPins
<1> QED
  BY <1>1, <1>2 DEF OpenMap, BoardTyped, BoardRecord

LEMMA UpdateAnnotationsType ==
  ASSUME NEW d \in Device, BoardTyped, UpdateAnnotations(d), UNCHANGED <<view, where>>
  PROVE  BoardTyped'
<1>1. view[d] \in Nat
  BY DEF BoardTyped
<1>2. boards' \subseteq BoardRecord /\ reloads' \in 0..MaxReloads
  BY <1>1, AddAnnotationsType DEF UpdateAnnotations
<1>3. NoPins \in [Playlist -> Nat]
  BY DEF NoPins
<1> QED
  BY <1>2, <1>3 DEF UpdateAnnotations, BoardTyped, BoardRecord

LEMMA TypedBoardStep == Typed /\ BoardStep => Typed'
<1> SUFFICES ASSUME Typed, BoardStep PROVE Typed'
  OBVIOUS
<1>1. ASSUME NEW d \in Device, ReloadClicked(d) \/ LocationUpdates(d) PROVE Typed'
  <2>1. BoardTyped'
    BY <1>1, UpdateAnnotationsType DEF Typed, ReloadClicked, LocationUpdates
  <2> QED
    BY <1>1, <2>1, SessionStutter, FindStutter, EditStutter
       DEF Typed, ReloadClicked, LocationUpdates, DocsTyped
<1>2. ASSUME NEW d \in Device, NEW place \in Place, MapLocates(d, place) PROVE Typed'
  <2>1. BoardTyped'
    BY <1>2 DEF Typed, MapLocates, BoardTyped, BoardRecord
  <2> QED
    BY <1>2, <2>1, SessionStutter, FindStutter, EditStutter DEF Typed, MapLocates, DocsTyped
<1>3. ASSUME NEW q \in boards, AnswerBoard(q) PROVE Typed'
  <2>1. q \in BoardRecord
    BY DEF Typed, BoardTyped
  <2>2. [q EXCEPT !.answered = TRUE, !.found = {p \in Playlist \ Master : SeesPin(q.dev, p)}]
          \in BoardRecord
    BY <2>1 DEF BoardRecord
  <2>3. BoardTyped'
    BY <1>3, <2>2 DEF Typed, AnswerBoard, BoardTyped, BoardRecord
  <2> QED
    BY <1>3, <2>3, SessionStutter, FindStutter, EditStutter DEF Typed, AnswerBoard, DocsTyped
<1>4. ASSUME NEW q \in boards, BoardArrives(q) PROVE Typed'
  <2> DEFINE d   == q.dev
             a   == auth[d]
             old == {p \in q.found : TooOld(d, p)}
             new == {p \in q.found \ old : p \in Master \/ Near(d, p)}
             queue(p) == IF p \in old THEN Append(writes[d][a][p], "delete")
                                      ELSE writes[d][a][p]
             count(p) == IF p \in new THEN pins[d][p] + 1 ELSE pins[d][p]
  <2>1. d \in Device /\ a \in Account
    BY DEF Typed, BoardTyped, BoardRecord, SessionTypeOK
  <2>2. \A p \in Playlist : queue(p) \in Seq(Write)
    <3>1. \A p \in Playlist : writes[d][a][p] \in Seq(Write)
      BY <2>1 DEF Typed, Queues
    <3>2. "delete" \in Write
      BY DEF Write
    <3> QED
      BY <3>1, <3>2, Enqueue
  <2>3. \A p \in Playlist : count(p) \in Nat
    BY <2>1 DEF Typed, BoardTyped
  <2>4. /\ writes' = [writes EXCEPT ![d][a] = [p \in Playlist |-> queue(p)]]
        /\ \/ pins' = pins
           \/ pins' = [pins EXCEPT ![d] = [p \in Playlist |-> count(p)]]
    BY <1>4 DEF BoardArrives
  <2> HIDE DEF queue, count
  <2>5. writes' \in Queues(Playlist, Write)
    BY <2>1, <2>2, <2>4 DEF Typed, Queues
  <2>6. BoardTyped'
    <3>1. pins' \in [Device -> [Playlist -> Nat]]
      <4>1. pins \in [Device -> [Playlist -> Nat]]
        BY DEF Typed, BoardTyped
      <4>2. [p \in Playlist |-> count(p)] \in [Playlist -> Nat]
        BY <2>3
      <4> QED
        BY <2>1, <2>4, <4>1, <4>2
    <3>2. boards' \subseteq boards
      BY <1>4 DEF BoardArrives
    <3>3. UNCHANGED <<view, where, reloads>>
      BY <1>4 DEF BoardArrives
    <3> QED
      BY <3>1, <3>2, <3>3 DEF Typed, BoardTyped
  <2> QED
    BY <1>4, <2>5, <2>6, SessionStutter, FindStutter, EditStutter
       DEF Typed, BoardArrives, DocsTyped
<1> QED
  BY <1>1, <1>2, <1>3, <1>4 DEF BoardStep

LEMMA TypedBoardFails ==
  ASSUME Typed, NEW q \in boards, BoardFails(q)
  PROVE  Typed'
<1>1. BoardTyped'
  BY DEF Typed, BoardFails, BoardTyped, BoardRecord
<1> QED
  BY <1>1, SessionStutter, FindStutter, EditStutter DEF Typed, BoardFails, DocsTyped

LEMMA DetachedRadius ==
  ASSUME NEW queue \in Seq(RadiusRecord)
  PROVE  Detached(queue) \in Seq(RadiusRecord)
<1>1. \A r \in RadiusRecord : [r EXCEPT !.attached = FALSE] \in RadiusRecord
  BY DEF RadiusRecord
<1> QED
  BY <1>1, DetachedType

LEMMA TypedSessionStep == Typed /\ SessionStep => Typed'
<1> SUFFICES ASSUME Typed, SessionStep PROVE Typed'
  OBVIOUS
<1>0. SessionTypeOK(Value) /\ Initial \in Value
  BY DEF Typed, Value
<1>1. ASSUME NEW d \in Device, ComeAndGo(d) PROVE Typed'
  <2>1. SessionTypeOK(Value)'
    BY <1>0, <1>1, SessionUserType DEF ComeAndGo
  <2>2. appeared' \in Nat
    BY <2>1 DEF SessionTypeOK
  <2>3. OpenMap(d, boards) \/ UNCHANGED boardVars
    BY <1>1 DEF ComeAndGo
  <2>4. BoardTyped'
    BY <2>2, <2>3, OpenMapType, BoardStutter DEF Typed
  <2> QED
    BY <1>1, <2>1, <2>4, FindStutter, EditStutter DEF Typed, ComeAndGo, DocsTyped
<1>2. ASSUME NEW d \in Device, Restart(d) PROVE Typed'
  <2>1. SessionTypeOK(Value)'
    BY <1>0, <1>2, SessionUserType DEF Restart
  <2>2. BoardTyped'
    <3> DEFINE others == {q \in boards : q.dev # d}
    <3>1. CASE auth[d] # Nobody
      <4>1. appeared' \in Nat
        BY <2>1 DEF SessionTypeOK
      <4>2. OpenMap(d, others)
        BY <1>2, <3>1 DEF Restart
      <4> QED
        BY <4>1, <4>2, OpenMapType DEF Typed
    <3>2. CASE auth[d] = Nobody
      <4>1. NoPins \in [Playlist -> Nat]
        BY DEF NoPins
      <4>2. /\ view' = [view EXCEPT ![d] = 0]
            /\ pins' = [pins EXCEPT ![d] = NoPins]
            /\ where' = [where EXCEPT ![d] = Unknown]
            /\ boards' = others
            /\ reloads' = reloads
        BY <1>2, <3>2 DEF Restart
      <4>3. boards' \subseteq BoardRecord
        BY <4>2 DEF Typed, BoardTyped
      <4> HIDE DEF others
      <4> QED
        BY <4>1, <4>2, <4>3 DEF Typed, BoardTyped, BoardRecord
    <3> QED
      BY <3>1, <3>2
  <2>3. radii' \in Queues(User, RadiusRecord)
    <3>1. ASSUME NEW a \in Account, NEW u \in User
          PROVE  Detached(radii[d][a][u]) \in Seq(RadiusRecord)
      BY DetachedRadius DEF Typed, EditTyped, Queues
    <3> QED
      BY <1>2, <3>1 DEF Typed, EditTyped, Queues, Restart
  <2>4. EditTyped' /\ FindTyped'
    BY <1>2, <2>3 DEF Typed, EditTyped, FindTyped, Restart
  <2> QED
    BY <1>2, <2>1, <2>2, <2>4 DEF Typed, Restart, DocsTyped
<1>3. ASSUME NEW l \in loads, Load(l) PROVE Typed'
  <2> DEFINE queue == radii[l.dev][auth[l.dev]][l.email]
  <2>1. l.dev \in Device /\ l.email \in User /\ auth[l.dev] \in Account
    BY DEF Typed, SessionTypeOK, LoadRecord
  <2>2. queue \in Seq(RadiusRecord) /\ mapRadius[l.email] \in Value \cup {NotSet}
    BY <2>1 DEF Typed, EditTyped, Queues, Value
  <2>3. ASSUME NEW i \in DOMAIN queue PROVE queue[i].val \in Value
    <3>1. queue[i] \in RadiusRecord
      BY <2>2, ElementOf
    <3> QED
      BY <3>1 DEF RadiusRecord, Value
  <2>4. SeenRadius(l.dev, l.email) \in Value \cup {NotSet}
    BY <2>2, <2>3, OverlayCases DEF SeenRadius
  <2>5. SessionTypeOK(Value)'
    BY <1>0, <1>3, <2>4, SessionLoadType DEF Load
  <2> QED
    BY <1>3, <2>5, BoardStutter, FindStutter, EditStutter DEF Typed, Load, DocsTyped
<1> QED
  BY <1>1, <1>2, <1>3 DEF SessionStep

LEMMA TypedDocumentStep == Typed /\ DocumentStep => Typed'
<1> SUFFICES ASSUME Typed, DocumentStep PROVE Typed'
  OBVIOUS
<1>0. ASSUME NEW d \in Device, NEW p \in Playlist, Pending(d, p) # <<>>
      PROVE  [writes EXCEPT ![d][auth[d]][p] = Tail(@)] \in Queues(Playlist, Write)
  <2>1. auth[d] \in Account /\ writes[d][auth[d]][p] \in Seq(Write)
    BY DEF Typed, SessionTypeOK, Queues
  <2>2. Tail(writes[d][auth[d]][p]) \in Seq(Write)
    BY <1>0, <2>1, Dequeue DEF Pending
  <2>3. writes \in Queues(Playlist, Write)
    BY DEF Typed
  <2> QED
    BY <2>1, <2>2, <2>3, PutQueue
<1>1. ASSUME NEW p \in Playlist, Publish(p) \/ Expire(p) PROVE Typed'
  <2>1. DocsTyped'
    BY <1>1 DEF Typed, DocsTyped, Publish, Expire
  <2> QED
    BY <1>1, <2>1, SessionStutter, BoardStutter, FindStutter, EditStutter
       DEF Typed, Publish, Expire
<1>2. ASSUME NEW d \in Device, NEW p \in Playlist, AnswerCheck(d, p) PROVE Typed'
  <2>1. FindTyped'
    BY <1>2, BoardAssumption DEF Typed, FindTyped, AnswerCheck
  <2> QED
    BY <1>2, <2>1, SessionStutter, BoardStutter, EditStutter DEF Typed, AnswerCheck, DocsTyped
<1>3. ASSUME NEW c \in checks, CheckArrives(c) PROVE Typed'
  <2>1. c.dev \in Device /\ c.playlist \in Playlist /\ auth[c.dev] \in Account
    BY DEF Typed, FindTyped, SessionTypeOK
  <2>2. writes[c.dev][auth[c.dev]][c.playlist] \in Seq(Write) /\ "mark" \in Write
    BY <2>1 DEF Typed, Queues, Write
  <2>3. Append(writes[c.dev][auth[c.dev]][c.playlist], "mark") \in Seq(Write)
    BY <2>2, Enqueue
  <2>4. writes' \in Queues(Playlist, Write)
    <3>1. writes \in Queues(Playlist, Write)
      BY DEF Typed
    <3>2. \/ writes' = writes
          \/ writes' = [writes EXCEPT ![c.dev][auth[c.dev]][c.playlist] = Append(@, "mark")]
      BY <1>3 DEF CheckArrives
    <3>3. [writes EXCEPT ![c.dev][auth[c.dev]][c.playlist] = Append(@, "mark")]
            \in Queues(Playlist, Write)
      BY <2>1, <2>3, <3>1, PutQueue
    <3> QED
      BY <3>1, <3>2, <3>3
  <2>5. FindTyped'
    BY <1>3 DEF Typed, FindTyped, CheckArrives
  <2> QED
    BY <1>3, <2>4, <2>5, SessionStutter, BoardStutter, EditStutter DEF Typed, CheckArrives, DocsTyped
<1>4. ASSUME NEW d \in Device, NEW p \in Playlist, CommitWrite(d, p) PROVE Typed'
  <2>1. writes' \in Queues(Playlist, Write)
    BY <1>0, <1>4 DEF Typed, CommitWrite
  <2>2. \A fields \in SUBSET Group : \A w : After(fields, w) \in SUBSET Group
    BY DEF After, Group
  <2>3. DocsTyped'
    BY <1>4, <2>2 DEF Typed, DocsTyped, CommitWrite
  <2> QED
    BY <1>4, <2>1, <2>3, SessionStutter, BoardStutter, FindStutter, EditStutter DEF Typed, CommitWrite
<1>5. ASSUME NEW d \in Device, NEW p \in Playlist, RejectWrite(d, p) PROVE Typed'
  <2>1. writes' \in Queues(Playlist, Write)
    BY <1>0, <1>5 DEF RejectWrite
  <2> QED
    BY <1>5, <2>1, SessionStutter, BoardStutter, FindStutter, EditStutter
       DEF Typed, RejectWrite, DocsTyped
<1> QED
  BY <1>1, <1>2, <1>3, <1>4, <1>5 DEF DocumentStep

LEMMA TypedRadiusStep == Typed /\ RadiusStep => Typed'
<1> SUFFICES ASSUME Typed, RadiusStep PROVE Typed'
  OBVIOUS
<1>0. ASSUME NEW d \in Device, NEW u \in User, radii[d][auth[d]][u] # <<>>
      PROVE  /\ Head(radii[d][auth[d]][u]) \in RadiusRecord
             /\ [radii EXCEPT ![d][auth[d]][u] = Tail(@)] \in Queues(User, RadiusRecord)
  <2>1. auth[d] \in Account /\ radii[d][auth[d]][u] \in Seq(RadiusRecord)
    BY DEF Typed, SessionTypeOK, EditTyped, Queues
  <2>2. /\ Head(radii[d][auth[d]][u]) \in RadiusRecord
        /\ Tail(radii[d][auth[d]][u]) \in Seq(RadiusRecord)
    BY <1>0, <2>1, Dequeue
  <2>3. radii \in Queues(User, RadiusRecord)
    BY DEF Typed, EditTyped
  <2>4. [radii EXCEPT ![d][auth[d]][u] = Tail(@)] \in Queues(User, RadiusRecord)
    BY <2>1, <2>2, <2>3, PutQueue
  <2> QED
    BY <2>2, <2>4
<1>1. ASSUME NEW d \in Device, UpdateMapRadiusClicked(d) PROVE Typed'
  <2>1. auth[d] \in User
    BY <1>1 DEF UpdateMapRadiusClicked, Typed, SessionTypeOK, Account
  <2>2. acts \in Nat /\ acts' \in 0..MaxActs
    BY <1>1, BoardAssumption DEF UpdateMapRadiusClicked, Typed, FindTyped
  <2>3. EditTyped' /\ FindTyped'
    BY <1>1, <2>1, <2>2 DEF UpdateMapRadiusClicked, Typed, EditTyped, FindTyped
  <2> QED
    BY <1>1, <2>3, SessionStutter, BoardStutter DEF Typed, UpdateMapRadiusClicked, DocsTyped
<1>2. ASSUME NEW q \in edits, EditArrives(q) PROVE Typed'
  <2>1. q.dev \in Device /\ q.email \in User /\ auth[q.dev] \in Account
    BY DEF Typed, EditTyped, SessionTypeOK
  <2>2. PICK r \in Radius :
          radii' = [radii EXCEPT ![q.dev][auth[q.dev]][q.email] =
                      Append(@, [val |-> r, attached |-> TRUE])]
    BY <1>2 DEF EditArrives
  <2>3. [val |-> r, attached |-> TRUE] \in RadiusRecord
    BY DEF RadiusRecord
  <2>4. radii[q.dev][auth[q.dev]][q.email] \in Seq(RadiusRecord)
    BY <2>1 DEF Typed, EditTyped, Queues
  <2>5. Append(radii[q.dev][auth[q.dev]][q.email], [val |-> r, attached |-> TRUE])
          \in Seq(RadiusRecord)
    BY <2>3, <2>4, Enqueue
  <2>6. radii' \in Queues(User, RadiusRecord)
    <3>1. radii \in Queues(User, RadiusRecord)
      BY DEF Typed, EditTyped
    <3> QED
      BY <2>1, <2>2, <2>5, <3>1, PutQueue
  <2>7. EditTyped'
    BY <1>2, <2>6 DEF Typed, EditTyped, EditArrives
  <2> QED
    BY <1>2, <2>7, SessionStutter, BoardStutter, FindStutter DEF Typed, EditArrives, DocsTyped
<1>3. ASSUME NEW q \in edits, EditFails(q) PROVE Typed'
  <2>1. EditTyped'
    BY <1>3 DEF Typed, EditTyped, EditFails
  <2> QED
    BY <1>3, <2>1, SessionStutter, BoardStutter, FindStutter DEF Typed, EditFails, DocsTyped
<1>4. ASSUME NEW d \in Device, NEW u \in User, CommitRadius(d, u) PROVE Typed'
  <2> DEFINE w == Head(radii[d][auth[d]][u])
  <2>1. w.val \in Radius
    BY <1>0, <1>4 DEF CommitRadius, RadiusRecord
  <2>2. radii' \in Queues(User, RadiusRecord)
    BY <1>0, <1>4 DEF CommitRadius, Typed, EditTyped
  <2>3. mapRadius' \in [User -> Radius \cup {NotSet}]
    BY <1>4, <2>1 DEF CommitRadius, Typed, EditTyped
  <2>4. EditTyped'
    BY <1>4, <2>2, <2>3 DEF Typed, EditTyped, CommitRadius
  <2>5. info' = info \/ \E r \in Radius : info' = [info EXCEPT ![d].field = r]
    BY <1>4 DEF CommitRadius
  <2>6. info' \in [Device -> [email : Email, field : Value]]
    BY <2>5 DEF Typed, SessionTypeOK, Value
  <2>7. SessionTypeOK(Value)'
    BY <1>4, <2>6 DEF Typed, SessionTypeOK, LoadRecord, CommitRadius
  <2> QED
    BY <1>4, <2>4, <2>7, BoardStutter, FindStutter DEF Typed, CommitRadius, DocsTyped
<1>5. ASSUME NEW d \in Device, NEW u \in User, RejectRadius(d, u) PROVE Typed'
  <2>1. EditTyped'
    BY <1>0, <1>5 DEF Typed, EditTyped, RejectRadius
  <2> QED
    BY <1>5, <2>1, SessionStutter, BoardStutter, FindStutter DEF Typed, RejectRadius, DocsTyped
<1> QED
  BY <1>1, <1>2, <1>3, <1>4, <1>5 DEF RadiusStep

LEMMA CalmStep ==
  ASSUME CalmTyped,
         KeepsCalm \/ \E q \in boards : calm' = [calm EXCEPT ![q.dev] = FALSE]
  PROVE  CalmTyped'
<1>1. CASE KeepsCalm
  <2> DEFINE reloaded(d) == \E q \in boards' \ boards : q.dev = d /\ q.n = reloads
             keeps(d) == calm[d] /\ Visible(d)' = Visible(d)
  <2>1. ASSUME NEW d \in Device
        PROVE  (IF reloaded(d) THEN Undisturbed(d) ELSE keeps(d)) \in BOOLEAN
    <3>1. Undisturbed(d) \in BOOLEAN
      BY DEF Undisturbed
    <3>2. keeps(d) \in BOOLEAN
      OBVIOUS
    <3> HIDE DEF reloaded, keeps
    <3> QED
      BY <3>1, <3>2
  <2>2. calm' = [d \in Device |-> IF reloaded(d) THEN Undisturbed(d) ELSE keeps(d)]
    BY <1>1 DEF KeepsCalm
  <2> HIDE DEF reloaded, keeps
  <2> QED
    BY <2>1, <2>2 DEF CalmTyped
<1>2. ASSUME NEW q \in boards, calm' = [calm EXCEPT ![q.dev] = FALSE] PROVE CalmTyped'
  BY <1>2 DEF CalmTyped
<1> QED
  BY <1>1, <1>2

LEMMA TypedNext == TypeOK /\ [Next]_vars => TypeOK'
<1> SUFFICES ASSUME TypeOK, [Next]_vars PROVE TypeOK'
  OBVIOUS
<1>0. Typed /\ CalmTyped
  BY TypeOKParts
<1>1. CASE (BoardStep \/ SessionStep \/ DocumentStep \/ RadiusStep) /\ KeepsCalm
  <2>1. Typed'
    BY <1>0, <1>1, TypedBoardStep, TypedSessionStep, TypedDocumentStep, TypedRadiusStep
  <2>2. CalmTyped'
    BY <1>0, <1>1, CalmStep
  <2> QED
    BY <2>1, <2>2, TypeOKParts, PTL
<1>2. CASE \E q \in boards : BoardFails(q) /\ calm' = [calm EXCEPT ![q.dev] = FALSE]
  <2>1. Typed'
    BY <1>0, <1>2, TypedBoardFails
  <2>2. CalmTyped'
    BY <1>0, <1>2, CalmStep
  <2> QED
    BY <2>1, <2>2, TypeOKParts, PTL
<1>3. CASE UNCHANGED vars
  <2>1. UNCHANGED <<sessionVars, boardVars, findVars, editVars>> /\ UNCHANGED <<docs, expired, writes, calm>>
    BY <1>3 DEF vars
  <2>2. Typed'
    BY <1>0, <2>1, SessionStutter, BoardStutter, FindStutter, EditStutter DEF Typed, DocsTyped
  <2>3. CalmTyped'
    BY <1>0, <2>1 DEF CalmTyped
  <2> QED
    BY <2>2, <2>3, TypeOKParts, PTL
<1> QED
  BY <1>1, <1>2, <1>3 DEF Next

\* What the map's callbacks, the finds and the edits of the radius read has the
\* shape they expect, whatever else is on its way (mapVC.swift, settingsVC.swift).
THEOREM TypeCorrect == Spec => []TypeOK
<1>1. Init => TypeOK
  BY TypedInit
<1>2. TypeOK /\ [Next]_vars => TypeOK'
  BY TypedNext
<1> QED
  BY <1>1, <1>2, PTL DEF Spec

-----------------------------------------------------------------------------
(* Deletions and late writes of hasFound *)

\* Playlist p has been published.
Born(p) == "pin" \in docs[p] \/ p \in expired

\* A queued write of p was queued for a reason that still holds.
Founded(w, p) == /\ w = "delete" => p \in expired
                 /\ w = "mark" => Born(p)

\* What makes the two safety properties inductive: deletions are queued for
\* expired documents only, and hasFound is set only where there was a document.
DeletionInv ==
  /\ \A d \in Device, a \in Account, p \in Playlist :
       \A i \in DOMAIN writes[d][a][p] : Founded(writes[d][a][p][i], p)
  /\ \A c \in checks : Born(c.playlist)
  /\ NoCurrentGhost

\* The steps that leave documents, ages, queues and taps alone.
Elsewhere == UNCHANGED <<docs, expired, writes>> /\ checks' \subseteq checks

LEMMA StepsElsewhere ==
  ASSUME [Next]_vars
  PROVE  \/ Elsewhere
         \/ \E q \in boards : BoardArrives(q)
         \/ DocumentStep
<1>1. CASE BoardStep
  BY <1>1 DEF BoardStep, ReloadClicked, LocationUpdates, MapLocates, AnswerBoard, Elsewhere, findVars
<1>2. CASE SessionStep
  BY <1>2 DEF SessionStep, ComeAndGo, Restart, Load, Elsewhere, findVars
<1>3. CASE RadiusStep
  BY <1>3 DEF RadiusStep, UpdateMapRadiusClicked, EditArrives, EditFails, CommitRadius,
              RejectRadius, Elsewhere, findVars
<1>4. CASE \E q \in boards : BoardFails(q)
  BY <1>4 DEF BoardFails, Elsewhere, findVars
<1>5. CASE UNCHANGED vars
  BY <1>5 DEF vars, Elsewhere, findVars
<1> QED
  BY <1>1, <1>2, <1>3, <1>4, <1>5 DEF Next

\* The oldest pending write of a document.
LEMMA OldestWrite ==
  ASSUME Typed, DeletionInv, NEW d \in Device, NEW p \in Playlist, Pending(d, p) # <<>>
  PROVE  Head(Pending(d, p)) \in Write /\ Founded(Head(Pending(d, p)), p)
<1>1. auth[d] \in Account /\ Pending(d, p) \in Seq(Write)
  BY DEF Typed, SessionTypeOK, Queues, Pending
<1>2. /\ Head(Pending(d, p)) \in Write
      /\ Head(Pending(d, p)) = Pending(d, p)[1] /\ 1 \in DOMAIN Pending(d, p)
  BY <1>1, Dequeue
<1> QED
  BY <1>1, <1>2 DEF DeletionInv, Pending

\* No step unpublishes a playlist that is not too old.
LEMMA BornGrows ==
  ASSUME Typed, DeletionInv, [Next]_vars
  PROVE  \A p \in Playlist : (p \in expired => p \in expired') /\ (Born(p) => Born(p)')
<1>1. CASE Elsewhere
  BY <1>1 DEF Elsewhere, Born
<1>2. CASE \E q \in boards : BoardArrives(q)
  BY <1>2 DEF BoardArrives, Born
<1>3. CASE DocumentStep
  <2>1. ASSUME NEW r \in Playlist, Publish(r) \/ Expire(r)
        PROVE  \A p \in Playlist : (p \in expired => p \in expired') /\ (Born(p) => Born(p)')
    BY <2>1 DEF Publish, Expire, Born, Typed, DocsTyped, Group
  <2>2. ASSUME NEW d \in Device, NEW r \in Playlist, CommitWrite(d, r)
        PROVE  \A p \in Playlist : (p \in expired => p \in expired') /\ (Born(p) => Born(p)')
    <3>1. Head(Pending(d, r)) = "delete" => r \in expired
      BY <2>2, OldestWrite DEF CommitWrite, Founded
    <3> QED
      BY <2>2, <3>1 DEF CommitWrite, After, Born, Typed, DocsTyped
  <2>3. CASE UNCHANGED <<docs, expired>>
    BY <2>3 DEF Born
  <2> QED
    BY <1>3, <2>1, <2>2, <2>3 DEF DocumentStep, AnswerCheck, CheckArrives, RejectWrite
<1> QED
  BY <1>1, <1>2, <1>3, StepsElsewhere

\* Every write queued after a step was queued before, deletes a document that is
\* too old, or belongs to a tap.
LEMMA WritesAreOldOrNew ==
  ASSUME Typed, DeletionInv, [Next]_vars,
         NEW d \in Device, NEW a \in Account, NEW p \in Playlist,
         NEW i \in DOMAIN writes'[d][a][p]
  PROVE  \/ \E j \in DOMAIN writes[d][a][p] : writes'[d][a][p][i] = writes[d][a][p][j]
         \/ writes'[d][a][p][i] = "delete" /\ p \in expired
         \/ writes'[d][a][p][i] = "mark" /\ \E c \in checks : c.playlist = p
<1> DEFINE w == writes'[d][a][p][i]
           Old == \E j \in DOMAIN writes[d][a][p] : w = writes[d][a][p][j]
<1>0. writes \in Queues(Playlist, Write) /\ writes[d][a][p] \in Seq(Write)
  BY DEF Typed, Queues
<1>1. CASE writes' = writes
  BY <1>1
<1>2. ASSUME NEW q \in boards, BoardArrives(q) PROVE Old \/ (w = "delete" /\ p \in expired)
  <2>0. q.dev \in Device /\ auth[q.dev] \in Account
    BY DEF Typed, BoardTyped, BoardRecord, SessionTypeOK
  <2>1. \/ writes'[d][a][p] = writes[d][a][p]
        \/ /\ writes'[d][a][p] = Append(writes[d][a][p], "delete")
           /\ p \in expired
    BY <1>0, <1>2, <2>0 DEF BoardArrives, TooOld, Queues
  <2>2. \A j \in DOMAIN Append(writes[d][a][p], "delete") :
          \/ /\ j \in DOMAIN writes[d][a][p]
             /\ Append(writes[d][a][p], "delete")[j] = writes[d][a][p][j]
          \/ Append(writes[d][a][p], "delete")[j] = "delete"
    BY <1>0, Enqueue, "delete" \in Write DEF Write
  <2> QED
    BY <2>1, <2>2
<1>3. ASSUME NEW c \in checks, CheckArrives(c) PROVE Old \/ (w = "mark" /\ c.playlist = p)
  <2>0. c.dev \in Device /\ c.playlist \in Playlist /\ auth[c.dev] \in Account
    BY DEF Typed, FindTyped, SessionTypeOK
  <2>1. \/ writes'[d][a][p] = writes[d][a][p]
        \/ /\ writes'[d][a][p] = Append(writes[d][a][p], "mark")
           /\ c.playlist = p
    <3>1. \/ writes' = writes
          \/ writes' = [writes EXCEPT ![c.dev][auth[c.dev]][c.playlist] = Append(@, "mark")]
      BY <1>3 DEF CheckArrives
    <3>2. [writes EXCEPT ![c.dev][auth[c.dev]][c.playlist] = Append(@, "mark")][d][a][p] =
            IF d = c.dev /\ a = auth[c.dev] /\ p = c.playlist
              THEN Append(writes[c.dev][auth[c.dev]][c.playlist], "mark") ELSE writes[d][a][p]
      BY <1>0, <2>0 DEF Queues
    <3> QED
      BY <3>1, <3>2
  <2>2. \A j \in DOMAIN Append(writes[d][a][p], "mark") :
          \/ /\ j \in DOMAIN writes[d][a][p]
             /\ Append(writes[d][a][p], "mark")[j] = writes[d][a][p][j]
          \/ Append(writes[d][a][p], "mark")[j] = "mark"
    BY <1>0, Enqueue, "mark" \in Write DEF Write
  <2> QED
    BY <2>1, <2>2
<1>4. ASSUME NEW e \in Device, NEW r \in Playlist, CommitWrite(e, r) \/ RejectWrite(e, r)
      PROVE  Old
  <2>0. auth[e] \in Account
    BY DEF Typed, SessionTypeOK
  <2>1. \/ writes'[d][a][p] = writes[d][a][p]
        \/ writes[d][a][p] # <<>> /\ writes'[d][a][p] = Tail(writes[d][a][p])
    <3>1. writes[e][auth[e]][r] # <<>>
      BY <1>4 DEF CommitWrite, RejectWrite, Pending
    <3>2. \/ writes' = writes
          \/ writes' = [writes EXCEPT ![e][auth[e]][r] = Tail(@)]
      BY <1>4 DEF CommitWrite, RejectWrite
    <3>3. [writes EXCEPT ![e][auth[e]][r] = Tail(@)][d][a][p] =
            IF d = e /\ a = auth[e] /\ p = r
              THEN Tail(writes[e][auth[e]][r]) ELSE writes[d][a][p]
      BY <1>0, <2>0 DEF Queues
    <3> QED
      BY <3>1, <3>2, <3>3
  <2>2. writes[d][a][p] # <<>> =>
          \A j \in DOMAIN Tail(writes[d][a][p]) :
            /\ j + 1 \in DOMAIN writes[d][a][p]
            /\ Tail(writes[d][a][p])[j] = writes[d][a][p][j + 1]
    BY <1>0, Dequeue
  <2> QED
    BY <2>1, <2>2
<1>5. \/ writes' = writes
      \/ \E q \in boards : BoardArrives(q)
      \/ \E c \in checks : CheckArrives(c)
      \/ \E e \in Device, r \in Playlist : CommitWrite(e, r) \/ RejectWrite(e, r)
  BY StepsElsewhere DEF Elsewhere, DocumentStep, Publish, Expire, AnswerCheck
<1> QED
  BY <1>1, <1>2, <1>3, <1>4, <1>5

LEMMA DeletionInit == Init => DeletionInv
BY BoardAssumption DEF Init, DeletionInv, Founded, Born, NoCurrentGhost, Group

LEMMA DeletionNext == Typed /\ DeletionInv /\ [Next]_vars => DeletionInv'
<1> SUFFICES ASSUME Typed, DeletionInv, [Next]_vars PROVE DeletionInv'
  OBVIOUS
<1>0. \A p \in Playlist : (p \in expired => p \in expired') /\ (Born(p) => Born(p)')
  BY BornGrows
<1>1. ASSUME NEW d \in Device, NEW a \in Account, NEW p \in Playlist,
             NEW i \in DOMAIN writes'[d][a][p]
      PROVE  Founded(writes[d][a][p][i], p)'
  <2> DEFINE w == writes'[d][a][p][i]
  <2>1. Founded(w, p)
    <3>1. \A j \in DOMAIN writes[d][a][p] : Founded(writes[d][a][p][j], p)
      BY DEF DeletionInv
    <3>2. \A c \in checks : Born(c.playlist)
      BY DEF DeletionInv
    <3>3. "delete" # "mark"
      OBVIOUS
    <3> QED
      BY <3>1, <3>2, <3>3, WritesAreOldOrNew DEF Founded
  <2> QED
    BY <1>0, <2>1 DEF Founded
<1>2. ASSUME NEW c \in checks' PROVE Born(c.playlist)'
  <2>1. CASE c \in checks
    <3>1. Born(c.playlist) /\ c.playlist \in Playlist
      BY <2>1 DEF DeletionInv, Typed, FindTyped
    <3> QED
      BY <1>0, <3>1
  <2>2. CASE c \notin checks
    <3>1. PICK d \in Device, p \in Playlist : AnswerCheck(d, p)
      BY <2>2, StepsElsewhere
         DEF Elsewhere, BoardArrives, findVars, DocumentStep, Publish, Expire, CheckArrives,
             CommitWrite, RejectWrite
    <3>2. c.playlist = p /\ Born(p)
      BY <2>2, <3>1 DEF AnswerCheck, SeesPin, Born
    <3> QED
      BY <1>0, <3>2
  <2> QED
    BY <2>1, <2>2
<1>3. NoCurrentGhost'
  <2>1. CASE UNCHANGED docs
    BY <1>0, <2>1 DEF DeletionInv, NoCurrentGhost
  <2>2. ASSUME NEW p \in Playlist, Publish(p) PROVE NoCurrentGhost'
    BY <2>2 DEF Publish, DeletionInv, NoCurrentGhost, Typed, DocsTyped, Group
  <2>3. ASSUME NEW d \in Device, NEW p \in Playlist, CommitWrite(d, p) PROVE NoCurrentGhost'
    <3>1. /\ Head(Pending(d, p)) \in Write
          /\ Founded(Head(Pending(d, p)), p)
      BY <2>3, OldestWrite DEF CommitWrite
    <3> QED
      BY <2>3, <3>1 DEF CommitWrite, After, Founded, Born, Write, DeletionInv, NoCurrentGhost,
                        Typed, DocsTyped
  <2> QED
    BY <2>1, <2>2, <2>3, StepsElsewhere
       DEF Elsewhere, BoardArrives, DocumentStep, Expire, AnswerCheck, CheckArrives, RejectWrite
<1> QED
  BY <1>1, <1>2, <1>3 DEF DeletionInv

\* However late a finder's hasFound write reaches the backend, it leaves a
\* document without coordinates only where the playlist was too old anyway
\* (mapVC.checkUserPlaylists, addUserAnnotations).
THEOREM GhostsAreExpired == Spec => []NoCurrentGhost
<1>1. Init => TypeOK /\ DeletionInv
  BY TypedInit, DeletionInit
<1>2. TypeOK /\ DeletionInv /\ [Next]_vars => (TypeOK /\ DeletionInv)'
  BY TypedNext, DeletionNext, TypeOKParts
<1>3. DeletionInv => NoCurrentGhost
  BY DEF DeletionInv
<1> QED
  BY <1>1, <1>2, <1>3, PTL DEF Spec

\* A document disappears only if its playlist is more than seven days old at
\* that moment, whatever was pending and wherever the app was restarted
\* (mapVC.addUserAnnotations).
THEOREM DeletionsAreDue == Spec => OnlyExpiredDeleted
<1> DEFINE Due == \A p \in Playlist : docs[p] # {} /\ docs'[p] = {} => p \in expired
<1>1. Init => TypeOK /\ DeletionInv
  BY TypedInit, DeletionInit
<1>2. TypeOK /\ DeletionInv /\ [Next]_vars => (TypeOK /\ DeletionInv)'
  BY TypedNext, DeletionNext, TypeOKParts
<1>3. TypeOK /\ DeletionInv /\ [Next]_vars => [Due]_docs
  <2> SUFFICES ASSUME Typed, DeletionInv, [Next]_vars, docs' # docs PROVE Due
    BY TypeOKParts
  <2>1. CASE \E p \in Playlist : Publish(p)
    BY <2>1 DEF Publish, Typed, DocsTyped, Group
  <2>2. ASSUME NEW d \in Device, NEW p \in Playlist, CommitWrite(d, p) PROVE Due
    <3>1. Head(Pending(d, p)) = "delete" => p \in expired
      BY <2>2, OldestWrite DEF CommitWrite, Founded
    <3> QED
      BY <2>2, <3>1 DEF CommitWrite, After, Typed, DocsTyped
  <2> QED
    BY <2>1, <2>2, StepsElsewhere
       DEF Elsewhere, BoardArrives, DocumentStep, Expire, AnswerCheck, CheckArrives, RejectWrite
<1> QED
  BY <1>1, <1>2, <1>3, PTL DEF Spec, OnlyExpiredDeleted

-----------------------------------------------------------------------------
(* The pins on the map *)

\* The queries phone d's map view waits for.
Mine(d) == {q \in boards : q.dev = d /\ q.view = view[d]}

Waits(d, coll) == \E q \in Mine(d) : q.coll = coll

Collection(p) == IF p \in Master THEN "masterPlaylists" ELSE "userPlaylists"

\* The pins playlist p ought to have when some callbacks have still to run.
PinsDue(d, p) == IF Waits(d, Collection(p)) \/ p \notin Visible(d) THEN 0 ELSE 1

\* What is true of all queries, calm or not.
BoardsSound ==
  /\ \A q \in boards :
       /\ q.n < reloads /\ q.view <= appeared
       /\ q.coll = "masterPlaylists" => q.answered /\ q.found = Master
       /\ q.coll = "userPlaylists" => q.found \cap Master = {}
       /\ \A p \in q.found : Born(p)
  /\ \A d \in Device : view[d] <= appeared
  /\ \A p \in Master : "pin" \in docs[p]

\* The answer to a calm reload is still what its callback should show.
StillShows(q, d) ==
  \A p \in Playlist \ Master :
    p \in q.found /\ p \notin expired /\ Near(d, p) <=> p \in Visible(d)

\* What makes MapIsRight inductive: during a calm reload a playlist has no pin
\* until its collection's callback has run, and exactly what is due thereafter.
CalmAt(d) ==
  /\ \A q, r \in Mine(d) : q.coll = r.coll => q = r
  /\ \A p \in Playlist : pins[d][p] = PinsDue(d, p)
  /\ \A q \in Mine(d) : q.coll = "userPlaylists" /\ q.answered => StillShows(q, d)

CalmReloads == \A d \in Device : view[d] # 0 /\ calm[d] => CalmAt(d)

MapInv == BoardsSound /\ CalmReloads

\* The age and the deletions of published playlists, as the map sees them.
BornSeen ==
  \A d \in Device, p \in Playlist : Born(p) /\ p \notin expired => SeesPin(d, p)

LEMMA SeenIfBorn == Typed /\ DeletionInv => BornSeen
<1> SUFFICES ASSUME Typed, DeletionInv, NEW d \in Device, NEW p \in Playlist,
                    Born(p), p \notin expired
             PROVE  SeesPin(d, p)
  BY DEF BornSeen
<1>1. auth[d] \in Account
  BY DEF Typed, SessionTypeOK
<1>2. "delete" \notin Range(Pending(d, p))
  BY <1>1 DEF DeletionInv, Founded, Pending, Range
<1> QED
  BY <1>2 DEF SeesPin, Born

\* Master playlists are always visible.
LEMMA MastersVisible ==
  ASSUME Typed, BoardsSound, BornSeen, NEW d \in Device, NEW p \in Master
  PROVE  p \in Visible(d)
<1>1. p \in Playlist /\ p \notin expired
  BY BoardAssumption DEF Typed, DocsTyped
<1>2. Born(p)
  BY DEF BoardsSound, Born
<1> QED
  BY <1>1, <1>2 DEF BornSeen, Visible

LEMMA MapInit == Init => MapInv
<1> SUFFICES ASSUME Init PROVE MapInv
  OBVIOUS
<1>1. BoardsSound
  BY BoardAssumption DEF Init, BoardsSound, Group, SessionInit
<1>2. CalmReloads
  BY DEF Init, CalmReloads
<1> QED
  BY <1>1, <1>2 DEF MapInv

\* The queries of a reload of view v.
MasterQuery(d, v) ==
  [n |-> reloads, dev |-> d, view |-> v, coll |-> "masterPlaylists",
   answered |-> TRUE, found |-> Master]
UserQuery(d, v) ==
  [n |-> reloads, dev |-> d, view |-> v, coll |-> "userPlaylists",
   answered |-> FALSE, found |-> {}]

\* A reload by phone d, of its view after the step.
Reload(d) ==
  /\ reloads' = reloads + 1
  /\ pins' = [pins EXCEPT ![d] = NoPins]
  /\ \E others \in SUBSET boards :
       /\ boards' = others \cup {MasterQuery(d, view'[d]), UserQuery(d, view'[d])}
       /\ \A q \in boards \ others : q.dev = d

\* What the other phones have is left alone.
OnlyView(d) ==
  /\ \A e \in Device \ {d} : view'[e] = view[e]
  /\ view'[d] \in {view[d], appeared'}

\* The steps, by what they do to the queries.
LEMMA MapSteps ==
  ASSUME Typed, [Next]_vars
  PROVE  \/ UNCHANGED boardVars
         \/ UNCHANGED <<view, pins, boards, reloads>>
         \/ \E d \in Device : Reload(d) /\ OnlyView(d)
         \/ \E d \in Device : Restart(d) /\ auth[d] = Nobody
         \/ \E q \in boards : AnswerBoard(q) \/ BoardArrives(q)
         \/ \E q \in boards : BoardFails(q) /\ calm' = [calm EXCEPT ![q.dev] = FALSE]
<1>0. view \in [Device -> Nat]
  BY DEF Typed, BoardTyped
<1>1. ASSUME NEW d \in Device, ReloadClicked(d) \/ LocationUpdates(d)
      PROVE  Reload(d) /\ OnlyView(d)
  <2>1. UpdateAnnotations(d) /\ view' = view
    BY <1>1 DEF ReloadClicked, LocationUpdates
  <2>2. boards \in SUBSET boards /\ boards \ boards = {}
    OBVIOUS
  <2> QED
    BY <2>1, <2>2 DEF UpdateAnnotations, AddAnnotations, Reload, OnlyView, MasterQuery, UserQuery
<1>2. ASSUME NEW d \in Device, NEW others \in SUBSET boards, OpenMap(d, others),
             \A q \in boards \ others : q.dev = d
      PROVE  Reload(d) /\ OnlyView(d)
  <2>1. view'[d] = appeared' /\ \A e \in Device \ {d} : view'[e] = view[e]
    BY <1>0, <1>2 DEF OpenMap
  <2> QED
    BY <1>2, <2>1 DEF OpenMap, AddAnnotations, Reload, OnlyView, MasterQuery, UserQuery
<1>3. ASSUME NEW d \in Device, ComeAndGo(d)
      PROVE  UNCHANGED boardVars \/ (Reload(d) /\ OnlyView(d))
  <2>1. UNCHANGED boardVars \/ OpenMap(d, boards)
    BY <1>3 DEF ComeAndGo
  <2> QED
    BY <1>2, <2>1
<1>4. ASSUME NEW d \in Device, Restart(d), auth[d] # Nobody
      PROVE  Reload(d) /\ OnlyView(d)
  <2> DEFINE others == {q \in boards : q.dev # d}
  <2>1. OpenMap(d, others)
    BY <1>4 DEF Restart
  <2>2. others \in SUBSET boards /\ \A q \in boards \ others : q.dev = d
    OBVIOUS
  <2> HIDE DEF others
  <2> QED
    BY <1>2, <2>1, <2>2
<1>5. ASSUME NEW l \in loads, Load(l) PROVE UNCHANGED boardVars
  BY <1>5 DEF Load
<1>6. DocumentStep => UNCHANGED boardVars
  BY DEF DocumentStep, Publish, Expire, AnswerCheck, CommitWrite, RejectWrite, CheckArrives
<1>7. RadiusStep => UNCHANGED boardVars
  BY DEF RadiusStep, UpdateMapRadiusClicked, EditArrives, EditFails, CommitRadius, RejectRadius
<1>8. CASE BoardStep
  BY <1>1, <1>8 DEF BoardStep, MapLocates
<1>9. CASE SessionStep
  BY <1>3, <1>4, <1>5, <1>9 DEF SessionStep
<1>10. CASE UNCHANGED vars
  BY <1>10 DEF vars
<1> QED
  BY <1>6, <1>7, <1>8, <1>9, <1>10 DEF Next

LEMMA AppearedGrows ==
  ASSUME Typed, [Next]_vars
  PROVE  appeared \in Nat /\ appeared' \in {appeared, appeared + 1}
<1>0. appeared \in Nat
  BY DEF Typed, SessionTypeOK
<1>1. CASE BoardStep \/ DocumentStep
  BY <1>0, <1>1 DEF BoardStep, ReloadClicked, LocationUpdates, MapLocates, AnswerBoard, BoardArrives,
     DocumentStep, Publish, Expire, AnswerCheck, CommitWrite, RejectWrite, CheckArrives, sessionVars
<1>2. CASE SessionStep
  BY <1>0, <1>2 DEF SessionStep, ComeAndGo, SignIn, MapAppears, SignOut, GetUserInfo, Restart,
     Relaunch, Load, AnswerLoad, LoadArrives, LoadFails
<1>3. CASE RadiusStep
  BY <1>0, <1>3 DEF RadiusStep, UpdateMapRadiusClicked, EditArrives, EditFails, CommitRadius,
     RejectRadius, sessionVars
<1>4. CASE \E q \in boards : BoardFails(q)
  BY <1>0, <1>4 DEF BoardFails, sessionVars
<1>5. CASE UNCHANGED vars
  BY <1>0, <1>5 DEF vars, sessionVars
<1> QED
  BY <1>1, <1>2, <1>3, <1>4, <1>5 DEF Next

\* A query is sound.
QuerySound(q) ==
  /\ q.n < reloads /\ q.view <= appeared
  /\ q.coll = "masterPlaylists" => q.answered /\ q.found = Master
  /\ q.coll = "userPlaylists" => q.found \cap Master = {}
  /\ \A p \in q.found : Born(p)

LEMMA MastersStay ==
  ASSUME Typed, DeletionInv, BoardsSound, [Next]_vars
  PROVE  \A p \in Master : "pin" \in docs'[p]
<1>1. CASE UNCHANGED docs
  BY <1>1 DEF BoardsSound
<1>2. ASSUME NEW p \in Playlist, Publish(p) PROVE \A m \in Master : "pin" \in docs'[m]
  BY <1>2, BoardAssumption DEF Publish, BoardsSound, Typed, DocsTyped, Group
<1>3. ASSUME NEW d \in Device, NEW p \in Playlist, CommitWrite(d, p)
      PROVE  \A m \in Master : "pin" \in docs'[m]
  <2>1. Head(Pending(d, p)) = "delete" => p \notin Master
    BY <1>3, OldestWrite DEF CommitWrite, Founded, Typed, DocsTyped
  <2> QED
    BY <1>3, <2>1, BoardAssumption DEF CommitWrite, After, BoardsSound, Typed, DocsTyped
<1> QED
  BY <1>1, <1>2, <1>3, StepsElsewhere
     DEF Elsewhere, BoardArrives, DocumentStep, Expire, AnswerCheck, CheckArrives, RejectWrite

\* Sound queries stay sound: no playlist is unpublished, no number goes back.
LEMMA SoundStays ==
  ASSUME Typed, Typed', DeletionInv, BoardsSound, [Next]_vars, NEW q \in boards
  PROVE  QuerySound(q)' /\ reloads' >= reloads
<1>1. QuerySound(q) /\ q \in BoardRecord
  BY DEF BoardsSound, QuerySound, Typed, BoardTyped
<1>2. appeared \in Nat /\ appeared' >= appeared
  BY AppearedGrows
<1>3. reloads \in Nat /\ reloads' >= reloads
  <2>1. reloads \in Nat
    BY BoardAssumption DEF Typed, BoardTyped
  <2>2. reloads' \in {reloads, reloads + 1}
    <3>1. ASSUME NEW d \in Device, Restart(d), auth[d] = Nobody PROVE reloads' = reloads
      BY <3>1 DEF Restart
    <3> QED
      BY <3>1, MapSteps DEF boardVars, Reload, AnswerBoard, BoardArrives, BoardFails
  <2> QED
    BY <2>1, <2>2
<1>4. \A p \in Playlist : Born(p) => Born(p)'
  BY BornGrows
<1>5. reloads' \in Nat /\ q.n \in Nat /\ q.view \in Nat /\ q.found \subseteq Playlist
  BY <1>1, BoardAssumption DEF Typed, BoardTyped, BoardRecord
<1>6. q.n < reloads' /\ q.view <= appeared'
  BY <1>1, <1>2, <1>3, <1>5, AppearedGrows DEF QuerySound
<1> QED
  BY <1>1, <1>3, <1>4, <1>5, <1>6 DEF QuerySound

LEMMA SoundNext ==
  ASSUME Typed, Typed', DeletionInv, BoardsSound, [Next]_vars
  PROVE  BoardsSound'
<1>0. appeared \in Nat /\ appeared' >= appeared /\ view \in [Device -> Nat]
  BY AppearedGrows DEF Typed, BoardTyped
<1>1. \A p \in Master : "pin" \in docs'[p]
  BY MastersStay
<1>2. \A q \in boards : QuerySound(q)'
  BY SoundStays
<1>3. (\A d \in Device : view'[d] <= appeared') /\ \A q \in boards' : QuerySound(q)'
  <2>0. \A d \in Device : view[d] <= appeared'
    BY <1>0, AppearedGrows DEF BoardsSound
  <2>1. CASE UNCHANGED boardVars \/ UNCHANGED <<view, pins, boards, reloads>>
    BY <1>2, <2>0, <2>1 DEF boardVars
  <2>2. ASSUME NEW d \in Device, Reload(d), OnlyView(d)
        PROVE  (\A e \in Device : view'[e] <= appeared') /\ \A q \in boards' : QuerySound(q)'
    <3>1. \A e \in Device : view'[e] <= appeared'
      BY <1>0, <2>0, <2>2, AppearedGrows DEF OnlyView
    <3>2. reloads \in Nat /\ reloads' = reloads + 1
      BY <2>2, BoardAssumption DEF Reload, Typed, BoardTyped
    <3>3. ASSUME NEW q, q = UserQuery(d, view'[d]) PROVE QuerySound(q)'
      BY <3>1, <3>2, <3>3 DEF QuerySound, UserQuery
    <3>4. ASSUME NEW q, q = MasterQuery(d, view'[d]) PROVE QuerySound(q)'
      BY <1>1, <3>1, <3>2, <3>4 DEF QuerySound, MasterQuery, Born
    <3>5. \A q \in boards' : q \in boards \/ q = UserQuery(d, view'[d]) \/ q = MasterQuery(d, view'[d])
      BY <2>2 DEF Reload
    <3> QED
      BY <1>2, <3>1, <3>3, <3>4, <3>5
  <2>3. ASSUME NEW d \in Device, Restart(d), auth[d] = Nobody
        PROVE  (\A e \in Device : view'[e] <= appeared') /\ \A q \in boards' : QuerySound(q)'
    <3>1. view' = [view EXCEPT ![d] = 0] /\ boards' \subseteq boards
      BY <2>3 DEF Restart
    <3> QED
      BY <1>0, <1>2, <2>0, <3>1, AppearedGrows
  <2>4. ASSUME NEW q \in boards, AnswerBoard(q)
        PROVE  (\A e \in Device : view'[e] <= appeared') /\ \A r \in boards' : QuerySound(r)'
    <3> DEFINE found == {p \in Playlist \ Master : SeesPin(q.dev, p)}
               r == [q EXCEPT !.answered = TRUE, !.found = found]
    <3>1. view' = view /\ docs' = docs /\ boards' = (boards \ {q}) \cup {r}
      BY <2>4 DEF AnswerBoard
    <3>2. QuerySound(q)' /\ q.coll = "userPlaylists"
      BY <1>2, <2>4 DEF AnswerBoard, BoardsSound, Typed, BoardTyped, BoardRecord
    <3>3. /\ r.n = q.n /\ r.view = q.view /\ r.coll = q.coll /\ r.found = found
      BY DEF Typed, BoardTyped, BoardRecord
    <3>4. found \cap Master = {} /\ \A p \in found : "pin" \in docs'[p]
      BY <3>1 DEF SeesPin
    <3> HIDE DEF found, r
    <3>5. ASSUME NEW s, s = r PROVE QuerySound(s)'
      BY <3>2, <3>3, <3>4, <3>5 DEF QuerySound, Born
    <3>6. \A s \in boards' : s \in boards \/ s = r
      BY <3>1
    <3> QED
      BY <1>2, <2>0, <3>1, <3>5, <3>6
  <2>5. ASSUME NEW q \in boards, BoardArrives(q) \/ BoardFails(q)
        PROVE  (\A e \in Device : view'[e] <= appeared') /\ \A r \in boards' : QuerySound(r)'
    <3>1. view' = view /\ boards' \subseteq boards
      BY <2>5 DEF BoardArrives, BoardFails
    <3> QED
      BY <1>2, <2>0, <3>1
  <2> QED
    BY <2>1, <2>2, <2>3, <2>4, <2>5, MapSteps
<1> QED
  BY <1>1, <1>3 DEF BoardsSound, QuerySound

\* A phone stays calm only if what it should show stays.
LEMMA StaysCalm ==
  ASSUME CalmTyped, KeepsCalm, NEW d \in Device, calm'[d],
         \A q \in boards' \ boards : q.dev # d \/ q.n # reloads
  PROVE  calm[d] /\ Visible(d)' = Visible(d)
<1> DEFINE reloaded(e) == \E q \in boards' \ boards : q.dev = e /\ q.n = reloads
           keeps(e) == calm[e] /\ Visible(e)' = Visible(e)
<1>1. calm' = [e \in Device |-> IF reloaded(e) THEN Undisturbed(e) ELSE keeps(e)]
  BY DEF KeepsCalm
<1>2. ~reloaded(d)
  OBVIOUS
<1> HIDE DEF reloaded, keeps
<1>3. keeps(d)
  BY <1>1, <1>2
<1> QED
  BY <1>3 DEF keeps

LEMMA StartsCalm ==
  ASSUME CalmTyped, KeepsCalm, NEW d \in Device, calm'[d],
         NEW q \in boards' \ boards, q.dev = d, q.n = reloads
  PROVE  Undisturbed(d)
<1> DEFINE reloaded(e) == \E r \in boards' \ boards : r.dev = e /\ r.n = reloads
           keeps(e) == calm[e] /\ Visible(e)' = Visible(e)
<1>1. calm' = [e \in Device |-> IF reloaded(e) THEN Undisturbed(e) ELSE keeps(e)]
  BY DEF KeepsCalm
<1>2. reloaded(d)
  OBVIOUS
<1> HIDE DEF reloaded, keeps
<1> QED
  BY <1>1, <1>2

\* The answer to a calm reload goes on showing what it should: what ages or
\* gets out of reach was visible, and what comes within reach is there.
LEMMA StillShowsStays ==
  ASSUME Typed, Typed', BoardsSound, BornSeen', DeletionInv, [Next]_vars,
         NEW d \in Device, NEW q \in boards, StillShows(q, d), Visible(d)' = Visible(d)
  PROVE  StillShows(q, d)'
<1> SUFFICES ASSUME NEW p \in Playlist, p \notin Master
             PROVE  p \in q.found /\ p \notin expired' /\ Near(d, p)' <=> p \in Visible(d)'
  BY DEF StillShows
<1>1. p \in Visible(d)' => p \notin expired' /\ Near(d, p)'
  BY DEF Visible
<1>2. p \in Visible(d)' => p \in q.found
  BY DEF StillShows
<1>3. ASSUME p \in q.found, p \notin expired', Near(d, p)' PROVE p \in Visible(d)'
  <2>1. Born(p)'
    BY <1>3, BornGrows DEF BoardsSound
  <2>2. SeesPin(d, p)'
    BY <1>3, <2>1 DEF BornSeen
  <2> QED
    BY <1>3, <2>2 DEF Visible
<1> QED
  BY <1>1, <1>2, <1>3

\* What a step keeps that neither sends, answers nor ends a query of the view.
LEMMA CalmQuiet ==
  ASSUME Typed, Typed', BoardsSound, BornSeen', DeletionInv, [Next]_vars,
         NEW d \in Device, CalmAt(d), Visible(d)' = Visible(d),
         pins'[d] = pins[d], Mine(d)' = Mine(d)
  PROVE  CalmAt(d)'
<1>1. \A q, r \in Mine(d)' : q.coll = r.coll => q = r
  BY DEF CalmAt
<1>2. ASSUME NEW p \in Playlist PROVE pins'[d][p] = PinsDue(d, p)'
  <2>1. \A coll : Waits(d, coll)' <=> Waits(d, coll)
    BY DEF Waits
  <2>2. PinsDue(d, p)' = PinsDue(d, p)
    BY <2>1 DEF PinsDue
  <2> QED
    BY <2>2 DEF CalmAt
<1>3. ASSUME NEW q \in Mine(d)', q.coll = "userPlaylists", q.answered
      PROVE  StillShows(q, d)'
  <2>1. q \in boards /\ StillShows(q, d)
    BY <1>3 DEF CalmAt, Mine
  <2> QED
    BY <2>1, StillShowsStays
<1> QED
  BY <1>1, <1>2, <1>3 DEF CalmAt

\* A calm reload starts without pins and with one query of each collection.
LEMMA CalmReload ==
  ASSUME Typed, Typed', NEW d \in Device, Reload(d), Undisturbed(d)
  PROVE  CalmAt(d)'
<1> DEFINE m == MasterQuery(d, view'[d])
           u == UserQuery(d, view'[d])
<1>0. /\ m.dev = d /\ m.view = view'[d] /\ m.coll = "masterPlaylists"
      /\ u.dev = d /\ u.view = view'[d] /\ u.coll = "userPlaylists" /\ ~u.answered
  BY DEF MasterQuery, UserQuery
<1>1. PICK others \in SUBSET boards : boards' = others \cup {m, u}
  BY DEF Reload
<1>2. pins'[d] = NoPins
  BY DEF Reload, Typed, BoardTyped
<1> HIDE DEF m, u
<1>3. Mine(d)' = {m, u}
  BY <1>0, <1>1 DEF Mine, Undisturbed
<1>4. \A p \in Playlist : Waits(d, Collection(p))'
  BY <1>0, <1>3 DEF Waits, Collection
<1>5. \A p \in Playlist : pins'[d][p] = PinsDue(d, p)'
  BY <1>2, <1>4 DEF PinsDue, NoPins
<1> QED
  BY <1>0, <1>3, <1>5 DEF CalmAt

\* So does any step that does not start a reload of the phone.
LEMMA KeptCalm ==
  ASSUME CalmTyped, [Next]_vars, NEW d \in Device, calm'[d],
         \A q \in boards' \ boards : q.dev # d \/ q.n # reloads
  PROVE  calm[d] /\ Visible(d)' = Visible(d)
<1>1. ASSUME UNCHANGED <<auth, info, docs, expired, where, writes>>
      PROVE  Visible(d)' = Visible(d)
  BY <1>1 DEF Visible, SeesPin, Pending, Near
<1>2. CASE KeepsCalm
  BY <1>2, StaysCalm
<1>3. CASE UNCHANGED vars
  BY <1>1, <1>3 DEF vars, sessionVars, boardVars
<1>4. ASSUME NEW q \in boards, BoardFails(q), calm' = [calm EXCEPT ![q.dev] = FALSE]
      PROVE  calm[d] /\ Visible(d)' = Visible(d)
  BY <1>1, <1>4 DEF CalmTyped, BoardFails, sessionVars
<1> QED
  BY <1>2, <1>3, <1>4 DEF Next

\* The answer to a calm reload has all that is visible.
LEMMA CalmAnswer ==
  ASSUME Typed, Typed', BoardsSound, BornSeen', DeletionInv, [Next]_vars,
         NEW d \in Device, CalmAt(d), Visible(d)' = Visible(d),
         NEW q \in Mine(d), AnswerBoard(q)
  PROVE  CalmAt(d)'
<1> DEFINE found == {p \in Playlist \ Master : SeesPin(d, p)}
           r == [q EXCEPT !.answered = TRUE, !.found = found]
<1>0. q \in boards /\ q.dev = d /\ q.view = view[d] /\ q \in BoardRecord
  BY DEF Mine, Typed, BoardTyped
<1>1. q.coll = "userPlaylists"
  BY <1>0 DEF AnswerBoard, BoardsSound, BoardRecord
<1>2. /\ r.dev = q.dev /\ r.view = q.view /\ r.coll = q.coll /\ r.found = found
  BY <1>0 DEF BoardRecord
<1>3. /\ boards' = (boards \ {q}) \cup {r}
      /\ UNCHANGED <<view, pins, where, info, expired>>
  BY <1>0 DEF AnswerBoard, sessionVars
<1>4. \A p \in Playlist \ Master : p \in found /\ p \notin expired /\ Near(d, p) <=> p \in Visible(d)
  BY DEF Visible
<1> HIDE DEF found, r
<1>5. Mine(d)' = (Mine(d) \ {q}) \cup {r}
  BY <1>0, <1>2, <1>3 DEF Mine
<1>6. \A s \in Mine(d) : s.coll = "userPlaylists" => s = q
  BY <1>1 DEF CalmAt
<1>7. \A s, t \in Mine(d)' : s.coll = t.coll => s = t
  BY <1>1, <1>2, <1>5, <1>6 DEF CalmAt
<1>8. ASSUME NEW p \in Playlist PROVE pins'[d][p] = PinsDue(d, p)'
  <2>1. \A coll : Waits(d, coll)' <=> Waits(d, coll)
    BY <1>2, <1>5 DEF Waits
  <2>2. PinsDue(d, p)' = PinsDue(d, p)
    BY <2>1 DEF PinsDue
  <2> QED
    BY <1>3, <2>2 DEF CalmAt
<1>9. ASSUME NEW s \in Mine(d)', s.coll = "userPlaylists" PROVE StillShows(s, d)'
  <2>1. s = r
    BY <1>5, <1>6, <1>9
  <2>2. \A p : Near(d, p)' <=> Near(d, p)
    BY <1>3 DEF Near
  <2> QED
    BY <1>2, <1>3, <1>4, <2>1, <2>2 DEF StillShows
<1> QED
  BY <1>7, <1>8, <1>9 DEF CalmAt

\* The callback of a calm reload adds the pins that are due.
LEMMA CalmArrives ==
  ASSUME Typed, Typed', BoardsSound, BornSeen, BornSeen', DeletionInv, [Next]_vars,
         NEW d \in Device, CalmAt(d), Visible(d)' = Visible(d),
         NEW q \in Mine(d), BoardArrives(q)
  PROVE  CalmAt(d)'
<1> DEFINE new == {p \in q.found : ~TooOld(d, p) /\ (p \in Master \/ Near(d, p))}
<1>0. q \in boards /\ q.dev = d /\ q.view = view[d] /\ q \in BoardRecord
  BY DEF Mine, Typed, BoardTyped
<1>1. /\ q.answered /\ boards' = boards \ {q}
      /\ UNCHANGED <<view, where, info, expired>>
  BY <1>0 DEF BoardArrives, sessionVars
<1>2. \A p \in Playlist : pins'[d][p] = IF p \in new THEN pins[d][p] + 1 ELSE pins[d][p]
  <2> DEFINE old == {p \in q.found : TooOld(d, p)}
             fresh == {p \in q.found \ old : p \in Master \/ Near(d, p)}
  <2>1. pins' = [pins EXCEPT ![d] = [p \in Playlist |-> IF p \in fresh THEN pins[d][p] + 1 ELSE pins[d][p]]]
    BY <1>0 DEF BoardArrives
  <2>2. fresh = new
    OBVIOUS
  <2>3. pins \in [Device -> [Playlist -> Nat]]
    BY DEF Typed, BoardTyped
  <2> HIDE DEF fresh, old, new
  <2> QED
    BY <2>1, <2>2, <2>3
<1>3. Mine(d)' = Mine(d) \ {q}
  BY <1>0, <1>1 DEF Mine
<1>4. \A s \in Mine(d) : s.coll = q.coll => s = q
  BY DEF CalmAt
<1>5. q.coll \in {"masterPlaylists", "userPlaylists"}
  BY <1>0 DEF BoardRecord
<1>6. \A p \in Playlist : p \in new <=> Collection(p) = q.coll /\ p \in Visible(d)
  <2>1. CASE q.coll = "masterPlaylists"
    <3>1. q.found = Master
      BY <1>0, <2>1 DEF BoardsSound
    <3>2. \A p \in Master : p \in Visible(d)
      BY MastersVisible
    <3> QED
      BY <2>1, <3>1, <3>2 DEF Collection, TooOld
  <2>2. CASE q.coll = "userPlaylists"
    <3>1. q.found \cap Master = {}
      BY <1>0, <2>2 DEF BoardsSound
    <3>2. StillShows(q, d)
      BY <1>1, <2>2 DEF CalmAt
    <3>3. ASSUME NEW p \in Playlist, p \notin Master
          PROVE  p \in new <=> p \in Visible(d)
      BY <3>2, <3>3 DEF StillShows, TooOld
    <3> QED
      BY <2>2, <3>1, <3>3 DEF Collection
  <2> QED
    BY <1>5, <2>1, <2>2
<1> HIDE DEF new
<1>7. \A s, t \in Mine(d)' : s.coll = t.coll => s = t
  BY <1>3 DEF CalmAt
<1>8. ASSUME NEW p \in Playlist PROVE pins'[d][p] = PinsDue(d, p)'
  <2>0. pins[d][p] = PinsDue(d, p)
    BY DEF CalmAt
  <2>1. CASE Collection(p) = q.coll
    <3>1. Waits(d, Collection(p)) /\ ~Waits(d, Collection(p))'
      BY <1>3, <1>4, <2>1 DEF Waits, Collection
    <3>2. pins[d][p] = 0
      BY <2>0, <3>1 DEF PinsDue
    <3>3. PinsDue(d, p)' = IF p \in Visible(d) THEN 1 ELSE 0
      BY <3>1 DEF PinsDue
    <3> QED
      BY <1>2, <1>6, <2>1, <3>2, <3>3
  <2>2. CASE Collection(p) # q.coll
    <3>1. Waits(d, Collection(p))' <=> Waits(d, Collection(p))
      BY <1>3, <2>2 DEF Waits, Collection
    <3>2. PinsDue(d, p)' = PinsDue(d, p)
      BY <3>1 DEF PinsDue, Collection
    <3> QED
      BY <1>2, <1>6, <2>0, <2>2, <3>2
  <2> QED
    BY <2>1, <2>2
<1>9. ASSUME NEW s \in Mine(d)', s.coll = "userPlaylists", s.answered PROVE StillShows(s, d)'
  <2>1. s \in boards /\ StillShows(s, d)
    BY <1>3, <1>9 DEF CalmAt, Mine
  <2> QED
    BY <2>1, StillShowsStays
<1> QED
  BY <1>7, <1>8, <1>9 DEF CalmAt

\* A phone that is calm after a step, by what the step does to its map view.
LEMMA CalmNext ==
  ASSUME Typed, Typed', CalmTyped, MapInv, BornSeen, BornSeen', DeletionInv, [Next]_vars,
         NEW d \in Device, view'[d] # 0, calm'[d]
  PROVE  CalmAt(d)'
<1> DEFINE Kept == calm[d] /\ Visible(d)' = Visible(d)
<1>0. /\ BoardsSound
      /\ view[d] # 0 /\ calm[d] => CalmAt(d)
      /\ pins \in [Device -> [Playlist -> Nat]] /\ view \in [Device -> Nat] /\ reloads \in Nat
  BY BoardAssumption DEF MapInv, CalmReloads, Typed, BoardTyped
<1>1. ASSUME UNCHANGED <<view, pins, boards, reloads>> PROVE CalmAt(d)'
  <2>1. Kept
    BY <1>1, KeptCalm
  <2>2. Mine(d)' = Mine(d)
    BY <1>1 DEF Mine
  <2> QED
    BY <1>0, <1>1, <2>1, <2>2, CalmQuiet
<1>2. ASSUME NEW e \in Device, Reload(e), OnlyView(e) PROVE CalmAt(d)'
  <2>1. KeepsCalm
    BY <1>0, <1>2 DEF Reload, Next, BoardFails, vars, boardVars
  <2>2. PICK others \in SUBSET boards :
           /\ boards' = others \cup {MasterQuery(e, view'[e]), UserQuery(e, view'[e])}
           /\ \A q \in boards \ others : q.dev = e
    BY <1>2 DEF Reload
  <2> DEFINE m == MasterQuery(e, view'[e])
             u == UserQuery(e, view'[e])
  <2>3. m.dev = e /\ u.dev = e /\ m.n = reloads
    BY DEF MasterQuery, UserQuery
  <2> HIDE DEF m, u
  <2>4. CASE e = d
    <3>1. m \in boards' /\ m \notin boards
      BY <1>0, <2>2, <2>3 DEF BoardsSound, m
    <3>2. Undisturbed(d)
      BY <2>1, <2>3, <2>4, <3>1, StartsCalm
    <3> QED
      BY <1>2, <2>4, <3>2, CalmReload
  <2>5. CASE e # d
    <3>1. Kept
      BY <2>1, <2>2, <2>3, <2>5, StaysCalm DEF m, u
    <3>2. view'[d] = view[d] /\ pins'[d] = pins[d]
      BY <1>0, <1>2, <2>5 DEF OnlyView, Reload
    <3>3. Mine(d)' = Mine(d)
      BY <2>2, <2>3, <2>5, <3>2 DEF Mine, m, u
    <3> QED
      BY <1>0, <3>1, <3>2, <3>3, CalmQuiet
  <2> QED
    BY <2>4, <2>5
<1>3. ASSUME NEW e \in Device, Restart(e), auth[e] = Nobody PROVE CalmAt(d)'
  <2>1. /\ view' = [view EXCEPT ![e] = 0] /\ pins' = [pins EXCEPT ![e] = NoPins]
        /\ boards' = {q \in boards : q.dev # e} /\ reloads' = reloads
    BY <1>3 DEF Restart
  <2>2. e # d /\ view'[d] = view[d] /\ pins'[d] = pins[d]
    BY <1>0, <2>1
  <2>3. Mine(d)' = Mine(d)
    BY <2>1, <2>2 DEF Mine
  <2>4. Kept
    BY <2>1, KeptCalm
  <2> QED
    BY <1>0, <2>2, <2>3, <2>4, CalmQuiet
<1>4. ASSUME NEW q \in boards, AnswerBoard(q) PROVE CalmAt(d)'
  <2> DEFINE found == {p \in Playlist \ Master : SeesPin(q.dev, p)}
             r == [q EXCEPT !.answered = TRUE, !.found = found]
  <2>1. /\ boards' = (boards \ {q}) \cup {r}
        /\ UNCHANGED <<view, pins, reloads>>
    BY <1>4 DEF AnswerBoard
  <2>2. r.dev = q.dev /\ r.view = q.view /\ r.n = q.n /\ r.answered /\ ~q.answered
    BY <1>4 DEF AnswerBoard, Typed, BoardTyped, BoardRecord
  <2> HIDE DEF found, r
  <2>3. \A s \in boards' \ boards : s.n # reloads
    BY <1>0, <2>1, <2>2 DEF BoardsSound, Typed, BoardTyped, BoardRecord
  <2>4. Kept
    BY <2>3, KeptCalm
  <2>5. CASE q \in Mine(d)
    BY <1>0, <1>4, <2>1, <2>4, <2>5, CalmAnswer
  <2>6. CASE q \notin Mine(d)
    <3>1. Mine(d)' = Mine(d)
      BY <2>1, <2>2, <2>6 DEF Mine
    <3> QED
      BY <1>0, <2>1, <2>4, <3>1, CalmQuiet
  <2> QED
    BY <2>5, <2>6
<1>5. ASSUME NEW q \in boards, BoardArrives(q) PROVE CalmAt(d)'
  <2>1. boards' = boards \ {q} /\ view' = view
    BY <1>5 DEF BoardArrives
  <2>4. Kept
    BY <2>1, KeptCalm
  <2>5. CASE q \in Mine(d)
    BY <1>0, <1>5, <2>1, <2>4, <2>5, CalmArrives
  <2>6. CASE q \notin Mine(d)
    <3>1. Mine(d)' = Mine(d)
      BY <2>1, <2>6 DEF Mine
    <3>2. pins'[d] = pins[d]
      BY <1>0, <1>5, <2>6 DEF BoardArrives, Mine
    <3> QED
      BY <1>0, <2>1, <2>4, <3>1, <3>2, CalmQuiet
  <2> QED
    BY <2>5, <2>6
<1>6. ASSUME NEW q \in boards, BoardFails(q), calm' = [calm EXCEPT ![q.dev] = FALSE]
      PROVE  CalmAt(d)'
  <2>1. boards' = boards \ {q} /\ UNCHANGED <<view, pins>>
    BY <1>6 DEF BoardFails
  <2>2. q.dev # d /\ calm[d]
    BY <1>6 DEF CalmTyped
  <2>3. Mine(d)' = Mine(d)
    BY <2>1, <2>2 DEF Mine
  <2>4. Visible(d)' = Visible(d)
    BY <1>6 DEF BoardFails, Visible, SeesPin, Pending, Near, sessionVars
  <2> QED
    BY <1>0, <2>1, <2>2, <2>3, <2>4, CalmQuiet
<1> QED
  BY <1>1, <1>2, <1>3, <1>4, <1>5, <1>6, MapSteps DEF boardVars

LEMMA MapNext == TypeOK /\ DeletionInv /\ MapInv /\ [Next]_vars => MapInv'
<1> SUFFICES ASSUME TypeOK, DeletionInv, MapInv, [Next]_vars PROVE MapInv'
  OBVIOUS
<1>1. Typed /\ CalmTyped /\ BornSeen
  BY TypeOKParts, SeenIfBorn
<1>2. TypeOK' /\ DeletionInv'
  BY <1>1, TypedNext, DeletionNext
<1>3. Typed' /\ BornSeen'
  BY <1>2, TypeOKParts, SeenIfBorn, PTL
<1>4. BoardsSound'
  BY <1>1, <1>3, SoundNext DEF MapInv
<1>5. CalmReloads'
  BY <1>1, <1>3, CalmNext DEF CalmReloads
<1> QED
  BY <1>4, <1>5 DEF MapInv

\* However the answers come and whatever other phones, taps, deletions and edits
\* do meanwhile, a reload that starts alone and during which what is visible does
\* not change leaves one pin for every playlist that is visible and no other
\* (mapVC.updateAnnotations, addStaticAnnotations, addUserAnnotations).
THEOREM CalmReloadsAreRight == Spec => []MapIsRight
<1>1. Init => TypeOK /\ DeletionInv /\ MapInv
  BY TypedInit, DeletionInit, MapInit
<1>2. TypeOK /\ DeletionInv /\ MapInv /\ [Next]_vars => (TypeOK /\ DeletionInv /\ MapInv)'
  BY TypedNext, DeletionNext, MapNext, TypeOKParts
<1>3. TypeOK /\ DeletionInv /\ MapInv => MapIsRight
  <2> SUFFICES ASSUME TypeOK, MapInv, NEW d \in Device, view[d] # 0, calm[d],
                      \A q \in boards : q.dev = d => q.view # view[d]
               PROVE  pins[d] = [p \in Playlist |-> IF p \in Visible(d) THEN 1 ELSE 0]
    BY DEF MapIsRight
  <2>1. Mine(d) = {}
    BY DEF Mine
  <2>2. \A p \in Playlist : pins[d][p] = IF p \in Visible(d) THEN 1 ELSE 0
    BY <2>1 DEF MapInv, CalmReloads, CalmAt, PinsDue, Waits
  <2>3. pins[d] \in [Playlist -> Nat]
    BY DEF TypeOK
  <2> QED
    BY <2>2, <2>3
<1> QED
  BY <1>1, <1>2, <1>3, PTL DEF Spec
=============================================================================
