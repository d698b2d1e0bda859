------------------------ MODULE PlaylistsFoundProofs ------------------------
(***************************************************************************)
(* Proofs about PlaylistsFound and PatientFinding, for any sets of phones, *)
(* users and playlists and any number of taps.                             *)
(***************************************************************************)
EXTENDS PatientFinding, SessionProofs, TLAPS

-----------------------------------------------------------------------------
(* Type correctness *)

LEMMA TypeOKInit == Init => TypeOK
<1> SUFFICES ASSUME Init PROVE TypeOK
  OBVIOUS
<1>1. SessionTypeOK(Int)
  BY FoundAssumption, SessionInitType DEF Init
<1> QED
  BY <1>1, FoundAssumption DEF Init, TypeOK, Account, Email

LEMMA TypeOKUserStep == TypeOK /\ UserStep => TypeOK'
<1> SUFFICES ASSUME TypeOK, NEW d \in Device,
                    ComeAndGo(d) \/ Restart(d) \/ \E loc \in Location : Tap(d, loc)
             PROVE  TypeOK'
  BY DEF UserStep
<1>1. CASE ComeAndGo(d)
  <2>1. SessionTypeOK(Int)'
    <3>1. SessionTypeOK(Int) /\ Initial \in Int
      BY FoundAssumption DEF TypeOK
    <3>2. \/ \E u \in User : SignIn(d, u)
          \/ MapAppears(d) \/ SignOut(d) \/ Relaunch(d)
      BY <1>1 DEF ComeAndGo
    <3> QED
      BY <3>1, <3>2, SessionUserType
  <2> QED
    BY <1>1, <2>1 DEF TypeOK, ComeAndGo, docVars
<1>2. CASE Restart(d)
  <2>1. marks' \in [Device -> [Account -> [Playlist -> Seq(MarkRecord)]]]
    <3>1. \A r \in MarkRecord : [r EXCEPT !.attached = FALSE] \in MarkRecord
      BY DEF MarkRecord
    <3>2. ASSUME NEW a \in Account, NEW p \in Playlist
          PROVE  Detached(marks[d][a][p]) \in Seq(MarkRecord)
      <4>1. marks[d][a][p] \in Seq(MarkRecord)
        BY DEF TypeOK
      <4> QED
        BY <3>1, <4>1, DetachedType
    <3> QED
      BY <1>2, <3>2 DEF TypeOK, Restart
  <2>2. counts' \in [Device -> [Account -> [User -> Seq(CountRecord)]]]
    <3>1. \A r \in CountRecord : [r EXCEPT !.attached = FALSE] \in CountRecord
      BY DEF CountRecord
    <3>2. ASSUME NEW a \in Account, NEW u \in User
          PROVE  Detached(counts[d][a][u]) \in Seq(CountRecord)
      <4>1. counts[d][a][u] \in Seq(CountRecord)
        BY DEF TypeOK
      <4> QED
        BY <3>1, <4>1, DetachedType
    <3> QED
      BY <1>2, <3>2 DEF TypeOK, Restart
  <2>3. SessionTypeOK(Int)'
    <3>1. SessionTypeOK(Int) /\ Initial \in Int
      BY FoundAssumption DEF TypeOK
    <3>2. \/ \E u \in User : SignIn(d, u)
          \/ MapAppears(d) \/ SignOut(d) \/ Relaunch(d)
      BY <1>2 DEF Restart
    <3> QED
      BY <3>1, <3>2, SessionUserType
  <2> QED
    BY <1>2, <2>1, <2>2, <2>3 DEF TypeOK, Restart, docVars
<1>3. ASSUME NEW loc \in Location, Tap(d, loc) PROVE TypeOK'
  <2>1. checks' \subseteq CheckRecord
    <3>1. NoLists \in [Playlist -> Seq(Email)]
      BY DEF NoLists
    <3>2. ASSUME NEW coll \in Collection
          PROVE  [tap |-> taps, dev |-> d, coll |-> coll, loc |-> loc,
                  answered |-> FALSE, lists |-> NoLists] \in CheckRecord
      BY <3>1 DEF TypeOK, CheckRecord
    <3> QED
      BY <1>3, <3>2 DEF TypeOK, Tap
  <2> QED
    BY <1>3, <2>1, FoundAssumption, SessionStutter DEF TypeOK, Tap, docVars
<1> QED
  BY <1>1, <1>2, <1>3

LEMMA TypeOKLoadStep == TypeOK /\ LoadStep => TypeOK'
<1> SUFFICES ASSUME TypeOK, NEW l \in loads, Load(l) PROVE TypeOK'
  BY DEF LoadStep
<1> DEFINE queue == counts[l.dev][auth[l.dev]][l.email]
<1>1. l.dev \in Device /\ l.email \in User /\ auth[l.dev] \in Account
  BY DEF TypeOK, SessionTypeOK, LoadRecord
<1>2. queue \in Seq(CountRecord) /\ totalPlaylistsFound[l.email] \in Int \cup {NotSet}
  BY <1>1 DEF TypeOK
<1>3. ASSUME NEW i \in DOMAIN queue PROVE queue[i].val \in Int
  <2>1. queue[i] \in CountRecord
    BY <1>2, ElementOf
  <2> QED
    BY <2>1 DEF CountRecord
<1>4. SeenCount(l.dev, l.email) \in Int \cup {NotSet}
  BY <1>2, <1>3, OverlayCases DEF SeenCount
<1>5. SessionTypeOK(Int)'
  BY <1>4, SessionLoadType DEF Load, TypeOK
<1> QED
  BY <1>5 DEF Load, TypeOK, docVars

LEMMA TypeOKCheckStep == TypeOK /\ CheckStep => TypeOK'
<1> SUFFICES ASSUME TypeOK, NEW c \in checks,
                    AnswerCheck(c) \/ CheckArrives(c) \/ CheckFails(c)
             PROVE  TypeOK'
  BY DEF CheckStep
<1> DEFINE d == c.dev
           a == auth[d]
<1>0. /\ c \in CheckRecord /\ d \in Device /\ a \in Account /\ c.tap \in Nat
      /\ c.lists \in [Playlist -> Seq(Email)]
  BY DEF TypeOK, SessionTypeOK, CheckRecord
<1>1. CASE AnswerCheck(c)
  <2> DEFINE seen(p) == IF p \in DocumentsAt(c.coll, c.loc)
                          THEN Overlay(marks[d][a][p], hasFound[p])
                          ELSE <<>>
  <2>1. ASSUME NEW p \in Playlist PROVE seen(p) \in Seq(Email)
    <3>1. marks[d][a][p] \in Seq(MarkRecord) /\ hasFound[p] \in Seq(Email)
      BY <1>0 DEF TypeOK
    <3>2. ASSUME NEW i \in DOMAIN marks[d][a][p]
          PROVE  marks[d][a][p][i].val \in Seq(Email)
      <4>1. marks[d][a][p][i] \in MarkRecord
        BY <3>1, ElementOf
      <4> QED
        BY <4>1 DEF MarkRecord
    <3> QED
      BY <3>1, <3>2, OverlayCases
  <2>2. checks' \subseteq CheckRecord
    <3> DEFINE answer == [p \in Playlist |-> seen(p)]
    <3>1. answer \in [Playlist -> Seq(Email)]
      BY <2>1
    <3> HIDE DEF seen, answer
    <3>2. [c EXCEPT !.answered = TRUE, !.lists = answer] \in CheckRecord
      BY <1>0, <3>1 DEF CheckRecord
    <3> QED
      BY <1>1, <3>2 DEF TypeOK, AnswerCheck, answer, seen
  <2> QED
    BY <1>1, <2>2, SessionStutter DEF TypeOK, AnswerCheck, docVars
<1>2. CASE CheckArrives(c)
  <2>1. marks' \in [Device -> [Account -> [Playlist -> Seq(MarkRecord)]]]
    <3> DEFINE queue(p) == IF IsNew(c, p) THEN Append(marks[d][a][p], Mark(c, p))
                                         ELSE marks[d][a][p]
    <3>1. ASSUME NEW p \in Playlist PROVE queue(p) \in Seq(MarkRecord)
      <4>1. info[d].email \in Email /\ Append(c.lists[p], info[d].email) \in Seq(Email)
        BY <1>0 DEF TypeOK, SessionTypeOK
      <4>2. Mark(c, p) \in MarkRecord
        BY <1>0, <4>1 DEF Mark, MarkRecord
      <4>3. marks[d][a][p] \in Seq(MarkRecord)
        BY <1>0 DEF TypeOK
      <4> QED
        BY <4>2, <4>3
    <3>2. marks' = [marks EXCEPT ![d][a] = [p \in Playlist |-> queue(p)]]
      BY <1>2 DEF CheckArrives
    <3> HIDE DEF queue
    <3> QED
      BY <1>0, <3>1, <3>2 DEF TypeOK
  <2> QED
    BY <1>2, <2>1, SessionStutter DEF TypeOK, CheckArrives, docVars
<1>3. CASE CheckFails(c)
  BY <1>3, SessionStutter DEF TypeOK, CheckFails, docVars
<1> QED
  BY <1>1, <1>2, <1>3

LEMMA TypeOKMarkStep == TypeOK /\ MarkStep => TypeOK'
<1> SUFFICES ASSUME TypeOK, MarkStep PROVE TypeOK'
  OBVIOUS
<1>0. ASSUME NEW d \in Device, NEW p \in Playlist, marks[d][auth[d]][p] # <<>>
      PROVE  /\ auth[d] \in Account
             /\ Head(marks[d][auth[d]][p]) \in MarkRecord
             /\ [marks EXCEPT ![d][auth[d]][p] = Tail(@)] \in Queues(Playlist, MarkRecord)
  <2>1. auth[d] \in Account /\ marks[d][auth[d]][p] \in Seq(MarkRecord)
    BY DEF TypeOK, SessionTypeOK
  <2>2. /\ Head(marks[d][auth[d]][p]) \in MarkRecord
        /\ Tail(marks[d][auth[d]][p]) \in Seq(MarkRecord)
    BY <1>0, <2>1, Dequeue
  <2> QED
    BY <2>1, <2>2, PutQueue DEF TypeOK, Queues
<1>1. ASSUME NEW d \in Device, NEW p \in Playlist, CommitMark(d, p) PROVE TypeOK'
  <2> DEFINE w == Head(marks[d][auth[d]][p])
  <2>1. w \in MarkRecord /\ w.tap \in Nat /\ w.email \in Email /\ w.val \in Seq(Email)
    BY <1>0, <1>1 DEF CommitMark, MarkRecord
  <2>2. Range(w.val) \subseteq Email
    BY <2>1 DEF Range
  <2>3. /\ hasFound' \in [Playlist -> Seq(Email)]
        /\ recorded' \in [Playlist -> SUBSET Email]
    BY <1>1, <2>1, <2>2 DEF TypeOK, CommitMark
  <2>4. marks' \in [Device -> [Account -> [Playlist -> Seq(MarkRecord)]]]
    <3>1. \/ marks' = marks
          \/ marks' = [marks EXCEPT ![d][auth[d]][p] = Tail(@)]
      BY <1>1 DEF CommitMark
    <3>2. marks[d][auth[d]][p] # <<>>
      BY <1>1 DEF CommitMark
    <3>3. [marks EXCEPT ![d][auth[d]][p] = Tail(@)] \in Queues(Playlist, MarkRecord)
      BY <1>0, <3>2
    <3> QED
      BY <3>1, <3>3 DEF TypeOK, Queues
  <2>5. tallies' \subseteq TallyRecord /\ finds' \subseteq Nat \X Playlist
    <3>1. /\ [dev |-> d, tap |-> w.tap, playlist |-> p, email |-> w.email] \in TallyRecord
          /\ <<w.tap, p>> \in Nat \X Playlist
      BY <2>1 DEF TallyRecord
    <3>2. (tallies' = tallies /\ finds' = finds) \/ LookUp(d, p, w)
      BY <1>1, Zenon DEF CommitMark
    <3>3. tallies \subseteq TallyRecord /\ finds \subseteq Nat \X Playlist
      BY DEF TypeOK
    <3> HIDE DEF w
    <3>4. \/ tallies' = tallies /\ finds' = finds
          \/ /\ tallies' = tallies
                 \cup {[dev |-> d, tap |-> w.tap, playlist |-> p, email |-> w.email]}
             /\ finds' = finds \cup {<<w.tap, p>>}
      BY <3>2 DEF LookUp
    <3> QED
      BY <3>1, <3>3, <3>4
  <2> QED
    BY <1>1, <2>3, <2>4, <2>5, SessionStutter DEF TypeOK, CommitMark
<1>2. ASSUME NEW d \in Device, NEW p \in Playlist, RejectMark(d, p) PROVE TypeOK'
  BY <1>0, <1>2, SessionStutter DEF TypeOK, RejectMark, Queues, docVars
<1> QED
  BY <1>1, <1>2 DEF MarkStep

LEMMA TypeOKCountStep == TypeOK /\ CountStep => TypeOK'
<1> SUFFICES ASSUME TypeOK, CountStep PROVE TypeOK'
  OBVIOUS
<1>0. ASSUME NEW d \in Device, NEW u \in User, counts[d][auth[d]][u] # <<>>
      PROVE  /\ auth[d] \in Account
             /\ Head(counts[d][auth[d]][u]) \in CountRecord
             /\ [counts EXCEPT ![d][auth[d]][u] = Tail(@)] \in Queues(User, CountRecord)
  <2>1. auth[d] \in Account /\ counts[d][auth[d]][u] \in Seq(CountRecord)
    BY DEF TypeOK, SessionTypeOK
  <2>2. /\ Head(counts[d][auth[d]][u]) \in CountRecord
        /\ Tail(counts[d][auth[d]][u]) \in Seq(CountRecord)
    BY <1>0, <2>1, Dequeue
  <2> QED
    BY <2>1, <2>2, PutQueue DEF TypeOK, Queues
<1>1. ASSUME NEW t \in tallies, TallyArrives(t) PROVE TypeOK'
  <2>1. /\ t.dev \in Device /\ t.tap \in Nat /\ t.playlist \in Playlist
        /\ t.email \in Account /\ auth[t.dev] \in Account /\ info[t.dev].field + 1 \in Int
    BY DEF TypeOK, SessionTypeOK, TallyRecord, Email
  <2> DEFINE w == [tap |-> t.tap, playlist |-> t.playlist,
                   val |-> info[t.dev].field + 1, attached |-> TRUE]
  <2>2. w \in CountRecord
    BY <2>1 DEF CountRecord
  <2> HIDE DEF w
  <2>3. counts' \in [Device -> [Account -> [User -> Seq(CountRecord)]]]
    <3>1. CASE t.email = Nobody
      BY <1>1, <3>1 DEF TypeOK, TallyArrives
    <3>2. CASE t.email # Nobody
      <4>1. t.email \in User
        BY <2>1, <3>2 DEF Account
      <4>2. counts[t.dev][auth[t.dev]][t.email] \in Seq(CountRecord)
        BY <2>1, <4>1 DEF TypeOK
      <4>3. Append(counts[t.dev][auth[t.dev]][t.email], w) \in Seq(CountRecord)
        BY <2>2, <4>2
      <4>4. counts' = [counts EXCEPT ![t.dev][auth[t.dev]][t.email] =
                         Append(counts[t.dev][auth[t.dev]][t.email], w)]
        BY <1>1, <2>1, <3>2 DEF TypeOK, TallyArrives, NextCount, w
      <4> QED
        BY <2>1, <4>1, <4>3, <4>4 DEF TypeOK
    <3> QED
      BY <3>1, <3>2
  <2> QED
    BY <1>1, <2>3, SessionStutter DEF TypeOK, TallyArrives, docVars
<1>2. ASSUME NEW t \in tallies, TallyFails(t) PROVE TypeOK'
  BY <1>2, SessionStutter DEF TypeOK, TallyFails, docVars
<1>3. ASSUME NEW d \in Device, NEW u \in User, CommitCount(d, u) PROVE TypeOK'
  <2> DEFINE w == Head(counts[d][auth[d]][u])
  <2>1. w \in CountRecord /\ w.tap \in Nat /\ w.playlist \in Playlist /\ w.val \in Int
    BY <1>0, <1>3 DEF CommitCount, CountRecord
  <2>2. totalPlaylistsFound' \in [User -> Int \cup {NotSet}]
    BY <1>3, <2>1 DEF TypeOK, CommitCount
  <2>3. counts' \in [Device -> [Account -> [User -> Seq(CountRecord)]]]
    <3>1. \/ counts' = counts
          \/ counts' = [counts EXCEPT ![d][auth[d]][u] = Tail(@)]
      BY <1>3 DEF CommitCount
    <3>2. counts[d][auth[d]][u] # <<>>
      BY <1>3 DEF CommitCount
    <3>3. [counts EXCEPT ![d][auth[d]][u] = Tail(@)] \in Queues(User, CountRecord)
      BY <1>0, <3>2
    <3> QED
      BY <3>1, <3>3 DEF TypeOK, Queues
  <2>4. info' \in [Device -> [email : Email, field : Int]]
    <3>1. info[d] \in [email : Email, field : Int]
      BY DEF TypeOK, SessionTypeOK
    <3>2. [info[d] EXCEPT !.field = @ + 1] \in [email : Email, field : Int]
      BY <3>1
    <3>3. \/ info' = info
          \/ info' = [info EXCEPT ![d] = [info[d] EXCEPT !.field = @ + 1]]
      BY <1>3 DEF TypeOK, CommitCount, Bump
    <3> QED
      BY <3>2, <3>3 DEF TypeOK, SessionTypeOK
  <2> QED
    <3>1. SessionTypeOK(Int)'
      BY <1>3, <2>4 DEF TypeOK, SessionTypeOK, LoadRecord, CommitCount
    <3> QED
      BY <1>3, <2>2, <2>3, <3>1 DEF TypeOK, CommitCount
<1>4. ASSUME NEW d \in Device, NEW u \in User, RejectCount(d, u) PROVE TypeOK'
  BY <1>0, <1>4, SessionStutter DEF TypeOK, RejectCount, Queues, docVars
<1> QED
  BY <1>1, <1>2, <1>3, <1>4 DEF CountStep

LEMMA TypeOKNext == TypeOK /\ [Next]_vars => TypeOK'
<1> SUFFICES ASSUME TypeOK, [Next]_vars PROVE TypeOK'
  OBVIOUS
<1>1. CASE Next
  BY <1>1, TypeOKUserStep, TypeOKLoadStep, TypeOKCheckStep, TypeOKMarkStep,
     TypeOKCountStep DEF Next
<1>2. CASE UNCHANGED vars
  BY <1>2, SessionStutter DEF TypeOK, vars, docVars
<1> QED
  BY <1>1, <1>2

\* Every callback of mapVC.swift finds its data in the shape it reads it,
\* whatever requests of whatever sessions are still on their way.
THEOREM TypeCorrect == Spec => []TypeOK
<1>1. Init => TypeOK
  BY TypeOKInit
<1>2. TypeOK /\ [Next]_vars => TypeOK'
  BY TypeOKNext
<1> QED
  BY <1>1, <1>2, PTL DEF Spec

-----------------------------------------------------------------------------
(* What the steps do to the queues of hasFound writes *)

\* Every write queued after a step was queued before it (perhaps detached),
\* or is the one CheckArrives appends.
OldWrite(w) ==
  \E d \in Device, a \in Account, p \in Playlist :
    \E i \in DOMAIN marks[d][a][p] : /\ w.val = marks[d][a][p][i].val
                                     /\ w.email = marks[d][a][p][i].email

NewWrite(w) ==
  \E c \in checks, p \in Playlist :
    LET email == info[c.dev].email
    IN  /\ w.email = email
        /\ email \in Email
        /\ email \notin Range(c.lists[p])
        /\ w.val = Append(c.lists[p], email)

LEMMA WritesAreOldOrNew ==
  ASSUME TypeOK, [Next]_vars,
         NEW d \in Device, NEW a \in Account, NEW p \in Playlist,
         NEW i \in DOMAIN marks'[d][a][p]
  PROVE  OldWrite(marks'[d][a][p][i]) \/ NewWrite(marks'[d][a][p][i])
<1> DEFINE w == marks'[d][a][p][i]
<1>0. /\ marks \in Queues(Playlist, MarkRecord)
      /\ marks[d][a][p] \in Seq(MarkRecord)
  BY DEF TypeOK, Queues
<1>1. CASE marks' = marks
  BY <1>1 DEF OldWrite
<1>2. ASSUME NEW e \in Device, Restart(e) PROVE OldWrite(w)
  <2>1. CASE d = e
    <3>1. marks'[d][a][p] = Detached(marks[d][a][p])
      BY <1>0, <1>2, <2>1 DEF Restart, Queues
    <3>2. i \in DOMAIN marks[d][a][p] /\ w = [marks[d][a][p][i] EXCEPT !.attached = FALSE]
      BY <3>1 DEF Detached
    <3>3. marks[d][a][p][i] \in MarkRecord
      BY <1>0, <3>2, ElementOf
    <3>4. w.val = marks[d][a][p][i].val /\ w.email = marks[d][a][p][i].email
      BY <3>2, <3>3 DEF MarkRecord
    <3> QED
      BY <3>2, <3>4 DEF OldWrite
  <2>2. CASE d # e
    <3>1. marks'[d][a][p] = marks[d][a][p]
      BY <1>0, <1>2, <2>2 DEF Restart, Queues
    <3> QED
      BY <3>1 DEF OldWrite
  <2> QED
    BY <2>1, <2>2
<1>3. ASSUME NEW c \in checks, CheckArrives(c) PROVE OldWrite(w) \/ NewWrite(w)
  <2> DEFINE email == info[c.dev].email
             mark == [tap |-> c.tap, email |-> email,
                      val |-> Append(c.lists[p], email), attached |-> TRUE]
  <2>1. /\ c.dev \in Device /\ auth[c.dev] \in Account /\ email \in Email
    BY DEF TypeOK, SessionTypeOK, CheckRecord
  <2>2. \/ marks'[d][a][p] = marks[d][a][p]
        \/ /\ marks'[d][a][p] = Append(marks[d][a][p], mark)
           /\ email \notin Range(c.lists[p])
    BY <1>0, <1>3, <2>1 DEF CheckArrives, IsNew, Mark, Queues
  <2>3. \/ i \in DOMAIN marks[d][a][p] /\ w = marks[d][a][p][i]
        \/ w = mark /\ email \notin Range(c.lists[p])
    <3> HIDE DEF mark
    <3>1. CASE marks'[d][a][p] = marks[d][a][p]
      BY <3>1
    <3>2. CASE /\ marks'[d][a][p] = Append(marks[d][a][p], mark)
               /\ email \notin Range(c.lists[p])
      BY <1>0, <3>2, Appended
    <3> QED
      BY <2>2, <3>1, <3>2
  <2>4. CASE i \in DOMAIN marks[d][a][p] /\ w = marks[d][a][p][i]
    BY <2>4 DEF OldWrite
  <2>5. CASE w = mark /\ email \notin Range(c.lists[p])
    <3>1. w.email = email /\ w.val = Append(c.lists[p], email)
      BY <2>5
    <3> HIDE DEF w
    <3> QED
      BY <2>1, <2>5, <3>1 DEF NewWrite
  <2> QED
    BY <2>3, <2>4, <2>5
<1>4. ASSUME NEW e \in Device, NEW q \in Playlist, marks[e][auth[e]][q] # <<>>,
             marks' = [marks EXCEPT ![e][auth[e]][q] = Tail(@)]
      PROVE  OldWrite(w)
  <2>1. auth[e] \in Account /\ marks[e][auth[e]][q] \in Seq(MarkRecord)
    BY DEF TypeOK, SessionTypeOK
  <2>2. Tail(marks[e][auth[e]][q]) \in Seq(MarkRecord)
    BY <1>4, <2>1, Dequeue
  <2>3. \/ marks'[d][a][p] = marks[d][a][p]
        \/ marks'[d][a][p] = Tail(marks[d][a][p]) /\ marks[d][a][p] # <<>>
    BY <1>0, <1>4, <2>1, <2>2, PutQueue
  <2>4. \E j \in DOMAIN marks[d][a][p] : w = marks[d][a][p][j]
    <3>1. CASE marks'[d][a][p] = marks[d][a][p]
      BY <3>1
    <3>2. CASE marks'[d][a][p] = Tail(marks[d][a][p]) /\ marks[d][a][p] # <<>>
      <4> DEFINE j == i + 1
      <4>1. j \in DOMAIN marks[d][a][p] /\ w = marks[d][a][p][j]
        BY <1>0, <3>2, Dequeue
      <4> QED
        BY <4>1
    <3> QED
      BY <2>3, <3>1, <3>2
  <2> QED
    BY <2>4 DEF OldWrite
<1>5. \/ marks' = marks
      \/ \E e \in Device : Restart(e)
      \/ \E c \in checks : CheckArrives(c)
      \/ \E e \in Device, q \in Playlist : /\ marks[e][auth[e]][q] # <<>>
                                           /\ marks' = [marks EXCEPT ![e][auth[e]][q] = Tail(@)]
  BY DEF Next, vars, UserStep, ComeAndGo, Tap, LoadStep, Load, CheckStep, AnswerCheck,
         CheckFails, MarkStep, CommitMark, RejectMark,
         CountStep, TallyArrives, TallyFails, CommitCount, RejectCount
<1> QED
  BY <1>1, <1>2, <1>3, <1>4, <1>5

-----------------------------------------------------------------------------
(* No list names a finder twice *)

LEMMA AppendNew ==
  ASSUME NEW S, NEW s \in Seq(S), NEW e \in S, IsInjective(s), e \notin Range(s)
  PROVE  IsInjective(Append(s, e))
<1>1. \A i \in 1..Len(s) : s[i] # e
  BY DEF Range
<1>2. /\ DOMAIN s = 1..Len(s) /\ Len(s) \in Nat
      /\ DOMAIN Append(s, e) = 1..Len(s) + 1
      /\ \A i \in 1..Len(s) : Append(s, e)[i] = s[i]
      /\ Append(s, e)[Len(s) + 1] = e
  OBVIOUS
<1> QED
  BY <1>1, <1>2 DEF IsInjective

LEMMA DistinctInit == Init => DistinctInv
<1> SUFFICES ASSUME Init PROVE DistinctInv
  OBVIOUS
<1>1. IsInjective(<<>>)
  BY DEF IsInjective
<1> QED
  BY <1>1 DEF Init, DistinctInv, NoDuplicateFinders

LEMMA DistinctNext == TypeOK /\ DistinctInv /\ [Next]_vars => DistinctInv'
<1> SUFFICES ASSUME TypeOK, DistinctInv, [Next]_vars PROVE DistinctInv'
  OBVIOUS
\* The queued lists.
<1>1. ASSUME NEW d \in Device, NEW a \in Account, NEW p \in Playlist,
             NEW i \in DOMAIN marks'[d][a][p]
      PROVE  IsInjective(marks'[d][a][p][i].val)
  <2> DEFINE w == marks'[d][a][p][i]
  <2>1. CASE OldWrite(w)
    BY <2>1 DEF OldWrite, DistinctInv
  <2>2. CASE NewWrite(w)
    <3>1. PICK c \in checks, q \in Playlist :
            /\ info[c.dev].email \in Email
            /\ info[c.dev].email \notin Range(c.lists[q])
            /\ w.val = Append(c.lists[q], info[c.dev].email)
      BY <2>2 DEF NewWrite
    <3>2. c.lists[q] \in Seq(Email)
      BY DEF TypeOK, CheckRecord
    <3> QED
      BY <3>1, <3>2, AppendNew DEF DistinctInv
  <2> QED
    BY <2>1, <2>2, WritesAreOldOrNew
\* The stored lists: only CommitMark changes them.
<1>2. NoDuplicateFinders'
  <2>1. CASE hasFound' = hasFound
    BY <2>1 DEF DistinctInv, NoDuplicateFinders
  <2>2. ASSUME NEW d \in Device, NEW p \in Playlist, CommitMark(d, p)
        PROVE  NoDuplicateFinders'
    <3>1. auth[d] \in Account /\ marks[d][auth[d]][p] \in Seq(MarkRecord)
      BY DEF TypeOK, SessionTypeOK
    <3>2. IsInjective(Head(marks[d][auth[d]][p]).val)
      <4>1. /\ Head(marks[d][auth[d]][p]) = marks[d][auth[d]][p][1]
            /\ 1 \in DOMAIN marks[d][auth[d]][p]
        BY <2>2, <3>1, Dequeue DEF CommitMark
      <4> QED
        BY <3>1, <4>1 DEF DistinctInv
    <3> QED
      BY <2>2, <3>2 DEF TypeOK, CommitMark, DistinctInv, NoDuplicateFinders
  <2>3. hasFound' = hasFound \/ \E d \in Device, p \in Playlist : CommitMark(d, p)
    BY DEF Next, vars, docVars, UserStep, ComeAndGo, Restart, Tap, LoadStep, Load,
           CheckStep, AnswerCheck, CheckArrives, CheckFails, MarkStep,
           RejectMark, CountStep, TallyArrives, TallyFails, CommitCount, RejectCount
  <2> QED
    BY <2>1, <2>2, <2>3
\* The lists in answers.
<1>3. ASSUME NEW c \in checks', NEW p \in Playlist PROVE IsInjective(c.lists[p])
  <2>1. CASE c \in checks
    BY <2>1 DEF DistinctInv
  <2>2. ASSUME NEW d \in Device, NEW loc \in Location, Tap(d, loc), c \notin checks
        PROVE  IsInjective(c.lists[p])
    <3>1. c.lists[p] = <<>>
      BY <2>2 DEF Tap, NoLists
    <3> QED
      BY <3>1 DEF IsInjective
  <2>3. ASSUME NEW b \in checks, AnswerCheck(b), c \notin checks
        PROVE  IsInjective(c.lists[p])
    <3> DEFINE queue == marks[b.dev][auth[b.dev]][p]
    <3>1. b \in CheckRecord /\ b.dev \in Device /\ auth[b.dev] \in Account
      BY DEF TypeOK, SessionTypeOK, CheckRecord
    <3>2. queue \in Seq(MarkRecord)
      BY <3>1 DEF TypeOK
    <3>3. c.lists[p] = Overlay(queue, hasFound[p]) \/ c.lists[p] = <<>>
      <4> DEFINE answer == [r \in Playlist |->
                              IF r \in DocumentsAt(b.coll, b.loc)
                                THEN Overlay(marks[b.dev][auth[b.dev]][r], hasFound[r])
                                ELSE <<>>]
      <4>1. c = [b EXCEPT !.answered = TRUE, !.lists = answer]
        BY <2>3 DEF AnswerCheck
      <4>2. answer[p] = Overlay(queue, hasFound[p]) \/ answer[p] = <<>>
        OBVIOUS
      <4> HIDE DEF answer
      <4>3. c.lists = answer
        BY <3>1, <4>1 DEF CheckRecord
      <4> QED
        BY <4>2, <4>3
    <3>4. IsInjective(<<>>)
      BY DEF IsInjective
    <3>5. IsInjective(Overlay(queue, hasFound[p]))
      <4>1. CASE Overlay(queue, hasFound[p]) = hasFound[p]
        BY <4>1 DEF DistinctInv, NoDuplicateFinders
      <4>2. CASE \E i \in DOMAIN queue : Overlay(queue, hasFound[p]) = queue[i].val
        BY <3>1, <4>2 DEF DistinctInv
      <4> QED
        BY <3>2, <4>1, <4>2, OverlayCases
    <3> QED
      BY <3>3, <3>4, <3>5
  <2>4. \/ checks' \subseteq checks
        \/ \E d \in Device, loc \in Location : Tap(d, loc)
        \/ \E b \in checks : AnswerCheck(b)
    BY DEF Next, vars, UserStep, ComeAndGo, Restart, LoadStep, Load, CheckStep,
           CheckArrives, CheckFails, MarkStep,
           CommitMark, RejectMark, CountStep, TallyArrives, TallyFails, CommitCount,
           RejectCount
  <2> QED
    BY <2>1, <2>2, <2>3, <2>4
<1> QED
  BY <1>1, <1>2, <1>3 DEF DistinctInv

\* The contains guard of checkMasterPlaylists and checkUserPlaylists keeps
\* every stored list free of repetitions, although the list it reads may be
\* out of date when it is written back.
THEOREM NoDuplicates == Spec => []NoDuplicateFinders
<1>1. Init => TypeOK /\ DistinctInv
  BY TypeOKInit, DistinctInit
<1>2. TypeOK /\ DistinctInv /\ [Next]_vars => (TypeOK /\ DistinctInv)'
  BY TypeOKNext, DistinctNext
<1>3. DistinctInv => NoDuplicateFinders
  BY DEF DistinctInv
<1> QED
  BY <1>1, <1>2, <1>3, PTL DEF Spec

-----------------------------------------------------------------------------
(* A find is counted only after it was stored *)

\* Every queued count was queued before the step for the same playlist, or
\* is the one TallyArrives appends.
LEMMA CountsAreOldOrNew ==
  ASSUME TypeOK, [Next]_vars,
         NEW d \in Device, NEW a \in Account, NEW u \in User,
         NEW i \in DOMAIN counts'[d][a][u]
  PROVE  \/ \E j \in DOMAIN counts[d][a][u] :
              counts'[d][a][u][i].playlist = counts[d][a][u][j].playlist
         \/ \E t \in tallies : t.email = u /\ counts'[d][a][u][i].playlist = t.playlist
<1> DEFINE w == counts'[d][a][u][i]
           Old == \E j \in DOMAIN counts[d][a][u] : w.playlist = counts[d][a][u][j].playlist
           New == \E t \in tallies : t.email = u /\ w.playlist = t.playlist
<1>0. /\ counts \in Queues(User, CountRecord)
      /\ counts[d][a][u] \in Seq(CountRecord)
  BY DEF TypeOK, Queues
<1>1. CASE counts' = counts
  BY <1>1
<1>2. ASSUME NEW e \in Device, Restart(e) PROVE Old
  <2>1. \/ counts'[d][a][u] = Detached(counts[d][a][u])
        \/ counts'[d][a][u] = counts[d][a][u]
    BY <1>0, <1>2 DEF Restart, Queues
  <2>2. CASE counts'[d][a][u] = Detached(counts[d][a][u])
    <3>1. i \in DOMAIN counts[d][a][u] /\ w = [counts[d][a][u][i] EXCEPT !.attached = FALSE]
      BY <2>2 DEF Detached
    <3>2. counts[d][a][u][i] \in CountRecord
      BY <1>0, <3>1, ElementOf
    <3>3. w.playlist = counts[d][a][u][i].playlist
      BY <3>1, <3>2 DEF CountRecord
    <3> QED
      BY <3>1, <3>3
  <2> QED
    BY <2>1, <2>2
<1>3. ASSUME NEW t \in tallies, TallyArrives(t) PROVE Old \/ New
  <2> DEFINE new == [tap |-> t.tap, playlist |-> t.playlist,
                     val |-> info[t.dev].field + 1, attached |-> TRUE]
  <2>1. t.dev \in Device /\ auth[t.dev] \in Account /\ t.email \in Account
    BY DEF TypeOK, SessionTypeOK, TallyRecord, Email
  <2>2. \/ counts'[d][a][u] = counts[d][a][u]
        \/ counts'[d][a][u] = Append(counts[d][a][u], new) /\ t.email = u
    <3>1. CASE t.email = Nobody
      BY <1>3, <3>1 DEF TallyArrives
    <3>2. CASE t.email # Nobody
      <4>1. t.email \in User
        BY <2>1, <3>2 DEF Account
      <4>2. new \in CountRecord
        <5>1. t.tap \in Nat /\ t.playlist \in Playlist
          BY DEF TypeOK, TallyRecord
        <5>2. info[t.dev].field + 1 \in Int
          <6>1. info[t.dev] \in [email : Email, field : Int]
            BY <2>1 DEF TypeOK, SessionTypeOK
          <6> QED
            BY <6>1
        <5> QED
          BY <5>1, <5>2 DEF CountRecord
      <4> HIDE DEF new
      <4>3. counts' = [counts EXCEPT ![t.dev][auth[t.dev]][t.email] =
                         Append(counts[t.dev][auth[t.dev]][t.email], new)]
        BY <1>3, <2>1, <3>2, <4>1 DEF TypeOK, TallyArrives, NextCount, new
      <4>4. counts[t.dev][auth[t.dev]][t.email] \in Seq(CountRecord)
        BY <2>1, <4>1 DEF TypeOK
      <4>5. Append(counts[t.dev][auth[t.dev]][t.email], new) \in Seq(CountRecord)
        BY <4>2, <4>4
      <4> QED
        <5>1. counts'[d][a][u] = IF d = t.dev /\ a = auth[t.dev] /\ u = t.email
                                   THEN Append(counts[t.dev][auth[t.dev]][t.email], new)
                                   ELSE counts[d][a][u]
          <6>1. t.dev \in Device /\ auth[t.dev] \in Account
            BY <2>1
          <6> DEFINE q == Append(counts[t.dev][auth[t.dev]][t.email], new)
          <6>2. counts' = [counts EXCEPT ![t.dev][auth[t.dev]][t.email] = q]
            BY <4>3
          <6>3. q \in Seq(CountRecord)
            BY <4>5
          <6> HIDE DEF new, q
          <6>4. counts'[d][a][u] = IF d = t.dev /\ a = auth[t.dev] /\ u = t.email
                                     THEN q ELSE counts[d][a][u]
            <7>1. [counts EXCEPT ![t.dev][auth[t.dev]][t.email] = q][d][a][u] =
                    IF d = t.dev /\ a = auth[t.dev] /\ u = t.email
                      THEN q ELSE counts[d][a][u]
              BY <1>0, <4>1, <6>1, <6>3, QueueAt
            <7> QED
              BY <6>2, <7>1
          <6> QED
            BY <6>4 DEF q
        <5> QED
          BY <5>1
    <3> QED
      BY <3>1, <3>2
  <2>3. \/ i \in DOMAIN counts[d][a][u] /\ w = counts[d][a][u][i]
        \/ w = new /\ t.email = u
    <3> HIDE DEF new
    <3>1. CASE counts'[d][a][u] = counts[d][a][u]
      BY <3>1
    <3>2. CASE counts'[d][a][u] = Append(counts[d][a][u], new) /\ t.email = u
      BY <1>0, <3>2
    <3> QED
      BY <2>2, <3>1, <3>2
  <2> QED
    BY <2>3
<1>4. ASSUME NEW e \in Device, NEW v \in User, counts[e][auth[e]][v] # <<>>,
             counts' = [counts EXCEPT ![e][auth[e]][v] = Tail(@)]
      PROVE  Old
  <2>1. auth[e] \in Account /\ counts[e][auth[e]][v] \in Seq(CountRecord)
    BY DEF TypeOK, SessionTypeOK
  <2>2. Tail(counts[e][auth[e]][v]) \in Seq(CountRecord)
    BY <1>4, <2>1, Dequeue
  <2>3. \/ counts'[d][a][u] = counts[d][a][u]
        \/ counts'[d][a][u] = Tail(counts[d][a][u]) /\ counts[d][a][u] # <<>>
    BY <1>0, <1>4, <2>1, <2>2, PutQueue
  <2>4. CASE counts'[d][a][u] = Tail(counts[d][a][u]) /\ counts[d][a][u] # <<>>
    <3>1. i + 1 \in DOMAIN counts[d][a][u] /\ w = counts[d][a][u][i + 1]
      BY <1>0, <2>4, Dequeue
    <3> QED
      BY <3>1
  <2> QED
    BY <2>3, <2>4
<1>5. \/ counts' = counts
      \/ \E e \in Device : Restart(e)
      \/ \E t \in tallies : TallyArrives(t)
      \/ \E e \in Device, v \in User : /\ counts[e][auth[e]][v] # <<>>
                                       /\ counts' = [counts EXCEPT ![e][auth[e]][v] = Tail(@)]
  BY DEF Next, vars, UserStep, ComeAndGo, Tap, LoadStep, Load, CheckStep, AnswerCheck,
         CheckArrives, CheckFails, MarkStep, CommitMark,
         RejectMark, CountStep, TallyFails, CommitCount, RejectCount
<1> QED
  BY <1>1, <1>2, <1>3, <1>4, <1>5

LEMMA RecordedInit == Init => RecordedInv
BY DEF Init, RecordedInv, CountOnlyAfterRecorded

\* History only grows.
LEMMA RecordedGrows ==
  ASSUME TypeOK, [Next]_vars, NEW p \in Playlist
  PROVE  recorded[p] \subseteq recorded'[p]
<1>1. recorded' = recorded \/ \E d \in Device, q \in Playlist : CommitMark(d, q)
  BY DEF Next, vars, docVars, UserStep, ComeAndGo, Restart, Tap, LoadStep, Load, CheckStep,
         AnswerCheck, CheckArrives, CheckFails, MarkStep,
         RejectMark, CountStep, TallyArrives, TallyFails, CommitCount, RejectCount
<1>2. ASSUME NEW d \in Device, NEW q \in Playlist, CommitMark(d, q)
      PROVE  recorded[p] \subseteq recorded'[p]
  BY <1>2 DEF TypeOK, CommitMark
<1> QED
  BY <1>1, <1>2

LEMMA RecordedNext == TypeOK /\ RecordedInv /\ [Next]_vars => RecordedInv'
<1> SUFFICES ASSUME TypeOK, RecordedInv, [Next]_vars PROVE RecordedInv'
  OBVIOUS
<1>1. ASSUME NEW d \in Device, NEW a \in Account, NEW p \in Playlist,
             NEW i \in DOMAIN marks'[d][a][p]
      PROVE  marks'[d][a][p][i].email \in Range(marks'[d][a][p][i].val)
  <2> DEFINE w == marks'[d][a][p][i]
  <2>1. CASE OldWrite(w)
    BY <2>1 DEF OldWrite, RecordedInv
  <2>2. CASE NewWrite(w)
    <3>1. PICK c \in checks, q \in Playlist :
            /\ info[c.dev].email \in Email
            /\ w.email = info[c.dev].email
            /\ w.val = Append(c.lists[q], info[c.dev].email)
      BY <2>2 DEF NewWrite
    <3>2. c.lists[q] \in Seq(Email)
      BY DEF TypeOK, CheckRecord
    <3>3. info[c.dev].email \in Range(Append(c.lists[q], info[c.dev].email))
      BY <3>1, <3>2, LastInRange
    <3> QED
      BY <3>1, <3>3
  <2> QED
    BY <2>1, <2>2, WritesAreOldOrNew
<1>2. ASSUME NEW t \in tallies' PROVE t.email \in recorded'[t.playlist]
  <2>1. CASE t \in tallies
    <3>1. t.playlist \in Playlist
      BY <2>1 DEF TypeOK, TallyRecord
    <3> QED
      BY <2>1, <3>1, RecordedGrows DEF RecordedInv, CountOnlyAfterRecorded
  <2>2. ASSUME NEW d \in Device, NEW p \in Playlist, CommitMark(d, p), t \notin tallies
        PROVE  t.email \in recorded'[t.playlist]
    <3> DEFINE w == Head(marks[d][auth[d]][p])
    <3>1. auth[d] \in Account /\ marks[d][auth[d]][p] \in Seq(MarkRecord)
      BY DEF TypeOK, SessionTypeOK
    <3>2. w.email \in Range(w.val)
      <4>1. w = marks[d][auth[d]][p][1] /\ 1 \in DOMAIN marks[d][auth[d]][p]
        BY <2>2, <3>1, Dequeue DEF CommitMark
      <4> QED
        BY <3>1, <4>1 DEF RecordedInv
    <3>3. t.email = w.email /\ t.playlist = p
      <4>1. tallies' = tallies \/ LookUp(d, p, w)
        BY <2>2, Zenon DEF CommitMark
      <4>2. LookUp(d, p, w)
        BY <2>2, <4>1
      <4>3. tallies' = tallies
              \cup {[dev |-> d, tap |-> w.tap, playlist |-> p, email |-> w.email]}
        BY <2>2, <4>2 DEF LookUp
      <4> HIDE DEF w
      <4>4. t = [dev |-> d, tap |-> w.tap, playlist |-> p, email |-> w.email]
        BY <2>2, <4>3
      <4> QED
        BY <4>4
    <3> QED
      BY <2>2, <3>2, <3>3 DEF TypeOK, CommitMark
  <2>3. tallies' \subseteq tallies \/ \E d \in Device, p \in Playlist : CommitMark(d, p)
    BY DEF Next, vars, UserStep, ComeAndGo, Restart, Tap, LoadStep,
           Load, CheckStep, AnswerCheck, CheckArrives, CheckFails,
           MarkStep, RejectMark, CountStep, TallyArrives, TallyFails, CommitCount, RejectCount
  <2> QED
    BY <2>1, <2>2, <2>3
<1>3. ASSUME NEW d \in Device, NEW a \in Account, NEW u \in User,
             NEW i \in DOMAIN counts'[d][a][u]
      PROVE  u \in recorded'[counts'[d][a][u][i].playlist]
  <2>1. CASE \E j \in DOMAIN counts[d][a][u] :
               counts'[d][a][u][i].playlist = counts[d][a][u][j].playlist
    <3>1. PICK j \in DOMAIN counts[d][a][u] :
            counts'[d][a][u][i].playlist = counts[d][a][u][j].playlist
      BY <2>1
    <3>2. counts[d][a][u][j].playlist \in Playlist
      <4>1. counts[d][a][u] \in Seq(CountRecord)
        BY DEF TypeOK
      <4>2. counts[d][a][u][j] \in CountRecord
        BY <4>1, ElementOf
      <4> QED
        BY <4>2 DEF CountRecord
    <3> QED
      BY <3>1, <3>2, RecordedGrows DEF RecordedInv, CountOnlyAfterRecorded
  <2>2. CASE \E t \in tallies : t.email = u /\ counts'[d][a][u][i].playlist = t.playlist
    <3>1. PICK t \in tallies : t.email = u /\ counts'[d][a][u][i].playlist = t.playlist
      BY <2>2
    <3>2. t.playlist \in Playlist
      BY DEF TypeOK, TallyRecord
    <3> QED
      BY <3>1, <3>2, RecordedGrows DEF RecordedInv, CountOnlyAfterRecorded
  <2> QED
    BY <2>1, <2>2, CountsAreOldOrNew
<1> QED
  BY <1>1, <1>2, <1>3 DEF RecordedInv, CountOnlyAfterRecorded

\* The count of a find is looked up and written only when the backend has
\* held the finder's email in the playlist's list: the write completion that
\* starts it belongs to a list with that email in it.
THEOREM CountsFollowRecords == Spec => []CountOnlyAfterRecorded
<1>1. Init => TypeOK /\ RecordedInv
  BY TypeOKInit, RecordedInit
<1>2. TypeOK /\ RecordedInv /\ [Next]_vars => (TypeOK /\ RecordedInv)'
  BY TypeOKNext, RecordedNext
<1>3. RecordedInv => CountOnlyAfterRecorded
  BY DEF RecordedInv
<1> QED
  BY <1>1, <1>2, <1>3, PTL DEF Spec

-----------------------------------------------------------------------------
(* A tap finds a playlist once *)

LEMMA OnceInit == Init => OnceInv
BY DEF Init, OnceInv, ChecksOnce, MarksOnce, Found

LEMMA DisjointCollections ==
  ASSUME NEW c \in CheckRecord, NEW k \in CheckRecord, c.coll # k.coll,
         NEW p \in DocumentsAt(c.coll, c.loc)
  PROVE  p \notin DocumentsAt(k.coll, k.loc)
BY DEF CheckRecord, Collection, DocumentsAt

\* Queues that have only moved up, by k places each, hold the marks they held.
MovedBy(k) ==
  \A d \in Device, a \in Account, p \in Playlist : \A i \in DOMAIN marks'[d][a][p] :
    /\ i \in Int
    /\ i + k[d][a][p] \in DOMAIN marks[d][a][p]
    /\ marks'[d][a][p][i].tap = marks[d][a][p][i + k[d][a][p]].tap

Moves == [Device -> [Account -> [Playlist -> Int]]]
NoMove == [d \in Device |-> [a \in Account |-> [p \in Playlist |-> 0]]]

LEMMA MarksMoved ==
  ASSUME TypeOK, MarksOnce, NEW k \in Moves, MovedBy(k),
         NEW d \in Device, NEW a \in Account, NEW p \in Playlist, NEW i \in DOMAIN marks'[d][a][p],
         NEW tap, tap = marks'[d][a][p][i].tap
  PROVE  /\ tap < taps
         /\ ~Found(tap, p)
         /\ \A c \in checks : c.tap = tap => p \notin DocumentsAt(c.coll, c.loc)
         /\ \A e \in Device, b \in Account : \A j \in DOMAIN marks'[e][b][p] :
              marks'[e][b][p][j].tap = tap => e = d /\ b = a /\ j = i
<1> DEFINE n == i + k[d][a][p]
<1>1. i \in Int /\ k[d][a][p] \in Int /\ n \in DOMAIN marks[d][a][p] /\ marks[d][a][p][n].tap = tap
  BY DEF MovedBy, Moves
<1> HIDE DEF n
<1>2. /\ tap < taps /\ ~Found(tap, p)
      /\ \A c \in checks : c.tap = tap => p \notin DocumentsAt(c.coll, c.loc)
      /\ \A e \in Device, b \in Account : \A j \in DOMAIN marks[e][b][p] :
           marks[e][b][p][j].tap = tap => e = d /\ b = a /\ j = n
  BY <1>1 DEF MarksOnce
<1>3. ASSUME NEW e \in Device, NEW b \in Account, NEW j \in DOMAIN marks'[e][b][p],
             marks'[e][b][p][j].tap = tap
      PROVE  e = d /\ b = a /\ j = i
  <2> DEFINE m == j + k[e][b][p]
  <2>1. j \in Int /\ k[e][b][p] \in Int /\ m \in DOMAIN marks[e][b][p] /\ marks[e][b][p][m].tap = tap
    BY <1>3 DEF MovedBy, Moves
  <2>2. e = d /\ b = a /\ m = n
    BY <1>2, <2>1
  <2> DEFINE x == k[d][a][p]
  <2>3. j + x = i + x /\ j \in Int /\ i \in Int /\ x \in Int
    BY <1>1, <2>1, <2>2 DEF n
  <2> HIDE DEF x
  <2>4. \A u, v, y \in Int : u + y = v + y => u = v
    OBVIOUS
  <2>5. j = i
    BY <2>3, <2>4
  <2> QED
    BY <2>2, <2>5
<1> QED
  BY <1>2, <1>3

LEMMA SameMarks ==
  ASSUME TypeOK, marks' = marks
  PROVE  NoMove \in Moves /\ MovedBy(NoMove)
<1>1. NoMove \in Moves
  BY DEF NoMove, Moves
<1>2. ASSUME NEW d \in Device, NEW a \in Account, NEW p \in Playlist, NEW i \in DOMAIN marks'[d][a][p]
      PROVE  i \in Int /\ NoMove[d][a][p] = 0 /\ i + 0 = i /\ marks'[d][a][p] = marks[d][a][p]
  <2>1. marks[d][a][p] \in Seq(MarkRecord)
    BY DEF TypeOK
  <2> QED
    BY <2>1 DEF NoMove
<1> QED
  BY <1>1, <1>2 DEF MovedBy

LEMMA DetachedMarks ==
  ASSUME TypeOK, NEW e \in Device, Restart(e)
  PROVE  NoMove \in Moves /\ MovedBy(NoMove)
<1>1. NoMove \in Moves
  BY DEF NoMove, Moves
<1>2. ASSUME NEW d \in Device, NEW a \in Account, NEW p \in Playlist, NEW i \in DOMAIN marks'[d][a][p]
      PROVE  /\ i \in Int /\ NoMove[d][a][p] = 0 /\ i + 0 = i /\ i \in DOMAIN marks[d][a][p]
             /\ marks'[d][a][p][i].tap = marks[d][a][p][i].tap
  <2>1. marks[d][a][p] \in Seq(MarkRecord) /\ NoMove[d][a][p] = 0
    BY DEF TypeOK, NoMove
  <2>2. i \in DOMAIN marks[d][a][p] /\ marks'[d][a][p][i].tap = marks[d][a][p][i].tap
    <3>1. CASE d = e
      <4>1. marks'[d][a][p] = Detached(marks[d][a][p])
        BY <3>1 DEF TypeOK, Restart
      <4>2. i \in DOMAIN marks[d][a][p] /\ marks'[d][a][p][i] = [marks[d][a][p][i] EXCEPT !.attached = FALSE]
        BY <4>1 DEF Detached
      <4>3. marks[d][a][p][i] \in MarkRecord
        BY <2>1, <4>2, ElementOf
      <4> QED
        BY <4>2, <4>3 DEF MarkRecord
    <3>2. CASE d # e
      BY <3>2 DEF TypeOK, Restart
    <3> QED
      BY <3>1, <3>2
  <2>3. i \in Int
    BY <2>1, <2>2
  <2> QED
    BY <2>1, <2>2, <2>3
<1> QED
  BY <1>1, <1>2 DEF MovedBy

\* One queue has lost its head.
OneMove(e, b, q) == [NoMove EXCEPT ![e][b][q] = 1]

LEMMA HeadMark ==
  ASSUME TypeOK, NEW e \in Device, NEW q \in Playlist, marks[e][auth[e]][q] # <<>>,
         NEW r, r = [marks EXCEPT ![e][auth[e]][q] = Tail(@)]
  PROVE  /\ r[e][auth[e]][q] = Tail(marks[e][auth[e]][q])
         /\ OthersStay(marks, r, Playlist, e, auth[e], q)
         /\ auth[e] \in Account /\ 1 \in DOMAIN marks[e][auth[e]][q]
         /\ Head(marks[e][auth[e]][q]) = marks[e][auth[e]][q][1]
         /\ Head(marks[e][auth[e]][q]) \in MarkRecord
<1> DEFINE c == auth[e]
           v == Tail(marks[e][c][q])
<1>1. c \in Account /\ marks \in Queues(Playlist, MarkRecord) /\ marks[e][c][q] \in Seq(MarkRecord)
  BY DEF TypeOK, SessionTypeOK, Queues
<1>2. v \in Seq(MarkRecord) /\ r = [marks EXCEPT ![e][c][q] = v]
  BY <1>1, Dequeue
<1> HIDE DEF c, v
<1>3. r[e][c][q] = v /\ OthersStay(marks, r, Playlist, e, c, q)
  BY <1>1, <1>2 DEF Queues, OthersStay
<1>4. /\ c \in Account /\ 1 \in DOMAIN marks[e][c][q]
      /\ Head(marks[e][c][q]) = marks[e][c][q][1] /\ Head(marks[e][c][q]) \in MarkRecord
  BY <1>1, Dequeue DEF c
<1> QED
  BY <1>3, <1>4 DEF c, v

LEMMA TailMarks ==
  ASSUME TypeOK, NEW e \in Device, NEW b \in Account, NEW q \in Playlist, marks[e][b][q] # <<>>,
         marks'[e][b][q] = Tail(marks[e][b][q]), OthersStay(marks, marks', Playlist, e, b, q)
  PROVE  OneMove(e, b, q) \in Moves /\ MovedBy(OneMove(e, b, q))
<1> DEFINE k == OneMove(e, b, q)
<1>1. k \in Moves
  BY DEF OneMove, NoMove, Moves
<1>2. \A d \in Device, a \in Account, p \in Playlist :
        k[d][a][p] = IF d = e /\ a = b /\ p = q THEN 1 ELSE 0
  BY DEF OneMove, NoMove
<1> HIDE DEF k
<1>3. ASSUME NEW d \in Device, NEW a \in Account, NEW p \in Playlist, NEW i \in DOMAIN marks'[d][a][p]
      PROVE  /\ i \in Int /\ i + k[d][a][p] \in DOMAIN marks[d][a][p]
             /\ marks'[d][a][p][i].tap = marks[d][a][p][i + k[d][a][p]].tap
  <2>1. marks[d][a][p] \in Seq(MarkRecord)
    BY DEF TypeOK
  <2>2. CASE d = e /\ a = b /\ p = q
    <3>1. i \in DOMAIN Tail(marks[d][a][p]) /\ marks[d][a][p] # <<>>
      BY <2>2
    <3>2. i \in Int /\ i + 1 \in DOMAIN marks[d][a][p] /\ Tail(marks[d][a][p])[i] = marks[d][a][p][i + 1]
      BY <2>1, <3>1
    <3> QED
      BY <1>2, <2>2, <3>2
  <2>3. CASE ~(d = e /\ a = b /\ p = q)
    <3>1. marks'[d][a][p] = marks[d][a][p] /\ k[d][a][p] = 0
      BY <1>2, <2>3 DEF OthersStay
    <3>2. i \in Int /\ i + 0 = i
      BY <2>1, <3>1
    <3> QED
      BY <3>1, <3>2
  <2> QED
    BY <2>2, <2>3
<1>4. MovedBy(k)
  BY <1>3 DEF MovedBy
<1> QED
  BY <1>1, <1>4 DEF k

\* Steps that send no query, queue no mark and complete none.
LEMMA OnceQuiet ==
  ASSUME TypeOK, OnceInv, UNCHANGED <<finds, taps>>, NEW k \in Moves, MovedBy(k),
         \A c \in checks' : \E o \in checks : c.tap = o.tap /\ c.coll = o.coll /\ c.loc = o.loc,
         \A c, o \in checks' : c.tap = o.tap /\ c.coll = o.coll => c = o
  PROVE  OnceInv'
<1>1. \A tap, p : Found(tap, p)' <=> Found(tap, p)
  BY DEF Found
<1>2. ASSUME NEW c \in checks', NEW p \in DocumentsAt(c.coll, c.loc)
      PROVE  c.tap < taps /\ ~Found(c.tap, p)
  <2>1. PICK o \in checks : c.tap = o.tap /\ c.coll = o.coll /\ c.loc = o.loc
    OBVIOUS
  <2> QED
    BY <1>2, <2>1 DEF OnceInv, ChecksOnce
<1>3. \A c \in checks' : c.tap < taps
  BY DEF OnceInv, ChecksOnce
<1>4. ChecksOnce'
  BY <1>1, <1>2, <1>3 DEF OnceInv, ChecksOnce
<1>5. ASSUME NEW d \in Device, NEW a \in Account, NEW p \in Playlist, NEW i \in DOMAIN marks'[d][a][p],
             NEW tap, tap = marks'[d][a][p][i].tap
      PROVE  /\ tap < taps'
             /\ ~Found(tap, p)'
             /\ \A c \in checks' : c.tap = tap => p \notin DocumentsAt(c.coll, c.loc)
             /\ \A e \in Device, b \in Account : \A j \in DOMAIN marks'[e][b][p] :
                  marks'[e][b][p][j].tap = tap => e = d /\ b = a /\ j = i
  <2>1. /\ tap < taps
        /\ ~Found(tap, p)
        /\ \A c \in checks : c.tap = tap => p \notin DocumentsAt(c.coll, c.loc)
        /\ \A e \in Device, b \in Account : \A j \in DOMAIN marks'[e][b][p] :
              marks'[e][b][p][j].tap = tap => e = d /\ b = a /\ j = i
    BY <1>5, MarksMoved DEF OnceInv
  <2>2. \A c \in checks' : c.tap = tap => p \notin DocumentsAt(c.coll, c.loc)
    BY <2>1
  <2> QED
    BY <1>1, <2>1, <2>2
<1>6. MarksOnce'
  BY <1>5 DEF MarksOnce
<1> QED
  BY <1>4, <1>6 DEF OnceInv

\* A tap has a number of its own.
LEMMA OnceTap ==
  ASSUME TypeOK, OnceInv, NEW d \in Device, NEW loc \in Location, Tap(d, loc)
  PROVE  OnceInv'
<1>1. /\ taps \in Nat /\ taps' = taps + 1 /\ marks' = marks /\ finds' = finds
      /\ \A c \in checks : c.tap \in Nat
  BY FoundAssumption DEF TypeOK, CheckRecord, Tap
<1>2. \A c \in checks' : c \in checks \/ c.tap = taps
  BY DEF Tap
<1>3. ASSUME NEW c \in checks', NEW o \in checks', c \notin checks, o \notin checks, c.coll = o.coll
      PROVE  c = o
  <2> DEFINE check(coll) == [tap |-> taps, dev |-> d, coll |-> coll, loc |-> loc,
                             answered |-> FALSE, lists |-> NoLists]
  <2>1. PICK x \in Collection : c = check(x)
    BY <1>3 DEF Tap
  <2>2. PICK y \in Collection : o = check(y)
    BY <1>3 DEF Tap
  <2>3. c.coll = x /\ o.coll = y
    BY <2>1, <2>2
  <2> QED
    BY <1>3, <2>1, <2>2, <2>3
<1>4. \A tap, p : Found(tap, p)' <=> Found(tap, p)
  BY <1>1 DEF Found
<1>5. \A c \in checks : c.tap < taps /\ c.tap # taps
  BY <1>1 DEF OnceInv, ChecksOnce
<1>6. ASSUME NEW p \in Playlist PROVE ~Found(taps, p)
  <2>1. taps \in taps..MaxTaps
    BY <1>1, FoundAssumption DEF Tap
  <2> QED
    BY <2>1 DEF OnceInv, ChecksOnce
<1>7. ChecksOnce'
  <2>1. \A c \in checks' : c.tap < taps'
    <3>1. taps < taps' /\ taps' \in Nat
      BY <1>1
    <3> QED
      BY <1>1, <1>2, <1>5, <3>1
  <2>2. ASSUME NEW c \in checks', NEW o \in checks', c.tap = o.tap, c.coll = o.coll PROVE c = o
    BY <1>2, <1>3, <1>5, <2>2 DEF OnceInv, ChecksOnce
  <2>3. ASSUME NEW c \in checks', NEW p \in DocumentsAt(c.coll, c.loc) PROVE ~Found(c.tap, p)'
    <3>1. p \in Playlist
      BY DEF DocumentsAt
    <3> QED
      BY <1>2, <1>4, <1>6, <3>1 DEF OnceInv, ChecksOnce
  <2>4. ASSUME NEW tap \in taps'..MaxTaps, NEW p \in Playlist PROVE ~Found(tap, p)'
    <3>1. tap \in taps..MaxTaps
      BY <1>1, FoundAssumption
    <3> QED
      BY <1>4, <3>1 DEF OnceInv, ChecksOnce
  <2> QED
    BY <2>1, <2>2, <2>3, <2>4 DEF ChecksOnce
<1>8. ASSUME NEW e \in Device, NEW a \in Account, NEW p \in Playlist, NEW i \in DOMAIN marks[e][a][p]
      PROVE  /\ marks[e][a][p][i].tap < taps'
             /\ \A c \in checks' : c.tap = marks[e][a][p][i].tap => p \notin DocumentsAt(c.coll, c.loc)
  <2> DEFINE tap == marks[e][a][p][i].tap
  <2>1. marks[e][a][p] \in Seq(MarkRecord)
    BY DEF TypeOK
  <2>2. marks[e][a][p][i] \in MarkRecord
    BY <2>1, ElementOf
  <2>3. tap \in Nat /\ tap < taps
    BY <2>2 DEF MarkRecord, OnceInv, MarksOnce
  <2>4. \A c \in checks : c.tap = tap => p \notin DocumentsAt(c.coll, c.loc)
    BY DEF OnceInv, MarksOnce
  <2> HIDE DEF tap
  <2>5. tap # taps /\ tap < taps'
    BY <1>1, <2>3
  <2> QED
    BY <1>2, <2>4, <2>5 DEF tap
<1>9. MarksOnce'
  BY <1>1, <1>4, <1>8 DEF OnceInv, MarksOnce
<1> QED
  BY <1>7, <1>9 DEF OnceInv

\* The callback of a check is the only one of its tap that marks its playlists.
LEMMA OnceArrives ==
  ASSUME TypeOK, OnceInv, NEW c \in checks, CheckArrives(c)
  PROVE  OnceInv'
<1> DEFINE d == c.dev
           a == auth[d]
           isNew(p) == p \in DocumentsAt(c.coll, c.loc) /\ info[c.dev].email \notin Range(c.lists[p])
<1>1. /\ checks' = checks \ {c} /\ taps' = taps /\ finds' = finds
      /\ c \in CheckRecord /\ d \in Device /\ a \in Account /\ c.tap \in Nat
  BY DEF CheckArrives, TypeOK, SessionTypeOK, CheckRecord
<1>2. \A tap, p : Found(tap, p)' <=> Found(tap, p)
  BY <1>1 DEF Found
<1>3. ChecksOnce'
  BY <1>1, <1>2 DEF OnceInv, ChecksOnce
<1>4. ASSUME NEW e \in Device, NEW b \in Account, NEW p \in Playlist, NEW i \in DOMAIN marks'[e][b][p]
      PROVE  \/ i \in DOMAIN marks[e][b][p] /\ marks'[e][b][p][i].tap = marks[e][b][p][i].tap
             \/ /\ e = d /\ b = a /\ i = Len(marks[d][a][p]) + 1
                /\ p \in DocumentsAt(c.coll, c.loc) /\ marks'[e][b][p][i].tap = c.tap
  <2> DEFINE w == Mark(c, p)
             s == marks[d][a][p]
  <2>1. w.tap = c.tap
    BY DEF Mark
  <2>2. s \in Seq(MarkRecord)
    BY <1>1 DEF TypeOK
  <2>3. CASE e = d /\ b = a /\ IsNew(c, p)
    <3>1. marks'[e][b][p] = Append(s, w)
      BY <1>1, <2>3 DEF CheckArrives, TypeOK
    <3> HIDE DEF w, s, d, a
    <3>2. i \in DOMAIN Append(s, w)
      BY <3>1
    <3>3. \/ i \in DOMAIN s /\ Append(s, w)[i] = s[i]
          \/ i = Len(s) + 1 /\ Append(s, w)[i] = w
      BY <2>2, <3>2
    <3> QED
      BY <2>1, <2>3, <3>1, <3>3 DEF IsNew, s
  <2>4. CASE ~(e = d /\ b = a /\ IsNew(c, p))
    <3>1. marks'[e][b][p] = marks[e][b][p]
      BY <1>1, <2>4 DEF CheckArrives, TypeOK
    <3> QED
      BY <3>1
  <2> QED
    BY <2>3, <2>4
<1>5. ASSUME NEW p \in DocumentsAt(c.coll, c.loc), NEW e \in Device, NEW b \in Account,
             NEW j \in DOMAIN marks[e][b][p]
      PROVE  marks[e][b][p][j].tap # c.tap
  <2>1. p \in Playlist
    BY DEF DocumentsAt
  <2> QED
    BY <1>5, <2>1 DEF OnceInv, MarksOnce
<1>6. ASSUME NEW p \in DocumentsAt(c.coll, c.loc), NEW o \in checks \ {c}, o.tap = c.tap
      PROVE  p \notin DocumentsAt(o.coll, o.loc)
  <2>1. o \in CheckRecord /\ o.coll # c.coll
    BY <1>6 DEF TypeOK, OnceInv, ChecksOnce
  <2> QED
    BY <1>1, <2>1, DisjointCollections
<1>7. ASSUME NEW e \in Device, NEW b \in Account, NEW p \in Playlist, NEW i \in DOMAIN marks'[e][b][p],
             NEW tap, tap = marks'[e][b][p][i].tap
      PROVE  /\ tap < taps'
             /\ ~Found(tap, p)'
             /\ \A o \in checks' : o.tap = tap => p \notin DocumentsAt(o.coll, o.loc)
             /\ \A f \in Device, g \in Account : \A j \in DOMAIN marks'[f][g][p] :
                  marks'[f][g][p][j].tap = tap => f = e /\ g = b /\ j = i
  <2>1. CASE i \in DOMAIN marks[e][b][p] /\ marks'[e][b][p][i].tap = marks[e][b][p][i].tap
    <3>1. /\ tap < taps /\ ~Found(tap, p)
          /\ \A o \in checks : o.tap = tap => p \notin DocumentsAt(o.coll, o.loc)
          /\ \A f \in Device, g \in Account : \A j \in DOMAIN marks[f][g][p] :
               marks[f][g][p][j].tap = tap => f = e /\ g = b /\ j = i
      BY <1>7, <2>1 DEF OnceInv, MarksOnce
    <3>2. ASSUME NEW f \in Device, NEW g \in Account, NEW j \in DOMAIN marks'[f][g][p],
                 marks'[f][g][p][j].tap = tap
          PROVE  f = e /\ g = b /\ j = i
      <4>1. p \in DocumentsAt(c.coll, c.loc) => tap # c.tap
        BY <1>5, <1>7, <2>1
      <4>2. j \in DOMAIN marks[f][g][p] /\ marks'[f][g][p][j].tap = marks[f][g][p][j].tap
        BY <1>4, <3>2, <4>1
      <4> QED
        BY <3>1, <3>2, <4>2
    <3> QED
      BY <1>1, <1>2, <3>1, <3>2
  <2>2. CASE /\ e = d /\ b = a /\ i = Len(marks[d][a][p]) + 1
             /\ p \in DocumentsAt(c.coll, c.loc) /\ marks'[e][b][p][i].tap = c.tap
    <3>1. tap < taps /\ ~Found(tap, p)
      BY <1>7, <2>2 DEF OnceInv, ChecksOnce
    <3>2. ASSUME NEW f \in Device, NEW g \in Account, NEW j \in DOMAIN marks'[f][g][p],
                 marks'[f][g][p][j].tap = tap
          PROVE  f = e /\ g = b /\ j = i
      <4>1. ~(j \in DOMAIN marks[f][g][p] /\ marks'[f][g][p][j].tap = marks[f][g][p][j].tap)
        BY <1>5, <1>7, <2>2, <3>2
      <4>2. f = d /\ g = a /\ j = Len(marks[d][a][p]) + 1
        BY <1>4, <3>2, <4>1
      <4> QED
        BY <2>2, <4>2
    <3> QED
      BY <1>1, <1>2, <1>6, <1>7, <2>2, <3>1, <3>2
  <2> QED
    BY <1>4, <2>1, <2>2
<1>8. MarksOnce'
  BY <1>7 DEF MarksOnce
<1> QED
  BY <1>3, <1>8 DEF OnceInv

\* A mark that completes is the tap's only one for its playlist.
LEMMA OnceCompletes ==
  ASSUME TypeOK, OnceInv, NEW d \in Device, NEW p \in Playlist, marks[d][auth[d]][p] # <<>>,
         UNCHANGED <<checks, taps>>, marks'[d][auth[d]][p] = Tail(marks[d][auth[d]][p]),
         OthersStay(marks, marks', Playlist, d, auth[d], p),
         finds' = finds \cup {<<Head(marks[d][auth[d]][p]).tap, p>>}
  PROVE  OnceInv'
<1> DEFINE a == auth[d]
           t == marks[d][a][p][1].tap
           k == OneMove(d, a, p)
<1>1. /\ marks'[d][a][p] = Tail(marks[d][a][p]) /\ OthersStay(marks, marks', Playlist, d, a, p)
      /\ a \in Account /\ 1 \in DOMAIN marks[d][a][p]
      /\ Head(marks[d][a][p]) = marks[d][a][p][1] /\ t \in Nat
  BY HeadMark DEF MarkRecord
<1>2. k \in Moves /\ MovedBy(k)
  BY <1>1, TailMarks
<1>3. \A tap, q : Found(tap, q)' <=> Found(tap, q) \/ (tap = t /\ q = p)
  BY <1>1 DEF Found
<1>4. /\ t < taps /\ \A c \in checks : c.tap = t => p \notin DocumentsAt(c.coll, c.loc)
      /\ \A e \in Device, b \in Account : \A j \in DOMAIN marks[e][b][p] :
           marks[e][b][p][j].tap = t => e = d /\ b = a /\ j = 1
  BY <1>1 DEF OnceInv, MarksOnce
<1> HIDE DEF t
<1>5. ChecksOnce'
  <2>1. \A c \in checks : \A q \in DocumentsAt(c.coll, c.loc) : ~Found(c.tap, q)'
    BY <1>3, <1>4 DEF OnceInv, ChecksOnce
  <2>2. ASSUME NEW tap \in taps..MaxTaps, NEW q \in Playlist PROVE ~Found(tap, q)'
    <3>1. t # tap
      BY <1>1, <1>4, FoundAssumption DEF TypeOK
    <3> QED
      BY <1>3, <3>1 DEF OnceInv, ChecksOnce
  <2> QED
    BY <2>1, <2>2 DEF OnceInv, ChecksOnce
<1>6. ASSUME NEW e \in Device, NEW b \in Account, NEW j \in DOMAIN marks'[e][b][p]
      PROVE  marks'[e][b][p][j].tap # t
  <2>1. /\ j \in Int /\ j + k[e][b][p] \in DOMAIN marks[e][b][p]
        /\ marks'[e][b][p][j].tap = marks[e][b][p][j + k[e][b][p]].tap
    BY <1>2 DEF MovedBy
  <2>2. CASE e = d /\ b = a
    <3>1. k[e][b][p] = 1
      BY <1>1, <2>2 DEF OneMove, NoMove
    <3>2. j + 1 # 1
      <4>1. marks[e][b][p] \in Seq(MarkRecord) /\ marks'[e][b][p] = Tail(marks[e][b][p]) /\ marks[e][b][p] # <<>>
        BY <1>1, <2>2 DEF TypeOK
      <4> DEFINE s == marks[e][b][p]
      <4>2. s \in Seq(MarkRecord) /\ s # <<>> /\ j \in DOMAIN Tail(s)
        BY <4>1
      <4> HIDE DEF s
      <4>3. j \in Nat /\ j > 0
        BY <4>2
      <4> QED
        BY <4>3
    <3> QED
      BY <1>4, <2>1, <3>1, <3>2
  <2>3. CASE ~(e = d /\ b = a)
    BY <1>4, <2>1, <2>3
  <2> QED
    BY <2>2, <2>3
<1>7. ASSUME NEW e \in Device, NEW b \in Account, NEW q \in Playlist, NEW i \in DOMAIN marks'[e][b][q],
             NEW tap, tap = marks'[e][b][q][i].tap
      PROVE  /\ tap < taps'
             /\ ~Found(tap, q)'
             /\ \A c \in checks' : c.tap = tap => q \notin DocumentsAt(c.coll, c.loc)
             /\ \A f \in Device, g \in Account : \A j \in DOMAIN marks'[f][g][q] :
                  marks'[f][g][q][j].tap = tap => f = e /\ g = b /\ j = i
  <2>1. /\ tap < taps
        /\ ~Found(tap, q)
        /\ \A c \in checks : c.tap = tap => q \notin DocumentsAt(c.coll, c.loc)
        /\ \A f \in Device, g \in Account : \A j \in DOMAIN marks'[f][g][q] :
              marks'[f][g][q][j].tap = tap => f = e /\ g = b /\ j = i
    BY <1>2, <1>7, MarksMoved DEF OnceInv
  <2>2. ~(tap = t /\ q = p)
    BY <1>6, <1>7
  <2> QED
    BY <1>3, <2>1, <2>2
<1>8. MarksOnce'
  BY <1>7 DEF MarksOnce
<1> QED
  BY <1>5, <1>8 DEF OnceInv

LEMMA OnceNext == TypeOK /\ OnceInv /\ [Next]_vars => OnceInv'
<1> SUFFICES ASSUME TypeOK, OnceInv, [Next]_vars PROVE OnceInv'
  OBVIOUS
<1>0. /\ \A c \in checks : \E o \in checks : c.tap = o.tap /\ c.coll = o.coll /\ c.loc = o.loc
      /\ \A c, o \in checks : c.tap = o.tap /\ c.coll = o.coll => c = o
  BY DEF OnceInv, ChecksOnce
<1>1. CASE UNCHANGED <<marks, checks, finds, taps>>
  BY <1>0, <1>1, SameMarks, OnceQuiet
<1>2. ASSUME NEW d \in Device, Restart(d) PROVE OnceInv'
  <2>1. checks' \subseteq checks /\ UNCHANGED <<finds, taps>>
    BY <1>2 DEF Restart
  <2> QED
    BY <1>0, <1>2, <2>1, DetachedMarks, OnceQuiet
<1>3. ASSUME NEW d \in Device, NEW loc \in Location, Tap(d, loc) PROVE OnceInv'
  BY <1>3, OnceTap
<1>4. ASSUME NEW c \in checks, AnswerCheck(c) \/ CheckFails(c) PROVE OnceInv'
  <2>1. c \in CheckRecord /\ UNCHANGED <<marks, finds, taps>>
    BY <1>4 DEF TypeOK, AnswerCheck, CheckFails, docVars
  <2>2. PICK k : /\ k.tap = c.tap /\ k.coll = c.coll /\ k.loc = c.loc
                 /\ checks' \subseteq (checks \ {c}) \cup {k}
    <3>1. CASE AnswerCheck(c)
      <4> DEFINE lists == [p \in Playlist |-> IF p \in DocumentsAt(c.coll, c.loc)
                             THEN Overlay(marks[c.dev][auth[c.dev]][p], hasFound[p])
                             ELSE <<>>]
      <4>1. checks' = (checks \ {c}) \cup {[c EXCEPT !.answered = TRUE, !.lists = lists]}
        BY <3>1 DEF AnswerCheck
      <4> HIDE DEF lists
      <4> DEFINE k == [c EXCEPT !.answered = TRUE, !.lists = lists]
      <4>2. k.tap = c.tap /\ k.coll = c.coll /\ k.loc = c.loc
        BY <2>1 DEF CheckRecord
      <4> QED
        BY <4>1, <4>2
    <3>2. CASE CheckFails(c)
      BY <3>2 DEF CheckFails
    <3> QED
      BY <1>4, <3>1, <3>2
  <2>3. /\ \A o \in checks' : \E m \in checks : o.tap = m.tap /\ o.coll = m.coll /\ o.loc = m.loc
        /\ \A o, m \in checks' : o.tap = m.tap /\ o.coll = m.coll => o = m
    BY <1>0, <2>2
  <2> QED
    BY <2>1, <2>3, SameMarks, OnceQuiet
<1>5. ASSUME NEW c \in checks, CheckArrives(c) PROVE OnceInv'
  BY <1>5, OnceArrives
<1>6. ASSUME NEW d \in Device, NEW p \in Playlist, CommitMark(d, p) \/ RejectMark(d, p) PROVE OnceInv'
  <2> DEFINE w == Head(marks[d][auth[d]][p])
  <2>1. marks[d][auth[d]][p] # <<>> /\ UNCHANGED <<checks, taps>>
    BY <1>6 DEF CommitMark, RejectMark
  <2>2. CASE UNCHANGED <<marks, finds>>
    BY <1>1, <2>1, <2>2
  <2>3. CASE marks' = [marks EXCEPT ![d][auth[d]][p] = Tail(@)] /\ (finds' = finds \/ LookUp(d, p, w))
    <3>1. /\ marks'[d][auth[d]][p] = Tail(marks[d][auth[d]][p])
          /\ OthersStay(marks, marks', Playlist, d, auth[d], p)
          /\ auth[d] \in Account
      BY <2>1, <2>3, HeadMark
    <3>2. finds' = finds \/ finds' = finds \cup {<<w.tap, p>>}
      BY <2>3 DEF LookUp
    <3>3. CASE finds' = finds
      <4>1. OneMove(d, auth[d], p) \in Moves /\ MovedBy(OneMove(d, auth[d], p))
        BY <2>1, <3>1, TailMarks
      <4>2. UNCHANGED <<finds, taps>> /\ checks' = checks
        BY <2>1, <3>3
      <4> QED
        BY <1>0, <4>1, <4>2, OnceQuiet
    <3>4. CASE finds' = finds \cup {<<w.tap, p>>}
      BY <2>1, <3>1, <3>4, OnceCompletes
    <3> QED
      BY <3>2, <3>3, <3>4
  <2>4. \/ UNCHANGED <<marks, finds>>
        \/ marks' = [marks EXCEPT ![d][auth[d]][p] = Tail(@)] /\ (finds' = finds \/ LookUp(d, p, w))
    <3>1. CASE CommitMark(d, p)
      BY <3>1, Zenon DEF CommitMark
    <3>2. CASE RejectMark(d, p)
      BY <3>2, Zenon DEF RejectMark
    <3> QED
      BY <1>6, <3>1, <3>2
  <2> QED
    BY <2>2, <2>3, <2>4
<1>7. CASE LoadStep \/ CountStep
  BY <1>1, <1>7 DEF LoadStep, CountStep, Load, TallyArrives, TallyFails, CommitCount, RejectCount
<1>8. ASSUME NEW d \in Device, ComeAndGo(d) PROVE OnceInv'
  BY <1>1, <1>8 DEF ComeAndGo
<1>9. CASE UNCHANGED vars
  BY <1>1, <1>9 DEF vars
<1> QED
  BY <1>2, <1>3, <1>4, <1>5, <1>6, <1>7, <1>8, <1>9 DEF Next, UserStep, CheckStep, MarkStep

-----------------------------------------------------------------------------
(* How much finds are worth *)

LEMMA WorthInit == Init => WorthInv
<1> SUFFICES ASSUME Init PROVE WorthInv
  OBVIOUS
<1>1. \A x : x \notin AwaitedOf(counts, User)
  <2> SUFFICES ASSUME NEW x \in AwaitedOf(counts, User) PROVE FALSE
    OBVIOUS
  <2>1. PICK d \in Device, a \in Account, u \in User : DOMAIN counts[d][a][u] # {}
    BY AwaitedPlace
  <2>2. counts[d][a][u] = <<>>
    BY DEF Init
  <2> QED
    BY <2>1, <2>2
<1>2. Pending = {} /\ tallies = {} /\ finds = {}
  BY <1>1 DEF Init, Pending, AwaitedOf
<1>3. /\ IsFiniteSet(tallies) /\ Cardinality(tallies) = 0
      /\ IsFiniteSet(Pending) /\ Cardinality(Pending) = 0
      /\ IsFiniteSet(finds) /\ Cardinality(finds) = 0
  BY <1>2, FS_EmptySet
<1>4. Worth = 0
  BY <1>3 DEF Worth
<1>5. FieldsWithin(0)
  BY FoundAssumption DEF Init, SessionInit, ClearedInfo, FieldsWithin
<1>6. Within(0)
  BY <1>5 DEF Init, Within
<1>7. Enough(0) /\ 0 \in 0..(2 * Cardinality(finds))
  BY <1>3, <1>4, <1>6 DEF Enough
<1> QED
  BY <1>7 DEF WorthInv

LEMMA Sizes ==
  ASSUME IsFiniteSet(finds), IsFiniteSet(tallies), IsFiniteSet(Pending)
  PROVE  Cardinality(finds) \in Nat /\ Cardinality(tallies) \in Nat /\ Cardinality(Pending) \in Nat
BY FS_CardinalityType

LEMMA EnoughAfter ==
  ASSUME NEW b \in Int, b >= 0, IsFiniteSet(finds'), IsFiniteSet(tallies'), IsFiniteSet(Pending'),
         Worth' >= b, Within(b)'
  PROVE  WorthInv'
<1> DEFINE w == Worth'
           f == Cardinality(finds')
           t == Cardinality(tallies')
           p == Cardinality(Pending')
<1>1. f \in Nat /\ t \in Nat /\ p \in Nat /\ w >= b
  BY FS_CardinalityType
<1>2. w = 2 * f - 2 * t - p
  BY DEF Worth
<1> HIDE DEF w, f, t, p
<1>3. b \in 0..(2 * f)
  BY <1>1, <1>2
<1> QED
  BY <1>3 DEF WorthInv, Enough, f

\* A step after which n more is accounted for than before.
LEMMA WorthMoves ==
  ASSUME NEW b \in Int, Enough(b),
         IsFiniteSet(finds'), IsFiniteSet(tallies'), IsFiniteSet(Pending'),
         NEW f \in Int, Cardinality(finds') >= Cardinality(finds) + f,
         NEW t \in Int, Cardinality(tallies') <= Cardinality(tallies) + t,
         NEW p \in Int, Cardinality(Pending') <= Cardinality(Pending) + p,
         NEW n \in Int, n <= 2 * f - 2 * t - p
  PROVE  Worth' >= b + n
<1> DEFINE f0 == Cardinality(finds)
           t0 == Cardinality(tallies)
           p0 == Cardinality(Pending)
           f1 == Cardinality(finds')
           t1 == Cardinality(tallies')
           p1 == Cardinality(Pending')
<1>1. f0 \in Nat /\ t0 \in Nat /\ p0 \in Nat /\ Worth >= b
  BY Sizes DEF Enough
<1>2. f1 \in Nat /\ t1 \in Nat /\ p1 \in Nat
  BY FS_CardinalityType
<1>3. f1 >= f0 + f /\ t1 <= t0 + t /\ p1 <= p0 + p
  OBVIOUS
<1>4. Worth = 2 * f0 - 2 * t0 - p0 /\ Worth' = 2 * f1 - 2 * t1 - p1
  BY DEF Worth
<1> HIDE DEF f0, t0, p0, f1, t1, p1
<1>5. 2 * f1 - 2 * t1 - p1 >= 2 * f0 - 2 * t0 - p0 + n
  BY <1>1, <1>2, <1>3
<1>6. 2 * f0 - 2 * t0 - p0 >= b
  BY <1>1, <1>4
<1>7. 2 * f1 - 2 * t1 - p1 >= b + n
  BY <1>1, <1>2, <1>5, <1>6
<1> QED
  BY <1>4, <1>7

LEMMA WithinGrows ==
  ASSUME TypeOK, NEW b \in Int, NEW c \in Int, b <= c, Within(b)
  PROVE  Within(c)
<1>1. FieldsWithin(c)
  BY FoundAssumption, FieldsGrow DEF TypeOK, Within
<1>2. ASSUME NEW d \in Device, NEW a \in Account, NEW u \in User, NEW i \in DOMAIN counts[d][a][u]
      PROVE  counts[d][a][u][i].val \in Int
  <2>1. counts[d][a][u] \in Seq(CountRecord)
    BY DEF TypeOK
  <2>2. counts[d][a][u][i] \in CountRecord
    BY <2>1, ElementOf
  <2> QED
    BY <2>2 DEF CountRecord
<1>3. \A u \in User : totalPlaylistsFound[u] # NotSet => totalPlaylistsFound[u] \in Int
  BY DEF TypeOK
<1> QED
  BY <1>1, <1>2, <1>3 DEF Within

\* Steps that are not about finds, lookups and writes of counts.
LEMMA WorthSame ==
  ASSUME NEW b \in Int, b >= 0, Enough(b), UNCHANGED <<finds, tallies, counts>>, Within(b)'
  PROVE  WorthInv'
<1>1. Pending' = Pending
  BY DEF Pending
<1>2. Worth' = Worth
  BY <1>1 DEF Worth
<1> QED
  BY <1>1, <1>2, EnoughAfter DEF Enough

\* What the count of a user looks like through the queue is no more than b.
LEMMA SeenWithin ==
  ASSUME TypeOK, NEW b \in Int, Within(b), NEW d \in Device, NEW u \in User, SeenCount(d, u) # NotSet
  PROVE  SeenCount(d, u) <= b
<1> DEFINE queue == counts[d][auth[d]][u]
<1>1. auth[d] \in Account /\ queue \in Seq(CountRecord)
  BY DEF TypeOK, SessionTypeOK
<1>2. \/ SeenCount(d, u) = totalPlaylistsFound[u]
      \/ \E i \in DOMAIN queue : SeenCount(d, u) = queue[i].val
  BY <1>1, OverlayCases DEF SeenCount
<1> QED
  BY <1>1, <1>2 DEF Within

\* A restart of the app: queries end, closures go, numbers stay.
LEMMA WorthRestart ==
  ASSUME TypeOK, NEW b \in Int, b >= 0, Enough(b), NEW d \in Device, Restart(d)
  PROVE  WorthInv'
<1> DEFINE q == counts
           r == counts'
<1>1. FieldsWithin(b)'
  BY FoundAssumption, FieldsUserStep DEF TypeOK, Restart, Enough, Within
<1>2. tallies' \in SUBSET tallies /\ finds' = finds
  BY DEF Restart
<1>3. q \in Queues(User, CountRecord) /\ (\A a \in Account, u \in User : r[d][a][u] = Detached(q[d][a][u]))
      /\ \A e \in Device : e # d => r[e] = q[e]
  BY DEF TypeOK, Restart, Queues
<1>4. ASSUME NEW e \in Device, NEW a \in Account, NEW u \in User, NEW i \in DOMAIN r[e][a][u]
      PROVE  r[e][a][u][i].val <= b
  <2>1. CASE e = d
    <3>1. i \in DOMAIN q[d][a][u] /\ r[d][a][u][i] = [q[d][a][u][i] EXCEPT !.attached = FALSE]
      <4> HIDE DEF q, r
      <4>1. r[d][a][u] = Detached(q[d][a][u]) /\ i \in DOMAIN r[d][a][u]
        BY <1>3, <2>1
      <4> QED
        BY <4>1 DEF Detached
    <3>2. q[d][a][u][i] \in CountRecord
      BY <1>3, <3>1, ElementOf DEF Queues
    <3>3. r[d][a][u][i].val = q[d][a][u][i].val
      BY <3>1, <3>2 DEF CountRecord
    <3> QED
      BY <2>1, <3>1, <3>3 DEF Enough, Within
  <2>2. CASE e # d
    BY <1>3, <2>2 DEF Enough, Within
  <2> QED
    BY <2>1, <2>2
<1>5. AwaitedOf(q, User) = Pending /\ AwaitedOf(r, User) = Pending'
  BY DEF AwaitedOf, Pending
<1>6. IsFiniteSet(AwaitedOf(q, User))
  BY <1>5 DEF Enough
<1>7. \A w \in CountRecord : [w EXCEPT !.attached = FALSE].attached = FALSE
  BY DEF CountRecord
<1>8. IsFiniteSet(Pending') /\ Cardinality(Pending') <= Cardinality(Pending)
  <2> HIDE DEF q, r
  <2>1. /\ IsFiniteSet(AwaitedOf(r, User))
        /\ Cardinality(AwaitedOf(r, User)) <= Cardinality(AwaitedOf(q, User))
    BY <1>3, <1>6, <1>7, AwaitedRestart
  <2> QED
    BY <1>5, <2>1
<1>9. IsFiniteSet(tallies') /\ Cardinality(tallies') <= Cardinality(tallies)
  BY <1>2, FS_Subset DEF Enough
<1>10. Worth' >= b + 0
  <2>1. /\ Cardinality(finds) \in Nat /\ Cardinality(tallies) \in Nat /\ Cardinality(Pending) \in Nat
    BY Sizes DEF Enough
  <2>2. /\ IsFiniteSet(finds') /\ Cardinality(finds') >= Cardinality(finds) + 0
        /\ Cardinality(tallies') <= Cardinality(tallies) + 0
        /\ Cardinality(Pending') <= Cardinality(Pending) + 0
    BY <1>2, <1>8, <1>9, <2>1 DEF Enough
  <2> QED
    BY <1>8, <1>9, <2>2, WorthMoves
<1>11. Within(b)'
  BY <1>1, <1>4 DEF Within, Enough, Restart, docVars
<1> QED
  BY <1>2, <1>8, <1>9, <1>10, <1>11, EnoughAfter DEF Enough

\* A mark that completes is one find more and one lookup more.
LEMMA WorthMark ==
  ASSUME TypeOK, OnceInv, NEW b \in Int, b >= 0, Enough(b), NEW d \in Device, NEW p \in Playlist,
         CommitMark(d, p) \/ RejectMark(d, p)
  PROVE  WorthInv'
<1> DEFINE w == Head(marks[d][auth[d]][p])
           t == [dev |-> d, tap |-> w.tap, playlist |-> p, email |-> w.email]
<1>1. marks[d][auth[d]][p] # <<>> /\ UNCHANGED <<sessionVars, totalPlaylistsFound, counts>>
  BY DEF CommitMark, RejectMark, docVars
<1>2. Within(b)'
  BY <1>1 DEF Enough, Within, FieldsWithin, sessionVars
<1>3. UNCHANGED <<tallies, finds>> \/ LookUp(d, p, w)
  <2>1. CASE CommitMark(d, p)
    BY <2>1, Zenon DEF CommitMark
  <2>2. CASE RejectMark(d, p)
    BY <2>2, Zenon DEF RejectMark
  <2> QED
    BY <2>1, <2>2
<1>4. CASE UNCHANGED <<tallies, finds>>
  BY <1>1, <1>2, <1>4, WorthSame
<1>5. CASE tallies' = tallies \cup {t} /\ finds' = finds \cup {<<w.tap, p>>}
  <2>1. <<w.tap, p>> \notin finds
    <3>1. auth[d] \in Account /\ 1 \in DOMAIN marks[d][auth[d]][p] /\ w = marks[d][auth[d]][p][1]
      BY <1>1, HeadMark
    <3> QED
      BY <3>1 DEF OnceInv, MarksOnce, Found
  <2> HIDE DEF t, w
  <2>2. IsFiniteSet(finds') /\ Cardinality(finds') = Cardinality(finds) + 1
    BY <1>5, <2>1, FS_AddElement DEF Enough
  <2>3. IsFiniteSet(tallies') /\ Cardinality(tallies') <= Cardinality(tallies) + 1
    BY <1>5, OneMore DEF Enough
  <2>4. Pending' = Pending /\ Cardinality(finds) \in Nat /\ Cardinality(Pending) \in Nat
    BY <1>1, Sizes DEF Enough, Pending
  <2>5. /\ IsFiniteSet(Pending') /\ Cardinality(finds') >= Cardinality(finds) + 1
        /\ Cardinality(Pending') <= Cardinality(Pending) + 0
    BY <2>2, <2>4 DEF Enough
  <2>6. Worth' >= b + 0
    BY <2>2, <2>3, <2>5, WorthMoves
  <2> QED
    BY <1>2, <2>2, <2>3, <2>5, <2>6, EnoughAfter
<1> QED
  BY <1>3, <1>4, <1>5 DEF LookUp

\* The lookup's callback computes a number one up and queues it; one more is
\* to come of its completion.
LEMMA WorthTally ==
  ASSUME TypeOK, NEW b \in Int, b >= 0, Enough(b), NEW q \in tallies,
         TallyArrives(q) \/ TallyFails(q)
  PROVE  WorthInv'
<1>1. tallies' = tallies \ {q} /\ finds' = finds /\ UNCHANGED sessionVars /\ UNCHANGED docVars
  BY DEF TallyArrives, TallyFails
<1>2. /\ IsFiniteSet(tallies') /\ Cardinality(tallies') <= Cardinality(tallies) + (-1)
      /\ IsFiniteSet(finds') /\ Cardinality(finds') >= Cardinality(finds) + 0
      /\ Cardinality(Pending) \in Nat
  <2>1. IsFiniteSet(tallies') /\ Cardinality(tallies') = Cardinality(tallies) - 1
    BY <1>1, FS_RemoveElement DEF Enough
  <2>2. Cardinality(finds) \in Nat /\ Cardinality(tallies) \in Nat /\ Cardinality(Pending) \in Nat
    BY Sizes DEF Enough
  <2> QED
    BY <1>1, <2>1, <2>2 DEF Enough
<1>3. FieldsWithin(b + 1)' /\ Within(b + 1)
  <2>1. Within(b + 1)
    BY WithinGrows DEF Enough
  <2> QED
    BY <1>1, <2>1 DEF Within, FieldsWithin, sessionVars
<1>4. CASE counts' = counts
  <2>1. Pending' = Pending
    BY <1>4 DEF Pending
  <2>2. Within(b)'
    BY <1>1, <1>4 DEF Enough, Within, FieldsWithin, sessionVars, docVars
  <2>3. /\ IsFiniteSet(Pending') /\ Cardinality(Pending') <= Cardinality(Pending) + 0
        /\ Cardinality(tallies') <= Cardinality(tallies) + 0
    <3>1. Cardinality(tallies) \in Nat /\ Cardinality(tallies') \in Nat
      BY <1>2, FS_CardinalityType DEF Enough
    <3> QED
      BY <1>2, <2>1, <3>1 DEF Enough
  <2>4. Worth' >= b + 0
    BY <1>2, <2>3, WorthMoves
  <2> QED
    BY <1>2, <2>2, <2>3, <2>4, EnoughAfter
<1>5. CASE counts' # counts
  <2> DEFINE d == q.dev
             c == auth[q.dev]
             u == q.email
             w == [tap |-> q.tap, playlist |-> q.playlist, val |-> NextCount(q), attached |-> TRUE]
             s == counts[d][c][u]
             r == counts'
  <2>1. /\ u # Nobody /\ r = [counts EXCEPT ![d][c][u] = Append(s, w)]
    BY <1>5 DEF TallyArrives, TallyFails
  <2>2. /\ d \in Device /\ c \in Account /\ u \in User /\ q.tap \in Nat /\ q.playlist \in Playlist
        /\ info[d].field \in Int
    BY <2>1 DEF TypeOK, SessionTypeOK, TallyRecord, Email, Account
  <2>3. NextCount(q) \in Int /\ NextCount(q) <= b + 1
    BY <2>2 DEF NextCount, Enough, Within, FieldsWithin
  <2>4. w \in CountRecord /\ w.val <= b + 1 /\ w.attached
    BY <2>2, <2>3 DEF CountRecord
  <2>5. counts \in Queues(User, CountRecord) /\ s \in Seq(CountRecord)
    BY <2>2 DEF TypeOK, Queues
  <2> HIDE DEF d, c, u, w, r
  <2>6. Append(s, w) \in Seq(CountRecord)
    BY <2>4, <2>5
  <2>7. r[d][c][u] = Append(s, w) /\ OthersStay(counts, r, User, d, c, u)
    <3> HIDE DEF s
    <3> QED
      BY <2>1, <2>2, <2>5, <2>6 DEF Queues, OthersStay
  <2>8. ASSUME NEW e \in Device, NEW a \in Account, NEW v \in User, NEW i \in DOMAIN r[e][a][v]
        PROVE  r[e][a][v][i].val <= b + 1
    <3>1. CASE e = d /\ a = c /\ v = u
      <4>1. (i \in DOMAIN s /\ Append(s, w)[i] = s[i]) \/ Append(s, w)[i] = w
        <5> HIDE DEF s
        <5>1. i \in DOMAIN Append(s, w)
          BY <2>7, <3>1
        <5> QED
          BY <2>4, <2>5, <5>1, Enqueue
      <4> QED
        BY <1>3, <2>2, <2>4, <2>7, <3>1, <4>1 DEF Within
    <3>2. CASE ~(e = d /\ a = c /\ v = u)
      BY <1>3, <2>7, <3>2 DEF Within, OthersStay
    <3> QED
      BY <3>1, <3>2
  <2>9. AwaitedOf(counts, User) = Pending /\ AwaitedOf(r, User) = Pending'
    BY DEF AwaitedOf, Pending, r
  <2>10. IsFiniteSet(Pending') /\ Cardinality(Pending') <= Cardinality(Pending) + 1
    <3>1. IsFiniteSet(AwaitedOf(counts, User))
      BY <2>9 DEF Enough
    <3>2. /\ IsFiniteSet(AwaitedOf(r, User))
          /\ Cardinality(AwaitedOf(r, User)) <= Cardinality(AwaitedOf(counts, User)) + 1
      BY <2>2, <2>5, <2>7, <3>1, AwaitedAppend
    <3> QED
      BY <2>9, <3>2
  <2>11. Within(b + 1)'
    BY <1>1, <1>3, <2>8 DEF Within, docVars, r
  <2>12. Worth' >= b + 1
    BY <1>2, <2>10, WorthMoves
  <2> QED
    BY <1>2, <2>10, <2>11, <2>12, EnoughAfter
<1> QED
  BY <1>4, <1>5

LEMMA HeadCount ==
  ASSUME TypeOK, NEW d \in Device, NEW u \in User, counts[d][auth[d]][u] # <<>>,
         NEW r, r = [counts EXCEPT ![d][auth[d]][u] = Tail(@)]
  PROVE  r[d][auth[d]][u] = Tail(counts[d][auth[d]][u]) /\ OthersStay(counts, r, User, d, auth[d], u)
<1> DEFINE c == auth[d]
           v == Tail(counts[d][c][u])
<1>1. c \in Account /\ counts \in Queues(User, CountRecord) /\ counts[d][c][u] \in Seq(CountRecord)
  BY DEF TypeOK, SessionTypeOK, Queues
<1>2. v \in Seq(CountRecord) /\ r = [counts EXCEPT ![d][c][u] = v]
  BY <1>1, Dequeue
<1> HIDE DEF c, v
<1>3. r[d][c][u] = v /\ OthersStay(counts, r, User, d, c, u)
  BY <1>1, <1>2 DEF Queues, OthersStay
<1> QED
  BY <1>3 DEF c, v

\* What is left of the queues when one loses its head.
LEMMA CountsTail ==
  ASSUME TypeOK, NEW b \in Int, Enough(b), NEW d \in Device, NEW u \in User,
         counts[d][auth[d]][u] # <<>>,
         counts'[d][auth[d]][u] = Tail(counts[d][auth[d]][u]),
         OthersStay(counts, counts', User, d, auth[d], u)
  PROVE  /\ Head(counts[d][auth[d]][u]).val <= b
         /\ \A e \in Device, a \in Account, v \in User :
              \A i \in DOMAIN counts'[e][a][v] : counts'[e][a][v][i].val <= b
         /\ IsFiniteSet(Pending') /\ Cardinality(Pending') <= Cardinality(Pending)
         /\ Head(counts[d][auth[d]][u]).attached => Cardinality(Pending') + 1 <= Cardinality(Pending)
<1> DEFINE q == counts
           r == counts'
           c == auth[d]
           s == q[d][c][u]
<1>1. /\ c \in Account /\ q \in Queues(User, CountRecord) /\ s \in Seq(CountRecord)
  BY DEF TypeOK, SessionTypeOK, Queues
<1>2. /\ Head(s) = s[1] /\ 1 \in DOMAIN s
      /\ Tail(s) \in Seq(CountRecord) /\ \A i \in DOMAIN Tail(s) : i + 1 \in DOMAIN s /\ Tail(s)[i] = s[i + 1]
  BY <1>1, Dequeue
<1>3. r[d][c][u] = Tail(s) /\ OthersStay(q, r, User, d, c, u)
  OBVIOUS
<1>4. ASSUME NEW e \in Device, NEW a \in Account, NEW v \in User, NEW i \in DOMAIN r[e][a][v]
      PROVE  r[e][a][v][i].val <= b
  <2>1. CASE e = d /\ a = c /\ v = u
    <3>1. \A j \in DOMAIN s : s[j].val <= b
      BY <1>1 DEF Enough, Within
    <3>2. r[e][a][v] = Tail(s) /\ i \in DOMAIN Tail(s)
      BY <1>3, <1>4, <2>1
    <3>3. i + 1 \in DOMAIN s /\ r[e][a][v][i] = s[i + 1]
      BY <1>2, <3>2
    <3> QED
      BY <3>1, <3>3
  <2>2. CASE ~(e = d /\ a = c /\ v = u)
    BY <1>3, <2>2 DEF Enough, Within, OthersStay
  <2> QED
    BY <2>1, <2>2
<1>5. AwaitedOf(q, User) = Pending /\ AwaitedOf(r, User) = Pending'
  BY DEF AwaitedOf, Pending
<1>6. IsFiniteSet(AwaitedOf(q, User))
  BY <1>5 DEF Enough
<1>7. Head(s).val <= b
  BY <1>1, <1>2 DEF Enough, Within
<1> HIDE DEF q, r, c
<1>8. /\ IsFiniteSet(AwaitedOf(r, User))
      /\ Cardinality(AwaitedOf(r, User)) <= Cardinality(AwaitedOf(q, User))
      /\ Head(s).attached => Cardinality(AwaitedOf(r, User)) + 1 <= Cardinality(AwaitedOf(q, User))
  BY <1>1, <1>3, <1>6, AwaitedTail DEF q, r, c
<1> QED
  BY <1>4, <1>5, <1>7, <1>8 DEF q, r, c

\* A write that leaves its queue: what its completion adds was accounted for.
LEMMA WorthCount ==
  ASSUME TypeOK, TypeOK', NEW b \in Int, b >= 0, Enough(b), NEW d \in Device, NEW u \in User,
         CommitCount(d, u) \/ RejectCount(d, u)
  PROVE  WorthInv'
<1> DEFINE s == counts[d][auth[d]][u]
<1>1. s # <<>> /\ tallies' = tallies /\ finds' = finds /\ auth' = auth /\ loads' = loads
  BY DEF CommitCount, RejectCount, docVars, sessionVars
<1>2. Head(s).val <= b
  <2>1. auth[d] \in Account /\ s \in Seq(CountRecord)
    BY DEF TypeOK, SessionTypeOK
  <2>2. Head(s) = s[1] /\ 1 \in DOMAIN s
    BY <1>1, <2>1, Dequeue
  <2> QED
    BY <2>1, <2>2 DEF Enough, Within
<1>3. \A v \in User : totalPlaylistsFound'[v] # NotSet => totalPlaylistsFound'[v] <= b
  <2>1. \/ totalPlaylistsFound' = totalPlaylistsFound
        \/ totalPlaylistsFound' = [totalPlaylistsFound EXCEPT ![u] = Head(s).val]
    BY DEF CommitCount, RejectCount, docVars
  <2> QED
    BY <1>2, <2>1 DEF TypeOK, Enough, Within
<1>4. CASE counts' = counts /\ info' = info
  <2>1. FieldsWithin(b)'
    BY <1>1, <1>4 DEF Enough, Within, FieldsWithin
  <2>2. Within(b)'
    BY <1>3, <1>4, <2>1 DEF Enough, Within
  <2> QED
    BY <1>1, <1>4, <2>2, WorthSame
<1>5. CASE /\ counts' = [counts EXCEPT ![d][auth[d]][u] = Tail(@)]
           /\ info' = info \/ (Head(s).attached /\ info' = [info EXCEPT ![d].field = @ + 1])
  <2>1. counts'[d][auth[d]][u] = Tail(s) /\ OthersStay(counts, counts', User, d, auth[d], u)
    BY <1>1, <1>5, HeadCount
  <2>2. /\ \A e \in Device, a \in Account, v \in User :
              \A i \in DOMAIN counts'[e][a][v] : counts'[e][a][v][i].val <= b
        /\ IsFiniteSet(Pending') /\ Cardinality(Pending') <= Cardinality(Pending)
        /\ Head(s).attached => Cardinality(Pending') + 1 <= Cardinality(Pending)
    BY <1>1, <2>1, CountsTail
  <2>3. /\ Cardinality(finds) \in Nat /\ Cardinality(tallies) \in Nat /\ Cardinality(Pending) \in Nat
        /\ Cardinality(Pending') \in Nat
    BY <2>2, Sizes, FS_CardinalityType DEF Enough
  <2>4. /\ IsFiniteSet(finds') /\ Cardinality(finds') >= Cardinality(finds) + 0
        /\ IsFiniteSet(tallies') /\ Cardinality(tallies') <= Cardinality(tallies) + 0
    BY <1>1, <2>3 DEF Enough
  <2>5. CASE info' = info
    <3>1. FieldsWithin(b)'
      BY <1>1, <2>5 DEF Enough, Within, FieldsWithin
    <3>2. Within(b)'
      BY <1>3, <2>2, <3>1 DEF Within
    <3>3. Cardinality(Pending') <= Cardinality(Pending) + 0
      BY <2>2, <2>3
    <3>4. Worth' >= b + 0
      BY <2>2, <2>4, <3>3, WorthMoves
    <3> QED
      BY <2>2, <2>4, <3>2, <3>4, EnoughAfter
  <2>6. CASE Head(s).attached /\ info' = [info EXCEPT ![d].field = @ + 1]
    <3>1. FieldsWithin(b + 1)'
      BY <1>1, <2>6, FoundAssumption, FieldsBump DEF TypeOK, Enough, Within
    <3>2. ASSUME NEW e \in Device, NEW a \in Account, NEW v \in User, NEW i \in DOMAIN counts'[e][a][v]
          PROVE  counts'[e][a][v][i].val <= b + 1
      <4>1. counts'[e][a][v] \in Seq(CountRecord)
        BY DEF TypeOK
      <4>2. counts'[e][a][v][i] \in CountRecord
        BY <4>1, ElementOf
      <4>3. counts'[e][a][v][i].val \in Int /\ counts'[e][a][v][i].val <= b
        BY <2>2, <4>2 DEF CountRecord
      <4> QED
        BY <4>3
    <3>3. \A v \in User : totalPlaylistsFound'[v] # NotSet => totalPlaylistsFound'[v] <= b + 1
      <4>1. \A v \in User : totalPlaylistsFound'[v] # NotSet =>
              totalPlaylistsFound'[v] \in Int /\ totalPlaylistsFound'[v] <= b
        BY <1>3 DEF TypeOK
      <4> QED
        BY <4>1
    <3>4. Within(b + 1)'
      BY <3>1, <3>2, <3>3 DEF Within
    <3>5. Cardinality(Pending') <= Cardinality(Pending) + (-1)
      BY <2>2, <2>3, <2>6
    <3>6. Worth' >= b + 1
      BY <2>2, <2>4, <3>5, WorthMoves
    <3> QED
      BY <2>2, <2>4, <3>4, <3>6, EnoughAfter
  <2> QED
    BY <1>5, <2>5, <2>6
<1>6. CASE RejectCount(d, u)
  <2>1. counts' = [counts EXCEPT ![d][auth[d]][u] = Tail(@)] /\ info' = info
    BY <1>6 DEF RejectCount, sessionVars
  <2> QED
    BY <1>5, <2>1
<1>7. CASE CommitCount(d, u)
  <2>1. \/ counts' = counts /\ info' = info
        \/ counts' = [counts EXCEPT ![d][auth[d]][u] = Tail(@)] /\ Bump(d, Head(s))
    BY <1>7, Zenon DEF CommitCount
  <2>2. Bump(d, Head(s)) => info' = info \/ (Head(s).attached /\ info' = [info EXCEPT ![d].field = @ + 1])
    BY DEF Bump
  <2> QED
    BY <1>4, <1>5, <2>1, <2>2
<1> QED
  BY <1>6, <1>7

LEMMA WorthNext == TypeOK /\ TypeOK' /\ OnceInv /\ WorthInv /\ [Next]_vars => WorthInv'
<1> SUFFICES ASSUME TypeOK, TypeOK', OnceInv, WorthInv, [Next]_vars PROVE WorthInv'
  OBVIOUS
<1>1. PICK b \in 0..(2 * Cardinality(finds)) : Enough(b)
  BY DEF WorthInv
<1>2. b \in Int /\ b >= 0 /\ Initial <= b /\ SessionTypeOK(Int) /\ FieldsWithin(b)
  BY <1>1, FoundAssumption DEF TypeOK, Enough, Within
<1>3. ASSUME NEW d \in Device, ComeAndGo(d) PROVE WorthInv'
  <2>1. FieldsWithin(b)'
    BY <1>2, <1>3, FieldsUserStep DEF ComeAndGo
  <2>2. Within(b)' /\ UNCHANGED <<finds, tallies, counts>>
    BY <1>1, <1>3, <2>1 DEF ComeAndGo, Enough, Within, docVars
  <2> QED
    BY <1>1, <1>2, <2>2, WorthSame
<1>4. ASSUME NEW d \in Device, Restart(d) PROVE WorthInv'
  BY <1>1, <1>2, <1>4, WorthRestart
<1>5. ASSUME UNCHANGED <<sessionVars, totalPlaylistsFound, finds, tallies, counts>> PROVE WorthInv'
  <2>1. Within(b)'
    BY <1>1, <1>5 DEF Enough, Within, FieldsWithin, sessionVars
  <2> QED
    BY <1>1, <1>2, <1>5, <2>1, WorthSame
<1>6. ASSUME NEW d \in Device, NEW loc \in Location, Tap(d, loc) PROVE WorthInv'
  BY <1>5, <1>6 DEF Tap, docVars
<1>7. ASSUME NEW l \in loads, Load(l) PROVE WorthInv'
  <2>1. l.dev \in Device /\ l.email \in User
    BY <1>2 DEF SessionTypeOK, LoadRecord
  <2>2. SeenCount(l.dev, l.email) # NotSet => SeenCount(l.dev, l.email) <= b
    BY <1>1, <1>2, <2>1, SeenWithin DEF Enough
  <2>3. FieldsWithin(b)'
    BY <1>2, <1>7, <2>2, FieldsLoadStep DEF Load
  <2>4. Within(b)' /\ UNCHANGED <<finds, tallies, counts>>
    BY <1>1, <1>7, <2>3 DEF Load, Enough, Within, docVars
  <2> QED
    BY <1>1, <1>2, <2>4, WorthSame
<1>8. ASSUME NEW c \in checks, AnswerCheck(c) \/ CheckArrives(c) \/ CheckFails(c) PROVE WorthInv'
  BY <1>5, <1>8 DEF AnswerCheck, CheckArrives, CheckFails, docVars
<1>9. ASSUME NEW d \in Device, NEW p \in Playlist, CommitMark(d, p) \/ RejectMark(d, p) PROVE WorthInv'
  BY <1>1, <1>2, <1>9, WorthMark
<1>10. ASSUME NEW t \in tallies, TallyArrives(t) \/ TallyFails(t) PROVE WorthInv'
  BY <1>1, <1>2, <1>10, WorthTally
<1>11. ASSUME NEW d \in Device, NEW u \in User, CommitCount(d, u) \/ RejectCount(d, u) PROVE WorthInv'
  BY <1>1, <1>2, <1>11, WorthCount
<1>12. CASE UNCHANGED vars
  BY <1>5, <1>12 DEF vars, docVars
<1> QED
  BY <1>3, <1>4, <1>6, <1>7, <1>8, <1>9, <1>10, <1>11, <1>12
     DEF Next, UserStep, LoadStep, CheckStep, MarkStep, CountStep

\* No "playlists found" number, stored for a user or shown by a phone, gets
\* ahead of twice the finds that were completed (mapVC.swift): a completed
\* mark raises numbers when the count is computed and when the singleton is
\* bumped, and a tap completes one mark per playlist, in whatever order
\* reloads, retries, sessions and restarts run the callbacks.
THEOREM CountsAreBounded == Spec => []CountBounded
<1>1. Init => TypeOK /\ OnceInv /\ WorthInv
  BY TypeOKInit, OnceInit, WorthInit
<1>2. TypeOK /\ OnceInv /\ WorthInv /\ [Next]_vars => (TypeOK /\ OnceInv /\ WorthInv)'
  BY TypeOKNext, OnceNext, WorthNext
<1>3. TypeOK /\ WorthInv => CountBounded
  <2> SUFFICES ASSUME TypeOK, WorthInv PROVE CountBounded
    OBVIOUS
  <2>1. PICK b \in 0..(2 * Cardinality(finds)) : Enough(b)
    BY DEF WorthInv
  <2>2. Cardinality(finds) \in Nat
    BY <2>1, Sizes DEF Enough
  <2>3. \A u \in User : totalPlaylistsFound[u] # NotSet =>
          totalPlaylistsFound[u] \in Int /\ totalPlaylistsFound[u] <= b
    BY <2>1 DEF TypeOK, Enough, Within
  <2>4. \A d \in Device : info[d].field \in Int /\ info[d].field <= b
    BY <2>1 DEF TypeOK, SessionTypeOK, Enough, Within, FieldsWithin
  <2> DEFINE m == 2 * Cardinality(finds)
  <2>5. m \in Int /\ b <= m /\ b \in Int
    BY <2>1, <2>2
  <2> HIDE DEF m
  <2>6. /\ \A u \in User : totalPlaylistsFound[u] # NotSet => totalPlaylistsFound[u] <= m
        /\ \A d \in Device : info[d].field <= m
    BY <2>3, <2>4, <2>5
  <2> QED
    BY <2>6 DEF CountBounded, m
<1> QED
  BY <1>1, <1>2, <1>3, PTL DEF Spec

-----------------------------------------------------------------------------
(* Patient histories: types *)

\* A step of a patient history is a step of PlaylistsFound.
LEMMA PatientStepIsNext == PatientStep => Next
BY DEF PatientStep, Next, UserStep, LoadStep, CheckStep, MarkStep, CountStep

LEMMA StepIsNext == Step => Next /\ patient' = patient
BY PatientStepIsNext DEF Step

LEMMA HistoryTypes == Histories => []TypeOK
<1>1. EitherInit => TypeOK
  BY TypeOKInit DEF EitherInit
<1>2. TypeOK /\ [Step]_<<vars, patient>> => TypeOK'
  BY StepIsNext, TypeOKNext DEF vars
<1> QED
  BY <1>1, <1>2, PTL DEF Histories

-----------------------------------------------------------------------------
(* Patient histories: one request at a time *)

\* At most one playlist per pair of coordinates.
OnePerSpot == \A p, q \in Playlist : LocationOf[p] = LocationOf[q] => p = q

OwnPhone == \A d \in Device : auth[d] # Nobody => PhoneOf[auth[d]] = d

NumberOf(u) == Stored(totalPlaylistsFound[u])

\* Phone d shows its user's stored number.
Ready(d) == auth[d] # Nobody => info[d] = [email |-> auth[d], field |-> NumberOf(auth[d])]

Right(u) == NumberOf(u) = Cardinality(FoundBy(u))

\* User u's number, but for playlist p.
RightBut(u, p) == NumberOf(u) = Cardinality(FoundBy(u) \ {p})

FiniteFinds == \A u \in User : IsFiniteSet(FoundBy(u))

NoMarks  == \A d \in Device, a \in Account, p \in Playlist : marks[d][a][p] = <<>>
NoCounts == \A d \in Device, a \in Account, u \in User : counts[d][a][u] = <<>>

\* A check that finds no playlist, whatever is stored.
Idle(c) == DocumentsAt(c.coll, c.loc) = {}

AllIdle == \A c \in checks : Idle(c)

\* Nothing is under way but, perhaps, checks that find nothing.
AtRest ==
  /\ loads = {} /\ tallies = {} /\ NoMarks /\ NoCounts /\ AllIdle
  /\ \A d \in Device : Ready(d)
  /\ \A u \in User : Right(u)

\* Phone d is loading the number of its user u.
Loading(d, u) ==
  /\ auth[d] = u /\ info[d] = ClearedInfo
  /\ \E l \in loads :
       /\ loads = {l} /\ l.dev = d /\ l.email = u
       /\ l.answered => l.field = totalPlaylistsFound[u]
  /\ tallies = {} /\ NoMarks /\ NoCounts /\ AllIdle
  /\ \A e \in Device \ {d} : Ready(e)
  /\ \A v \in User : Right(v)

\* Check c is phone d's for playlist p, and is the only one to find anything.
Asks(d, p, c) ==
  /\ c.dev = d /\ DocumentsAt(c.coll, c.loc) = {p}
  /\ c.answered => c.lists[p] = hasFound[p]
  /\ \A k \in checks \ {c} : Idle(k)

Checking(d, u) ==
  /\ auth[d] = u
  /\ \E p \in Playlist, c \in checks : Asks(d, p, c)
  /\ loads = {} /\ tallies = {} /\ NoMarks /\ NoCounts
  /\ \A e \in Device : Ready(e)
  /\ \A v \in User : Right(v)

\* User u of phone d finds p, and the singleton has not been bumped yet.
Finding(d, u, p) ==
  /\ auth[d] = u
  /\ info[d] = [email |-> u, field |-> Cardinality(FoundBy(u) \ {p})]
  /\ loads = {} /\ AllIdle
  /\ \A e \in Device \ {d} : Ready(e)
  /\ \A v \in User \ {u} : Right(v)

\* The one write of a list that a patient history has queued.
MarkQueued(d, u, p, w) ==
  /\ w.attached /\ w.email = u /\ Range(w.val) = Range(hasFound[p]) \cup {u}
  /\ \A e \in Device, a \in Account, q \in Playlist :
       marks[e][a][q] = IF e = d /\ a = u /\ q = p THEN <<w>> ELSE <<>>

\* The write of p's list is queued; it may have been applied already.
Marking(d, u, p) ==
  /\ Finding(d, u, p) /\ RightBut(u, p)
  /\ \E w \in MarkRecord : MarkQueued(d, u, p, w)
  /\ tallies = {} /\ NoCounts

\* The list has the user, and the user's document is looked up.
Tallying(d, u, p) ==
  /\ Finding(d, u, p) /\ RightBut(u, p) /\ p \in FoundBy(u)
  /\ \E t \in tallies : tallies = {t} /\ t.dev = d /\ t.email = u
  /\ NoMarks /\ NoCounts

\* The one write of a number that a patient history has queued.
CountQueued(d, u, w) ==
  /\ w.attached /\ w.val = Cardinality(FoundBy(u))
  /\ \A e \in Device, a \in Account, v \in User :
       counts[e][a][v] = IF e = d /\ a = u /\ v = u THEN <<w>> ELSE <<>>

\* The write of the number is queued; it may have been applied already.
Counting(d, u, p) ==
  /\ Finding(d, u, p) /\ p \in FoundBy(u)
  /\ RightBut(u, p) \/ Right(u)
  /\ \E w \in CountRecord : CountQueued(d, u, w)
  /\ tallies = {} /\ NoMarks

InPhase ==
  \/ AtRest
  \/ \E d \in Device, u \in User :
       \/ Loading(d, u) \/ Checking(d, u)
       \/ \E p \in Playlist : Marking(d, u, p) \/ Tallying(d, u, p) \/ Counting(d, u, p)

\* What makes the properties of patient histories inductive: a find passes
\* through one request at a time, and nobody else's meanwhile.
PatientInv == OwnPhone /\ FiniteFinds /\ InPhase

\* What depends on the documents only.
LEMMA SameNumbers ==
  UNCHANGED <<hasFound, totalPlaylistsFound>> =>
    /\ \A u : FoundBy(u)' = FoundBy(u) /\ NumberOf(u)' = NumberOf(u)
    /\ \A u : Right(u) => Right(u)'
    /\ \A u, p : RightBut(u, p) => RightBut(u, p)'
    /\ FiniteFinds => FiniteFinds'
BY DEF FoundBy, NumberOf, Stored, Right, RightBut, FiniteFinds

LEMMA SameReady ==
  ASSUME UNCHANGED totalPlaylistsFound, NEW d \in Device, auth'[d] = auth[d], info'[d] = info[d],
         Ready(d)
  PROVE  Ready(d)'
BY DEF Ready, NumberOf, Stored

LEMMA SameNoMarks == NoMarks /\ marks' = marks => NoMarks'
BY DEF NoMarks

LEMMA SameNoCounts == NoCounts /\ counts' = counts => NoCounts'
BY DEF NoCounts

\* What checks that find nothing do: nothing.
LEMMA SameAtRest ==
  ASSUME UNCHANGED <<auth, info, loads, hasFound, totalPlaylistsFound, tallies, marks, counts>>,
         AllIdle', AtRest
  PROVE  AtRest'
BY SameNumbers, SameReady, SameNoMarks, SameNoCounts DEF AtRest

LEMMA SameLoading ==
  ASSUME UNCHANGED <<auth, info, loads, hasFound, totalPlaylistsFound, tallies, marks, counts>>,
         AllIdle', NEW d \in Device, NEW u \in User, Loading(d, u)
  PROVE  Loading(d, u)'
BY SameNumbers, SameReady, SameNoMarks, SameNoCounts DEF Loading, ClearedInfo

LEMMA SameFinding ==
  ASSUME UNCHANGED <<auth, info, loads, hasFound, totalPlaylistsFound>>, AllIdle',
         NEW d \in Device, NEW u \in User, NEW p \in Playlist, Finding(d, u, p)
  PROVE  Finding(d, u, p)'
BY SameNumbers, SameReady DEF Finding

LEMMA SameMarking ==
  ASSUME UNCHANGED <<auth, info, loads, hasFound, totalPlaylistsFound, tallies, marks, counts>>,
         AllIdle', NEW d \in Device, NEW u \in User, NEW p \in Playlist, Marking(d, u, p)
  PROVE  Marking(d, u, p)'
<1>1. PICK w \in MarkRecord :
        /\ w.attached /\ w.email = u /\ Range(w.val) = Range(hasFound[p]) \cup {u}
        /\ \A e \in Device, a \in Account, q \in Playlist :
             marks[e][a][q] = IF e = d /\ a = u /\ q = p THEN <<w>> ELSE <<>>
  BY DEF Marking, MarkQueued
<1>2. Finding(d, u, p)' /\ RightBut(u, p)' /\ tallies' = {} /\ NoCounts'
  BY SameFinding, SameNumbers, SameNoCounts DEF Marking
<1>3. /\ w.attached /\ w.email = u /\ Range(w.val) = Range(hasFound'[p]) \cup {u}
      /\ \A e \in Device, a \in Account, q \in Playlist :
           marks'[e][a][q] = IF e = d /\ a = u /\ q = p THEN <<w>> ELSE <<>>
  BY <1>1
<1> QED
  BY <1>2, <1>3 DEF Marking, MarkQueued

LEMMA SameTallying ==
  ASSUME UNCHANGED <<auth, info, loads, hasFound, totalPlaylistsFound, tallies, marks, counts>>,
         AllIdle', NEW d \in Device, NEW u \in User, NEW p \in Playlist, Tallying(d, u, p)
  PROVE  Tallying(d, u, p)'
BY SameFinding, SameNumbers, SameNoMarks, SameNoCounts DEF Tallying

LEMMA SameCounting ==
  ASSUME UNCHANGED <<auth, info, loads, hasFound, totalPlaylistsFound, tallies, marks, counts>>,
         AllIdle', NEW d \in Device, NEW u \in User, NEW p \in Playlist, Counting(d, u, p)
  PROVE  Counting(d, u, p)'
<1>1. PICK w \in CountRecord :
        /\ w.attached /\ w.val = Cardinality(FoundBy(u))
        /\ \A e \in Device, a \in Account, v \in User :
             counts[e][a][v] = IF e = d /\ a = u /\ v = u THEN <<w>> ELSE <<>>
  BY DEF Counting, CountQueued
<1>2. /\ Finding(d, u, p)' /\ (RightBut(u, p) \/ Right(u))' /\ FoundBy(u)' = FoundBy(u)
      /\ p \in FoundBy(u) /\ tallies' = {} /\ NoMarks'
  BY SameFinding, SameNumbers, SameNoMarks DEF Counting
<1> QED
  BY <1>1, <1>2 DEF Counting, CountRecord, CountQueued

\* When every check left finds nothing, only the phase Checking may end.
LEMMA SamePhase ==
  ASSUME UNCHANGED <<auth, info, loads, hasFound, totalPlaylistsFound, tallies, marks, counts>>,
         AllIdle', PatientInv, AllIdle
  PROVE  PatientInv'
<1>1. OwnPhone' /\ FiniteFinds'
  BY SameNumbers DEF PatientInv, OwnPhone
<1>2. ASSUME NEW d \in Device, NEW u \in User, Checking(d, u) PROVE FALSE
  BY <1>2 DEF Checking, Asks, Idle, AllIdle
<1>3. InPhase'
  BY <1>2, SameAtRest, SameLoading, SameMarking, SameTallying, SameCounting DEF PatientInv, InPhase
<1> QED
  BY <1>1, <1>3 DEF PatientInv

\* All is idle but in the phase Checking.
LEMMA IdleBut ==
  InPhase => AllIdle \/ \E d \in Device, u \in User : Checking(d, u)
BY DEF InPhase, AtRest, Loading, Marking, Tallying, Counting, Finding

\* Whoever is signed in has an account.
LEMMA UserOf ==
  ASSUME TypeOK, NEW d \in Device
  PROVE  /\ auth[d] \in Account
         /\ auth[d] # Nobody => auth[d] \in User
         /\ auth \in [Device -> Account]
         /\ info \in [Device -> [email : Email, field : Int]]
BY DEF TypeOK, SessionTypeOK, Account

LEMMA AUser == ASSUME NEW u \in User PROVE u # Nobody /\ u \in Account
BY SessionAssumption DEF Account

\* When all is quiet no request is on its way.
LEMMA QuietAtRest ==
  ASSUME TypeOK, InPhase, AllQuiet
  PROVE  AtRest /\ checks = {}
<1>1. Nobody \in Account
  BY DEF Account
<1>2. loads = {} /\ checks = {} /\ tallies = {}
  BY <1>1 DEF AllQuiet, Quiet, TypeOK, SessionTypeOK, LoadRecord, CheckRecord, TallyRecord
<1>3. NoMarks /\ NoCounts
  BY DEF AllQuiet, Quiet, NoMarks, NoCounts
<1>4. \A w : <<w>> # <<>>
  OBVIOUS
<1>5. ASSUME NEW d \in Device, NEW u \in User, NEW p \in Playlist, Marking(d, u, p) PROVE FALSE
  <2>1. PICK w : marks[d][u][p] = <<w>>
    BY <1>5, AUser DEF Marking, MarkQueued
  <2>2. marks[d][u][p] = <<>>
    BY <1>3, AUser DEF NoMarks
  <2> QED
    BY <1>4, <2>1, <2>2, Zenon
<1>6. ASSUME NEW d \in Device, NEW u \in User, NEW p \in Playlist, Counting(d, u, p) PROVE FALSE
  <2>1. PICK w : counts[d][u][u] = <<w>>
    BY <1>6, AUser DEF Counting, CountQueued
  <2>2. counts[d][u][u] = <<>>
    BY <1>3, AUser DEF NoCounts
  <2> QED
    BY <1>4, <2>1, <2>2, Zenon
<1> QED
  BY <1>2, <1>5, <1>6 DEF InPhase, Loading, Checking, Tallying

LEMMA PatientInit == Init => PatientInv
<1> SUFFICES ASSUME Init PROVE PatientInv
  OBVIOUS
<1>1. /\ \A p \in Playlist : hasFound[p] = <<>>
      /\ \A u \in User : totalPlaylistsFound[u] = NotSet
      /\ NoMarks /\ NoCounts /\ loads = {} /\ checks = {} /\ tallies = {}
      /\ \A d \in Device : auth[d] = Nobody
  BY DEF Init, SessionInit, NoMarks, NoCounts
<1>2. DOMAIN <<>> = {}
  OBVIOUS
<1>3. \A p \in Playlist : Range(hasFound[p]) = {}
  BY <1>1, <1>2 DEF Range
<1>4. \A u \in User : FoundBy(u) = {}
  BY <1>3 DEF FoundBy
<1>5. \A u \in User : IsFiniteSet(FoundBy(u)) /\ Cardinality(FoundBy(u)) = 0
  <2>1. IsFiniteSet({}) /\ Cardinality({}) = 0
    BY FS_EmptySet
  <2> QED
    BY <1>4, <2>1
<1>6. ASSUME NEW u \in User PROVE Right(u)
  <2>1. totalPlaylistsFound[u] = NotSet
    BY <1>1
  <2>2. NumberOf(u) = 0
    BY <2>1, Zenon DEF NumberOf, Stored
  <2> QED
    BY <1>5, <2>2 DEF Right
<1> QED
  BY <1>1, <1>5, <1>6 DEF PatientInv, OwnPhone, FiniteFinds, InPhase, AtRest, AllIdle, Ready

-----------------------------------------------------------------------------
(* Patient histories: steps *)

\* A user comes or goes.
LEMMA PatientComes ==
  ASSUME TypeOK, PatientInv, AllQuiet, NEW d \in Device, ComeAndGo(d),
         \A u \in User : auth'[d] = u => PhoneOf[u] = d
  PROVE  PatientInv'
<1>0. /\ UNCHANGED <<hasFound, totalPlaylistsFound, checks, tallies, marks, counts>>
      /\ AtRest /\ OwnPhone
  BY QuietAtRest DEF ComeAndGo, docVars, PatientInv
<1>1. /\ auth \in [Device -> Account] /\ info \in [Device -> [email : Email, field : Int]]
      /\ loads = {} /\ tallies' = {} /\ NoMarks' /\ NoCounts'
      /\ AllIdle' /\ FiniteFinds' /\ \A u \in User : Right(u)'
  BY <1>0, UserOf, SameNumbers, SameNoMarks, SameNoCounts DEF AtRest, AllIdle, Idle, PatientInv
<1>2. ASSUME NEW u \in User, auth' = [auth EXCEPT ![d] = u], GetUserInfo(d, u, loads)
      PROVE  OwnPhone' /\ Loading(d, u)'
  <2>1. \A e \in Device : auth'[e] = IF e = d THEN u ELSE auth[e]
    BY <1>1, <1>2
  <2>2. OwnPhone'
    BY <1>0, <2>1 DEF OwnPhone
  <2>3. \A e \in Device : info'[e] = IF e = d THEN ClearedInfo ELSE info[e]
    BY <1>1, <1>2 DEF GetUserInfo
  <2> DEFINE l == [n |-> appeared, dev |-> d, email |-> u, answered |-> FALSE, field |-> NotSet]
  <2>4. loads' = {l} /\ l.dev = d /\ l.email = u /\ ~l.answered
    BY <1>1, <1>2 DEF GetUserInfo
  <2> HIDE DEF l
  <2>5. \E k \in loads' : loads' = {k} /\ k.dev = d /\ k.email = u /\ ~k.answered
    BY <2>4
  <2>6. \A e \in Device \ {d} : Ready(e)'
    BY <1>0, <2>1, <2>3, SameReady DEF AtRest
  <2> QED
    BY <1>1, <2>1, <2>2, <2>3, <2>5, <2>6 DEF Loading, ClearedInfo
<1>3. CASE \E u \in User : SignIn(d, u)
  BY <1>1, <1>2, <1>3 DEF SignIn, InPhase, PatientInv
<1>4. CASE MapAppears(d)
  <2>1. auth[d] \in User /\ auth' = [auth EXCEPT ![d] = auth[d]]
    BY <1>1, <1>4, UserOf DEF MapAppears
  <2> QED
    BY <1>1, <1>2, <1>4, <2>1 DEF MapAppears, InPhase, PatientInv
<1>5. CASE SignOut(d)
  <2>1. /\ UNCHANGED <<info, loads>>
        /\ \A e \in Device : auth'[e] = IF e = d THEN Nobody ELSE auth[e]
    BY <1>1, <1>5 DEF SignOut
  <2>2. OwnPhone'
    BY <1>0, <2>1 DEF OwnPhone
  <2>3. ASSUME NEW e \in Device PROVE Ready(e)'
    <3>1. CASE e = d
      BY <2>1, <3>1 DEF Ready
    <3>2. CASE e # d
      BY <1>0, <2>1, <3>2, SameReady DEF AtRest
    <3> QED
      BY <3>1, <3>2
  <2>4. AtRest'
    BY <1>1, <2>1, <2>3 DEF AtRest
  <2> QED
    BY <1>1, <2>2, <2>4 DEF InPhase, PatientInv
<1> QED
  BY <1>3, <1>4, <1>5 DEF ComeAndGo

\* The two checks of a tap: one finds the playlist of the spot, if there is one.
LEMMA PatientTap ==
  ASSUME OnePerSpot, TypeOK, PatientInv, AllQuiet, NEW d \in Device, NEW loc \in Location, Tap(d, loc)
  PROVE  PatientInv'
<1>1. AtRest /\ checks = {}
  BY QuietAtRest DEF PatientInv
<1>2. /\ UNCHANGED <<auth, info, loads, hasFound, totalPlaylistsFound, tallies, marks, counts>>
      /\ auth[d] \in User
  BY UserOf DEF Tap, sessionVars, docVars
<1> DEFINE k(coll) == [tap |-> taps, dev |-> d, coll |-> coll, loc |-> loc,
                       answered |-> FALSE, lists |-> NoLists]
<1>3. /\ checks' = {k(coll) : coll \in Collection}
      /\ \A coll : k(coll).dev = d /\ k(coll).coll = coll /\ k(coll).loc = loc /\ ~k(coll).answered
  BY <1>1 DEF Tap
<1> HIDE DEF k
<1>4. CASE \A p \in Playlist : LocationOf[p] # loc
  <2>1. AllIdle'
    BY <1>3, <1>4 DEF AllIdle, Idle, DocumentsAt
  <2> QED
    BY <1>1, <1>2, <2>1, SamePhase DEF AllIdle
<1>5. ASSUME NEW p \in Playlist, LocationOf[p] = loc PROVE PatientInv'
  <2>1. \A q \in Playlist : LocationOf[q] = loc <=> q = p
    BY <1>5 DEF OnePerSpot
  <2> DEFINE coll == IF p \in Master THEN "masterPlaylists" ELSE "userPlaylists"
  <2>2. coll \in Collection /\ DocumentsAt(coll, loc) = {p}
    BY <2>1 DEF Collection, DocumentsAt
  <2>3. \A c \in Collection \ {coll} : DocumentsAt(c, loc) = {}
    BY <2>1 DEF Collection, DocumentsAt
  <2> HIDE DEF coll
  <2>4. \E c \in checks' : Asks(d, p, c)'
    <3>1. k(coll) \in checks'
      BY <1>3, <2>2
    <3>2. ASSUME NEW x \in checks', x # k(coll) PROVE DocumentsAt(x.coll, x.loc) = {}
      BY <1>3, <2>3, <3>2
    <3>3. ASSUME NEW c, c = k(coll) PROVE Asks(d, p, c)'
      BY <1>3, <2>2, <3>2, <3>3 DEF Asks, Idle
    <3> QED
      BY <3>1, <3>3
  <2>5. ASSUME NEW u \in User, u = auth[d] PROVE Checking(d, u)'
    BY <1>1, <1>2, <2>4, <2>5, SameNumbers, SameReady, SameNoMarks, SameNoCounts
       DEF AtRest, Checking
  <2>6. OwnPhone' /\ FiniteFinds'
    BY <1>2, SameNumbers DEF PatientInv, OwnPhone
  <2> QED
    BY <1>2, <2>5, <2>6 DEF PatientInv, InPhase
<1> QED
  BY <1>4, <1>5

\* The number is read and shown.
LEMMA PatientLoad ==
  ASSUME TypeOK, PatientInv, NEW l \in loads, Load(l), ~LoadFails(l)
  PROVE  PatientInv'
<1>1. PICK d \in Device, u \in User : Loading(d, u)
  BY DEF PatientInv, InPhase, AtRest, Checking, Marking, Tallying, Counting, Finding
<1>2. /\ loads = {l} /\ l.dev = d /\ l.email = u /\ l \in LoadRecord(Int)
      /\ l.answered => l.field = totalPlaylistsFound[u]
      /\ auth[d] = u /\ u \in Account /\ u # Nobody
  BY <1>1, AUser DEF Loading, TypeOK, SessionTypeOK
<1>3. /\ UNCHANGED <<auth, hasFound, totalPlaylistsFound, checks, tallies, marks, counts>>
      /\ NoMarks' /\ NoCounts' /\ tallies' = {} /\ AllIdle'
      /\ OwnPhone' /\ FiniteFinds' /\ \A v \in User : Right(v)'
  <2>1. UNCHANGED <<auth, hasFound, totalPlaylistsFound, checks, tallies, marks, counts>>
    BY DEF Load, docVars, AnswerLoad, LoadArrives, LoadFails
  <2>2. AllIdle' /\ OwnPhone'
    BY <1>1, <2>1 DEF Loading, AllIdle, Idle, PatientInv, OwnPhone
  <2> QED
    BY <1>1, <2>1, <2>2, SameNumbers, SameNoMarks, SameNoCounts DEF Loading, PatientInv
<1>4. CASE AnswerLoad(l, SeenCount(l.dev, l.email))
  <2>1. SeenCount(l.dev, l.email) = totalPlaylistsFound[u]
    BY <1>1, <1>2 DEF SeenCount, Overlay, Loading, NoCounts
  <2> DEFINE k == [l EXCEPT !.answered = TRUE, !.field = totalPlaylistsFound[u]]
  <2>2. loads' = {k} /\ UNCHANGED info
    BY <1>2, <1>4, <2>1 DEF AnswerLoad
  <2>3. k.dev = d /\ k.email = u /\ k.field = totalPlaylistsFound[u]
    BY <1>2 DEF LoadRecord
  <2> HIDE DEF k
  <2>4. \A e \in Device \ {d} : Ready(e)'
    BY <1>1, <1>3, <2>2, SameReady DEF Loading
  <2>5. \E j \in loads' : /\ loads' = {j} /\ j.dev = d /\ j.email = u
                          /\ j.answered => j.field = totalPlaylistsFound'[u]
    BY <1>3, <2>2, <2>3
  <2>6. info'[d] = ClearedInfo
    BY <1>1, <2>2 DEF Loading
  <2>7. Loading(d, u)'
    BY <1>2, <1>3, <2>4, <2>5, <2>6 DEF Loading, ClearedInfo
  <2> QED
    BY <1>3, <2>7 DEF InPhase, PatientInv
<1>5. CASE LoadArrives(l)
  <2>1. l.answered /\ loads' = {} /\ l.field = totalPlaylistsFound[u]
    BY <1>2, <1>5 DEF LoadArrives
  <2>2. info \in [Device -> [email : Email, field : Int]] /\ info[d] = [email |-> Nobody, field |-> 0]
    BY <1>1, UserOf, FoundAssumption DEF Loading, ClearedInfo
  <2> DEFINE value == IF l.field = NotSet THEN info[d].field ELSE l.field
  <2>3. info' = [info EXCEPT ![d].email = u, ![d].field = value]
    BY <1>2, <1>5 DEF LoadArrives
  <2>4. value = NumberOf(u)
    BY <2>1, <2>2 DEF NumberOf, Stored
  <2> HIDE DEF value
  <2>5. /\ \A e \in Device \ {d} : info'[e] = info[e]
        /\ info'[d] = [email |-> u, field |-> value]
    BY <2>2, <2>3
  <2>6. NumberOf(u)' = NumberOf(u)
    BY <1>3, SameNumbers
  <2>7. Ready(d)'
    BY <1>2, <1>3, <2>4, <2>5, <2>6 DEF Ready, NumberOf
  <2>8. \A e \in Device \ {d} : Ready(e)'
    BY <1>1, <1>3, <2>5, SameReady DEF Loading
  <2>9. AtRest'
    BY <1>3, <2>1, <2>7, <2>8 DEF AtRest
  <2> QED
    BY <1>3, <2>9 DEF InPhase, PatientInv
<1> QED
  BY <1>4, <1>5 DEF Load

\* A check is answered.
LEMMA PatientAnswer ==
  ASSUME TypeOK, PatientInv, NEW c \in checks, AnswerCheck(c)
  PROVE  PatientInv'
<1> DEFINE lists == [p \in Playlist |->
                       IF p \in DocumentsAt(c.coll, c.loc)
                         THEN Overlay(marks[c.dev][auth[c.dev]][p], hasFound[p])
                         ELSE <<>>]
           k == [c EXCEPT !.answered = TRUE, !.lists = lists]
<1>1. /\ UNCHANGED <<auth, info, loads, hasFound, totalPlaylistsFound, tallies, marks, counts>>
      /\ checks' = (checks \ {c}) \cup {k}
  BY DEF AnswerCheck, sessionVars, docVars
<1> HIDE DEF lists
<1>2. k.dev = c.dev /\ k.coll = c.coll /\ k.loc = c.loc /\ k.lists = lists
  BY DEF TypeOK, CheckRecord
<1> HIDE DEF k
<1>3. CASE AllIdle
  <2>1. AllIdle'
    BY <1>1, <1>2, <1>3 DEF AllIdle, Idle
  <2> QED
    BY <1>1, <1>3, <2>1, SamePhase
<1>4. CASE ~AllIdle
  <2>1. PICK d \in Device, u \in User : Checking(d, u)
    BY <1>4, IdleBut DEF PatientInv
  <2>2. PICK p \in Playlist, a \in checks : Asks(d, p, a)
    BY <2>1 DEF Checking
  <2>3. \E b \in checks' : Asks(d, p, b)'
    <3>1. CASE a # c
      <4>1. a \in checks'
        BY <1>1, <3>1
      <4>2. Idle(k)
        BY <1>2, <2>2, <3>1 DEF Asks, Idle
      <4>3. Asks(d, p, a)'
        BY <1>1, <2>2, <4>2 DEF Asks, Idle
      <4> QED
        BY <4>1, <4>3
    <3>2. CASE a = c
      <4>1. /\ c.dev = d /\ DocumentsAt(c.coll, c.loc) = {p}
            /\ \A b \in checks \ {c} : Idle(b)
        BY <2>2, <3>2 DEF Asks
      <4>2. marks[d][auth[d]][p] = <<>>
        BY <2>1, UserOf DEF Checking, NoMarks
      <4>3. lists[p] = hasFound[p]
        BY <4>1, <4>2 DEF Overlay, lists
      <4>4. ASSUME NEW b, b = k PROVE Asks(d, p, b)'
        BY <1>1, <1>2, <4>1, <4>3, <4>4 DEF Asks, Idle
      <4> QED
        BY <1>1, <4>4
    <3> QED
      BY <3>1, <3>2
  <2>4. Checking(d, u)'
    BY <1>1, <2>1, <2>3, SameNumbers, SameReady, SameNoMarks, SameNoCounts DEF Checking
  <2>5. OwnPhone' /\ FiniteFinds'
    BY <1>1, SameNumbers DEF PatientInv, OwnPhone
  <2> QED
    BY <2>4, <2>5 DEF PatientInv, InPhase
<1> QED
  BY <1>3, <1>4

\* Queues that gain no write are as they were.
LEMMA NothingNew ==
  ASSUME TypeOK, NEW c \in checks, CheckArrives(c), \A p \in Playlist : ~IsNew(c, p)
  PROVE  marks' = marks
<1>1. c.dev \in Device /\ auth[c.dev] \in Account /\ marks \in Queues(Playlist, MarkRecord)
  BY DEF TypeOK, SessionTypeOK, CheckRecord, Queues
<1>2. marks' = [marks EXCEPT ![c.dev][auth[c.dev]] = [p \in Playlist |-> marks[c.dev][auth[c.dev]][p]]]
  BY DEF CheckArrives
<1>3. marks[c.dev][auth[c.dev]] = [p \in Playlist |-> marks[c.dev][auth[c.dev]][p]]
  BY <1>1 DEF Queues
<1> QED
  BY <1>1, <1>2, <1>3 DEF Queues

\* The callback of the check that finds p queues the list with the user added,
\* unless the user is in it.
LEMMA AskedArrives ==
  ASSUME TypeOK, TypeOK', PatientInv, NEW d \in Device, NEW u \in User, Checking(d, u),
         NEW p \in Playlist, NEW c \in checks, Asks(d, p, c), CheckArrives(c)
  PROVE  PatientInv'
<1>1. /\ c.dev = d /\ auth[d] = u /\ u # Nobody /\ u \in Account
      /\ DocumentsAt(c.coll, c.loc) = {p} /\ c.lists[p] = hasFound[p]
      /\ NoMarks /\ NoCounts /\ tallies = {} /\ loads = {}
  BY AUser DEF Asks, Checking, CheckArrives
<1>2. /\ UNCHANGED <<auth, info, loads, hasFound, totalPlaylistsFound, tallies, counts>>
      /\ checks' = checks \ {c}
  BY DEF CheckArrives, sessionVars, docVars
<1>3. AllIdle' /\ OwnPhone' /\ FiniteFinds'
  BY <1>2, SameNumbers DEF PatientInv, OwnPhone, Asks, AllIdle, Idle
<1>4. info[d] = [email |-> u, field |-> NumberOf(u)]
  BY <1>1 DEF Checking, Ready
<1>5. \A q \in Playlist : IsNew(c, q) <=> q = p /\ u \notin Range(hasFound[p])
  BY <1>1, <1>4 DEF IsNew
<1>6. CASE u \in Range(hasFound[p])
  <2>1. marks' = marks
    BY <1>5, <1>6, NothingNew
  <2>2. AtRest'
    BY <1>1, <1>2, <1>3, <2>1, SameNumbers, SameReady, SameNoMarks, SameNoCounts DEF Checking, AtRest
  <2> QED
    BY <1>3, <2>2 DEF PatientInv, InPhase
<1>7. CASE u \notin Range(hasFound[p])
  <2> DEFINE w == Mark(c, p)
  <2>1. marks \in Queues(Playlist, MarkRecord) /\ marks[d][u][p] = <<>> /\ Append(<<>>, w) = <<w>>
    BY <1>1 DEF NoMarks, TypeOK, Queues
  <2>2. marks' = [marks EXCEPT ![d][u] =
                    [q \in Playlist |-> IF q = p THEN Append(marks[d][u][q], w) ELSE marks[d][u][q]]]
    BY <1>1, <1>5, <1>7 DEF CheckArrives
  <2>3. w.email = u /\ w.val = Append(hasFound[p], u) /\ w.attached
    BY <1>1, <1>4 DEF Mark
  <2>4. Range(w.val) = Range(hasFound[p]) \cup {u}
    <3>1. hasFound[p] \in Seq(Email) /\ u \in Email
      BY <1>1 DEF TypeOK, Email
    <3> QED
      BY <2>3, <3>1, Enqueue
  <2> HIDE DEF w
  <2>5. \A e \in Device, a \in Account, q \in Playlist :
          marks'[e][a][q] = IF e = d /\ a = u /\ q = p THEN <<w>> ELSE <<>>
    BY <1>1, <2>1, <2>2 DEF NoMarks, Queues
  <2>6. w \in MarkRecord
    <3>1. marks'[d][u][p] \in Seq(MarkRecord) /\ marks'[d][u][p] = <<w>>
      BY <1>1, <2>5 DEF TypeOK
    <3> QED
      BY <3>1
  <2>7. FoundBy(u) \ {p} = FoundBy(u)
    BY <1>7 DEF FoundBy
  <2>8. RightBut(u, p)'
    BY <1>2, <2>7, SameNumbers DEF Checking, Right, RightBut
  <2>9. Finding(d, u, p)'
    <3>1. /\ FoundBy(u)' = FoundBy(u) /\ NumberOf(u) = Cardinality(FoundBy(u))
          /\ \A e \in Device \ {d} : Ready(e)
      BY <1>2, SameNumbers DEF Checking, Right
    <3>2. info'[d] = [email |-> u, field |-> Cardinality(FoundBy(u)' \ {p})]
      BY <1>2, <1>4, <2>7, <3>1, SameNumbers
    <3>3. \A e \in Device \ {d} : Ready(e)'
      BY <1>2, <3>1, SameReady
    <3>4. \A v \in User \ {u} : Right(v)'
      BY <1>2, SameNumbers DEF Checking
    <3> QED
      BY <1>1, <1>2, <1>3, <3>2, <3>3, <3>4 DEF Finding
  <2>10. NoCounts' /\ tallies' = {} /\ Range(w.val) = Range(hasFound'[p]) \cup {u}
    BY <1>1, <1>2, <2>4, SameNoCounts
  <2>11. Marking(d, u, p)'
    BY <2>3, <2>5, <2>6, <2>8, <2>9, <2>10 DEF Marking, MarkRecord, MarkQueued
  <2> QED
    BY <1>3, <2>11 DEF PatientInv, InPhase
<1> QED
  BY <1>6, <1>7


LEMMA PatientCheckArrives ==
  ASSUME TypeOK, TypeOK', PatientInv, NEW c \in checks, CheckArrives(c)
  PROVE  PatientInv'
<1>1. /\ UNCHANGED <<auth, info, loads, hasFound, totalPlaylistsFound, tallies, counts>>
      /\ checks' = checks \ {c}
  BY DEF CheckArrives, sessionVars, docVars
<1>2. ASSUME Idle(c) PROVE marks' = marks
  BY <1>2, NothingNew DEF Idle, IsNew
<1>3. CASE AllIdle
  <2>1. AllIdle' /\ Idle(c)
    BY <1>1, <1>3 DEF AllIdle, Idle
  <2> QED
    BY <1>1, <1>2, <1>3, <2>1, SamePhase
<1>4. CASE ~AllIdle
  <2>1. PICK d \in Device, u \in User : Checking(d, u)
    BY <1>4, IdleBut DEF PatientInv
  <2>2. PICK p \in Playlist, a \in checks : Asks(d, p, a)
    BY <2>1 DEF Checking
  <2>3. CASE a = c
    BY <2>1, <2>2, <2>3, AskedArrives
  <2>4. CASE a # c
    <3>1. Idle(c) /\ a \in checks'
      BY <1>1, <2>2, <2>4 DEF Asks
    <3>2. Asks(d, p, a)'
      BY <1>1, <2>2 DEF Asks, Idle
    <3>3. Checking(d, u)'
      BY <1>1, <1>2, <2>1, <3>1, <3>2, SameNumbers, SameReady, SameNoMarks, SameNoCounts
         DEF Checking
    <3>4. OwnPhone' /\ FiniteFinds'
      BY <1>1, SameNumbers DEF PatientInv, OwnPhone
    <3> QED
      BY <3>3, <3>4 DEF PatientInv, InPhase
  <2> QED
    BY <2>3, <2>4
<1> QED
  BY <1>3, <1>4

\* A write of a list that stays queued, or that leaves the queue, adds its user.
LEMMA MarkFinds ==
  ASSUME TypeOK, PatientInv, NEW d \in Device, NEW p \in Playlist, CommitMark(d, p)
  PROVE  \E u \in User, w \in MarkRecord :
           /\ Marking(d, u, p) /\ MarkQueued(d, u, p, w)
           /\ hasFound' = [hasFound EXCEPT ![p] = w.val]
           /\ UNCHANGED <<auth, info, loads, totalPlaylistsFound, checks, counts>>
           /\ \/ /\ marks' = [marks EXCEPT ![d][u][p] = <<>>]
                 /\ tallies' = tallies \cup
                      {[dev |-> d, tap |-> w.tap, playlist |-> p, email |-> u]}
              \/ UNCHANGED <<marks, tallies>>
           /\ \A v \in User \ {u} : FoundBy(v)' = FoundBy(v)
           /\ FoundBy(u)' = FoundBy(u) \cup {p}
<1>1. marks[d][auth[d]][p] # <<>>
  BY DEF CommitMark
<1>2. PICK e \in Device, u \in User, q \in Playlist : Marking(e, u, q)
  <2>1. ~NoMarks
    BY <1>1, UserOf DEF NoMarks
  <2> QED
    BY <2>1 DEF PatientInv, InPhase, AtRest, Loading, Checking, Tallying, Counting
<1>3. PICK w \in MarkRecord : MarkQueued(e, u, q, w)
  BY <1>2 DEF Marking, MarkQueued
<1>4. e = d /\ q = p /\ auth[d] = u /\ marks[d][u][p] = <<w>>
  BY <1>1, <1>2, <1>3, UserOf, AUser DEF Marking, Finding, MarkQueued
<1>5. Head(<<w>>) = w /\ Tail(<<w>>) = <<>>
  OBVIOUS
<1>6. /\ hasFound' = [hasFound EXCEPT ![p] = w.val]
      /\ UNCHANGED <<auth, info, loads, totalPlaylistsFound, checks, counts>>
      /\ \/ /\ marks' = [marks EXCEPT ![d][u][p] = <<>>]
            /\ tallies' = tallies \cup {[dev |-> d, tap |-> w.tap, playlist |-> p, email |-> u]}
         \/ UNCHANGED <<marks, tallies>>
  <2>1. marks' = [marks EXCEPT ![d][u][p] = Tail(@)] => marks' = [marks EXCEPT ![d][u][p] = <<>>]
    BY <1>4, <1>5, AUser DEF TypeOK
  <2> QED
    BY <1>3, <1>4, <1>5, <2>1 DEF CommitMark, LookUp, sessionVars, MarkQueued
<1>7. /\ \A v \in User \ {u} : FoundBy(v)' = FoundBy(v)
      /\ FoundBy(u)' = FoundBy(u) \cup {p}
  <2>1. \A x \in Playlist : hasFound'[x] = IF x = p THEN w.val ELSE hasFound[x]
    BY <1>6 DEF TypeOK
  <2>2. \A x \in Playlist : Range(hasFound'[x]) = IF x = p THEN Range(hasFound[p]) \cup {u}
                                                           ELSE Range(hasFound[x])
    BY <1>3, <1>4, <2>1 DEF MarkQueued
  <2> QED
    BY <2>2 DEF FoundBy
<1> QED
  BY <1>2, <1>3, <1>4, <1>6, <1>7

LEMMA PatientCommitMark ==
  ASSUME TypeOK, TypeOK', PatientInv, NEW d \in Device, NEW p \in Playlist, CommitMark(d, p)
  PROVE  PatientInv'
<1>1. PICK u \in User, w \in MarkRecord :
        /\ Marking(d, u, p) /\ MarkQueued(d, u, p, w)
        /\ hasFound' = [hasFound EXCEPT ![p] = w.val]
        /\ UNCHANGED <<auth, info, loads, totalPlaylistsFound, checks, counts>>
        /\ \/ /\ marks' = [marks EXCEPT ![d][u][p] = <<>>]
              /\ tallies' = tallies \cup
                   {[dev |-> d, tap |-> w.tap, playlist |-> p, email |-> u]}
           \/ UNCHANGED <<marks, tallies>>
        /\ \A v \in User \ {u} : FoundBy(v)' = FoundBy(v)
        /\ FoundBy(u)' = FoundBy(u) \cup {p}
  BY MarkFinds, Zenon
<1>2. Marking(d, u, p)
  BY <1>1
<1>3. /\ w.attached /\ w.email = u /\ Range(w.val) = Range(hasFound[p]) \cup {u}
      /\ \A x \in Device, a \in Account, y \in Playlist :
           marks[x][a][y] = IF x = d /\ a = u /\ y = p THEN <<w>> ELSE <<>>
  BY <1>1 DEF MarkQueued
<1>4. auth[d] = u /\ marks[d][u][p] = <<w>> /\ u \in Account /\ u # Nobody
  BY <1>2, <1>3, AUser DEF Marking, Finding
<1>6. /\ hasFound' = [hasFound EXCEPT ![p] = w.val]
      /\ UNCHANGED <<auth, info, loads, totalPlaylistsFound, checks, counts>>
  BY <1>1
<1>7. /\ \A v \in User \ {u} : FoundBy(v)' = FoundBy(v)
      /\ FoundBy(u)' = FoundBy(u) \cup {p}
  BY <1>1
<1>8. /\ FoundBy(u)' \ {p} = FoundBy(u) \ {p} /\ p \in FoundBy(u)'
      /\ \A v \in User : NumberOf(v)' = NumberOf(v)
  BY <1>6, <1>7 DEF NumberOf, Stored
<1>9. FiniteFinds' /\ OwnPhone'
  BY <1>6, <1>7, FS_AddElement DEF PatientInv, FiniteFinds, OwnPhone
<1>10. Finding(d, u, p)'
  <2>1. \A v \in User \ {u} : Right(v)'
    BY <1>2, <1>7, <1>8 DEF Marking, Finding, Right
  <2>2. \A x \in Device \ {d} : Ready(x)'
    BY <1>2, <1>6, SameReady DEF Marking, Finding
  <2>3. AllIdle'
    BY <1>2, <1>6 DEF Marking, Finding, AllIdle, Idle
  <2>4. info'[d] = [email |-> u, field |-> Cardinality(FoundBy(u)' \ {p})]
    BY <1>2, <1>6, <1>8 DEF Marking, Finding
  <2> QED
    BY <1>2, <1>6, <2>1, <2>2, <2>3, <2>4 DEF Marking, Finding
<1>11. RightBut(u, p)' /\ NoCounts'
  BY <1>2, <1>6, <1>8, SameNoCounts DEF Marking, RightBut
<1>12. CASE UNCHANGED <<marks, tallies>>
  <2>1. Range(w.val) = Range(hasFound'[p]) \cup {u}
    <3>1. hasFound'[p] = w.val
      BY <1>6 DEF TypeOK
    <3> QED
      BY <1>3, <3>1
  <2>2. /\ w.attached /\ w.email = u /\ Range(w.val) = Range(hasFound'[p]) \cup {u}
        /\ \A x \in Device, a \in Account, y \in Playlist :
             marks'[x][a][y] = IF x = d /\ a = u /\ y = p THEN <<w>> ELSE <<>>
    BY <1>3, <1>12, <2>1
  <2>3. tallies' = {}
    BY <1>2, <1>12 DEF Marking
  <2>4. Marking(d, u, p)'
    BY <1>10, <1>11, <2>2, <2>3 DEF Marking, MarkRecord, MarkQueued
  <2> QED
    BY <1>9, <2>4 DEF PatientInv, InPhase
<1>13. CASE /\ marks' = [marks EXCEPT ![d][u][p] = <<>>]
            /\ tallies' = tallies \cup {[dev |-> d, tap |-> w.tap, playlist |-> p, email |-> u]}
  <2>1. NoMarks'
    <3>1. marks \in Queues(Playlist, MarkRecord)
      BY DEF TypeOK, Queues
    <3>2. \A x \in Device, a \in Account, y \in Playlist :
            marks'[x][a][y] = IF x = d /\ a = u /\ y = p THEN <<>> ELSE marks[x][a][y]
      BY <1>4, <1>13, <3>1 DEF Queues
    <3> QED
      BY <1>3, <3>2 DEF NoMarks
  <2> DEFINE t == [dev |-> d, tap |-> w.tap, playlist |-> p, email |-> u]
  <2>2. tallies' = {t} /\ t.dev = d /\ t.email = u
    BY <1>2, <1>13 DEF Marking
  <2> HIDE DEF t
  <2>3. \E x \in tallies' : tallies' = {x} /\ x.dev = d /\ x.email = u
    BY <2>2
  <2>4. Tallying(d, u, p)'
    BY <1>8, <1>10, <1>11, <2>1, <2>3 DEF Tallying
  <2> QED
    BY <1>9, <2>4 DEF PatientInv, InPhase
<1> QED
  BY <1>1, <1>12, <1>13

\* The finder's document is there, and the number is the singleton's plus one.
LEMMA PatientTally ==
  ASSUME TypeOK, TypeOK', PatientInv, NEW t \in tallies, TallyArrives(t)
  PROVE  PatientInv'
<1>1. PICK d \in Device, u \in User, p \in Playlist : Tallying(d, u, p)
  BY DEF PatientInv, InPhase, AtRest, Loading, Checking, Marking, Counting
<1>2. /\ tallies = {t} /\ t.dev = d /\ t.email = u /\ auth[d] = u /\ u \in Account /\ u # Nobody
      /\ info[d].field = Cardinality(FoundBy(u) \ {p}) /\ p \in FoundBy(u)
  BY <1>1, AUser DEF Tallying, Finding
<1> DEFINE w == [tap |-> t.tap, playlist |-> t.playlist, val |-> NextCount(t), attached |-> TRUE]
<1>3. /\ UNCHANGED <<auth, info, loads, hasFound, totalPlaylistsFound, checks, marks>>
      /\ tallies' = {}
      /\ counts' = [counts EXCEPT ![d][u][u] = Append(@, w)]
  BY <1>2 DEF TallyArrives, sessionVars, docVars
<1>4. w.attached /\ w.val = NextCount(t)
  OBVIOUS
<1>5. NextCount(t) = Cardinality(FoundBy(u))
  <2>1. IsFiniteSet(FoundBy(u))
    BY DEF PatientInv, FiniteFinds
  <2>2. Cardinality(FoundBy(u) \ {p}) = Cardinality(FoundBy(u)) - 1 /\ Cardinality(FoundBy(u)) \in Nat
    BY <1>2, <2>1, FS_RemoveElement, FS_CardinalityType
  <2> QED
    BY <1>2, <2>2 DEF NextCount
<1> HIDE DEF w
<1>6. \A e \in Device, a \in Account, v \in User :
        counts'[e][a][v] = IF e = d /\ a = u /\ v = u THEN <<w>> ELSE <<>>
  <2>1. counts \in Queues(User, CountRecord) /\ counts[d][u][u] = <<>> /\ Append(<<>>, w) = <<w>>
    BY <1>1, <1>2 DEF Tallying, NoCounts, TypeOK, Queues
  <2>2. \A e \in Device, a \in Account, v \in User :
          counts'[e][a][v] = IF e = d /\ a = u /\ v = u THEN <<w>> ELSE counts[e][a][v]
    BY <1>2, <1>3, <2>1 DEF Queues
  <2> QED
    BY <1>1, <2>2 DEF Tallying, NoCounts
<1>7. w \in CountRecord
  <2>1. counts'[d][u][u] \in Seq(CountRecord) /\ counts'[d][u][u] = <<w>>
    BY <1>2, <1>6 DEF TypeOK
  <2> QED
    BY <2>1
<1>8. AllIdle' /\ OwnPhone' /\ FiniteFinds'
  BY <1>1, <1>3, SameNumbers DEF PatientInv, OwnPhone, Tallying, Finding, AllIdle, Idle
<1>9. /\ Finding(d, u, p)' /\ RightBut(u, p)' /\ NoMarks' /\ p \in FoundBy(u)'
      /\ FoundBy(u)' = FoundBy(u)
  BY <1>1, <1>2, <1>3, <1>8, SameFinding, SameNumbers, SameNoMarks DEF Tallying
<1>10. Counting(d, u, p)'
  BY <1>3, <1>4, <1>5, <1>6, <1>7, <1>9 DEF Counting, CountRecord, CountQueued
<1> QED
  BY <1>8, <1>10 DEF PatientInv, InPhase

\* A write of a number that stays queued, or that leaves the queue, makes it right.
LEMMA CountCounts ==
  ASSUME TypeOK, PatientInv, NEW d \in Device, NEW u \in User, CommitCount(d, u)
  PROVE  \E p \in Playlist, w \in CountRecord :
           /\ Counting(d, u, p) /\ CountQueued(d, u, w)
           /\ UNCHANGED <<auth, loads, hasFound, checks, tallies, marks>>
           /\ \/ /\ counts' = [counts EXCEPT ![d][u][u] = <<>>]
                 /\ info' = [info EXCEPT ![d].field = @ + 1]
              \/ UNCHANGED <<counts, info>>
           /\ IsFiniteSet(FoundBy(u)) /\ Cardinality(FoundBy(u)) \in Nat
           /\ Cardinality(FoundBy(u)) = Cardinality(FoundBy(u) \ {p}) + 1
           /\ NumberOf(u)' = Cardinality(FoundBy(u))
           /\ \A x \in User \ {u} : NumberOf(x)' = NumberOf(x)
<1>1. counts[d][auth[d]][u] # <<>>
  BY DEF CommitCount
<1>2. PICK e \in Device, v \in User, p \in Playlist : Counting(e, v, p)
  <2>1. ~NoCounts
    BY <1>1, UserOf DEF NoCounts
  <2> QED
    BY <2>1 DEF PatientInv, InPhase, AtRest, Loading, Checking, Tallying, Marking
<1>3. PICK w \in CountRecord : CountQueued(e, v, w)
  BY <1>2 DEF Counting, CountQueued
<1>4. e = d /\ v = u /\ auth[d] = u /\ counts[d][u][u] = <<w>> /\ p \in FoundBy(u)
  BY <1>1, <1>2, <1>3, UserOf, AUser DEF Counting, Finding, CountQueued
<1>5. Head(<<w>>) = w /\ Tail(<<w>>) = <<>>
  OBVIOUS
<1>6. /\ totalPlaylistsFound' = [totalPlaylistsFound EXCEPT ![u] = w.val]
      /\ UNCHANGED <<auth, loads, hasFound, checks, tallies, marks>>
      /\ \/ /\ counts' = [counts EXCEPT ![d][u][u] = <<>>]
            /\ info' = [info EXCEPT ![d].field = @ + 1]
         \/ UNCHANGED <<counts, info>>
  <2>1. counts' = [counts EXCEPT ![d][u][u] = Tail(@)] => counts' = [counts EXCEPT ![d][u][u] = <<>>]
    BY <1>4, <1>5, AUser DEF TypeOK
  <2>2. Bump(d, w) => info' = [info EXCEPT ![d].field = @ + 1]
    BY <1>3 DEF Bump, CountQueued
  <2> QED
    BY <1>4, <1>5, <2>1, <2>2 DEF CommitCount
<1>7. /\ IsFiniteSet(FoundBy(u)) /\ Cardinality(FoundBy(u)) \in Nat
      /\ Cardinality(FoundBy(u)) = Cardinality(FoundBy(u) \ {p}) + 1
  <2>1. IsFiniteSet(FoundBy(u))
    BY DEF PatientInv, FiniteFinds
  <2>2. Cardinality(FoundBy(u) \ {p}) = Cardinality(FoundBy(u)) - 1 /\ Cardinality(FoundBy(u)) \in Nat
    BY <1>4, <2>1, FS_RemoveElement, FS_CardinalityType
  <2> QED
    BY <2>1, <2>2
<1>8. NumberOf(u)' = Cardinality(FoundBy(u))
  <2>1. totalPlaylistsFound'[u] = Cardinality(FoundBy(u))
    BY <1>3, <1>4, <1>6 DEF TypeOK, CountQueued
  <2>2. totalPlaylistsFound'[u] # NotSet
    BY <1>7, <2>1, FoundAssumption
  <2> QED
    BY <2>1, <2>2, Zenon DEF NumberOf, Stored
<1>9. ASSUME NEW x \in User \ {u} PROVE NumberOf(x)' = NumberOf(x)
  <2>1. totalPlaylistsFound'[x] = totalPlaylistsFound[x]
    BY <1>6 DEF TypeOK
  <2> QED
    BY <2>1, Zenon DEF NumberOf, Stored
<1> QED
  BY <1>2, <1>3, <1>4, <1>6, <1>7, <1>8, <1>9

LEMMA PatientCommitCount ==
  ASSUME TypeOK, TypeOK', PatientInv, NEW d \in Device, NEW u \in User, CommitCount(d, u)
  PROVE  PatientInv'
<1>1. PICK p \in Playlist, w \in CountRecord :
        /\ Counting(d, u, p) /\ CountQueued(d, u, w)
        /\ UNCHANGED <<auth, loads, hasFound, checks, tallies, marks>>
        /\ \/ /\ counts' = [counts EXCEPT ![d][u][u] = <<>>]
              /\ info' = [info EXCEPT ![d].field = @ + 1]
           \/ UNCHANGED <<counts, info>>
        /\ IsFiniteSet(FoundBy(u)) /\ Cardinality(FoundBy(u)) \in Nat
        /\ Cardinality(FoundBy(u)) = Cardinality(FoundBy(u) \ {p}) + 1
        /\ NumberOf(u)' = Cardinality(FoundBy(u))
        /\ \A x \in User \ {u} : NumberOf(x)' = NumberOf(x)
  BY CountCounts, Zenon
<1>2. Counting(d, u, p)
  BY <1>1
<1>3. /\ w.attached /\ w.val = Cardinality(FoundBy(u))
      /\ \A x \in Device, a \in Account, y \in User :
           counts[x][a][y] = IF x = d /\ a = u /\ y = u THEN <<w>> ELSE <<>>
  BY <1>1 DEF CountQueued
<1>4. /\ auth[d] = u /\ counts[d][u][u] = <<w>> /\ u \in Account /\ u # Nobody
      /\ p \in FoundBy(u) /\ info[d] = [email |-> u, field |-> Cardinality(FoundBy(u) \ {p})]
  BY <1>2, <1>3, AUser DEF Counting, Finding
<1>6. UNCHANGED <<auth, loads, hasFound, checks, tallies, marks>>
  BY <1>1
<1>7. \A x \in User : FoundBy(x)' = FoundBy(x)
  BY <1>6 DEF FoundBy
<1>8. /\ IsFiniteSet(FoundBy(u)) /\ Cardinality(FoundBy(u)) \in Nat
      /\ Cardinality(FoundBy(u)) = Cardinality(FoundBy(u) \ {p}) + 1
  BY <1>1
<1>9. NumberOf(u)' = Cardinality(FoundBy(u))
  BY <1>1
<1>10. \A x \in User \ {u} : NumberOf(x)' = NumberOf(x)
  BY <1>1
<1>11. /\ AllIdle' /\ OwnPhone' /\ FiniteFinds' /\ loads' = {} /\ tallies' = {} /\ NoMarks'
       /\ Right(u)' /\ \A x \in User \ {u} : Right(x)'
  BY <1>2, <1>6, <1>7, <1>9, <1>10, SameNoMarks
     DEF PatientInv, OwnPhone, FiniteFinds, Counting, Finding, AllIdle, Idle, Right
<1>12. ASSUME NEW x \in Device \ {d}, info'[x] = info[x] PROVE Ready(x)'
  <2>1. Ready(x) /\ auth'[x] = auth[x]
    BY <1>2, <1>6 DEF Counting, Finding
  <2>2. auth[x] # u
    BY <1>4 DEF PatientInv, OwnPhone
  <2>3. CASE auth[x] = Nobody
    BY <2>1, <2>3 DEF Ready
  <2>4. CASE auth[x] # Nobody
    <3>1. auth[x] \in User \ {u}
      BY <2>2, <2>4, UserOf
    <3>2. ASSUME NEW y, y = auth[x] PROVE NumberOf(y)' = NumberOf(y)
      BY <1>10, <3>1, <3>2
    <3>3. ASSUME NEW y, y = auth[x] PROVE info'[x] = [email |-> y, field |-> NumberOf(y)']
      BY <1>12, <2>1, <2>4, <3>2, <3>3 DEF Ready
    <3> QED
      BY <2>1, <3>3 DEF Ready
  <2> QED
    BY <2>3, <2>4
<1>13. CASE UNCHANGED <<counts, info>>
  <2>1. \A x \in Device \ {d} : Ready(x)'
    BY <1>12, <1>13
  <2>2. info'[d] = [email |-> u, field |-> Cardinality(FoundBy(u)' \ {p})]
    BY <1>4, <1>7, <1>13
  <2>3. Finding(d, u, p)'
    BY <1>4, <1>6, <1>11, <2>1, <2>2 DEF Finding
  <2>4. /\ w.attached /\ w.val = Cardinality(FoundBy(u)')
        /\ \A x \in Device, a \in Account, y \in User :
             counts'[x][a][y] = IF x = d /\ a = u /\ y = u THEN <<w>> ELSE <<>>
    BY <1>3, <1>7, <1>13
  <2>5. Counting(d, u, p)'
    BY <1>4, <1>7, <1>11, <2>3, <2>4 DEF Counting, CountRecord, CountQueued
  <2> QED
    BY <1>11, <2>5 DEF PatientInv, InPhase
<1>14. CASE /\ counts' = [counts EXCEPT ![d][u][u] = <<>>]
            /\ info' = [info EXCEPT ![d].field = @ + 1]
  <2>1. NoCounts'
    <3>1. counts \in Queues(User, CountRecord)
      BY DEF TypeOK, Queues
    <3>2. \A x \in Device, a \in Account, y \in User :
            counts'[x][a][y] = IF x = d /\ a = u /\ y = u THEN <<>> ELSE counts[x][a][y]
      BY <1>4, <1>14, <3>1 DEF Queues
    <3> QED
      BY <1>3, <3>2 DEF NoCounts
  <2>2. /\ \A x \in Device \ {d} : info'[x] = info[x]
        /\ info'[d] = [email |-> u, field |-> Cardinality(FoundBy(u))]
    <3>1. info \in [Device -> [email : Email, field : Int]]
      BY UserOf
    <3> QED
      BY <1>4, <1>8, <1>14, <3>1
  <2>3. Ready(d)'
    BY <1>4, <1>6, <1>9, <2>2 DEF Ready, NumberOf
  <2>4. \A x \in Device : Ready(x)'
    BY <1>12, <2>2, <2>3
  <2>5. AtRest'
    BY <1>11, <2>1, <2>4 DEF AtRest
  <2> QED
    BY <1>11, <2>5 DEF PatientInv, InPhase
<1> QED
  BY <1>1, <1>13, <1>14

LEMMA PatientStutter ==
  ASSUME PatientInv, UNCHANGED vars
  PROVE  PatientInv'
<1>1. UNCHANGED <<auth, info, loads, hasFound, totalPlaylistsFound, checks, tallies, marks, counts>>
  BY DEF vars, sessionVars, docVars
<1>2. CASE AllIdle
  <2>1. AllIdle'
    BY <1>1, <1>2 DEF AllIdle, Idle
  <2> QED
    BY <1>1, <1>2, <2>1, SamePhase
<1>3. CASE ~AllIdle
  <2>1. PICK d \in Device, u \in User : Checking(d, u)
    BY <1>3, IdleBut DEF PatientInv
  <2>2. Checking(d, u)'
    BY <1>1, <2>1, SameNumbers, SameReady, SameNoMarks, SameNoCounts DEF Checking, Asks, Idle
  <2>3. OwnPhone' /\ FiniteFinds'
    BY <1>1, SameNumbers DEF PatientInv, OwnPhone
  <2> QED
    BY <2>2, <2>3 DEF PatientInv, InPhase
<1> QED
  BY <1>2, <1>3

LEMMA PatientNext ==
  ASSUME OnePerSpot, TypeOK, TypeOK', PatientInv, PatientStep
  PROVE  PatientInv'
<1>1. ASSUME AllQuiet, NEW d \in Device,
             \/ ComeAndGo(d) /\ \A u \in User : auth'[d] = u => PhoneOf[u] = d
             \/ \E loc \in Location : Tap(d, loc)
      PROVE  PatientInv'
  BY <1>1, PatientComes, PatientTap
<1>2. ASSUME NEW l \in loads, Load(l), ~LoadFails(l) PROVE PatientInv'
  BY <1>2, PatientLoad
<1>3. ASSUME NEW c \in checks, AnswerCheck(c) \/ CheckArrives(c) PROVE PatientInv'
  BY <1>3, PatientAnswer, PatientCheckArrives
<1>4. ASSUME NEW d \in Device, NEW p \in Playlist, CommitMark(d, p) PROVE PatientInv'
  BY <1>4, PatientCommitMark
<1>5. ASSUME NEW t \in tallies, TallyArrives(t) PROVE PatientInv'
  BY <1>5, PatientTally
<1>6. ASSUME NEW d \in Device, NEW u \in User, CommitCount(d, u) PROVE PatientInv'
  BY <1>6, PatientCommitCount
<1> QED
  BY <1>1, <1>2, <1>3, <1>4, <1>5, <1>6 DEF PatientStep

LEMMA PatientAlways ==
  ASSUME OnePerSpot
  PROVE  Histories => [](patient => PatientInv)
<1>1. EitherInit => (patient => PatientInv)
  BY PatientInit DEF EitherInit
<1>2. TypeOK /\ TypeOK' /\ (patient => PatientInv) /\ [Step]_<<vars, patient>>
        => (patient => PatientInv)'
  BY PatientNext, PatientStutter DEF Step
<1> QED
  BY <1>1, <1>2, HistoryTypes, PTL DEF Histories

\* Where no two playlists share their coordinates, and users wait, the stored
\* number is the number of finds whenever all is quiet (EachFindAddsOne).
THEOREM FindsAreCounted ==
  ASSUME OnePerSpot
  PROVE  Histories => []EachFindAddsOne
<1>1. TypeOK /\ (patient => PatientInv) => EachFindAddsOne
  BY QuietAtRest DEF EachFindAddsOne, PatientInv, AtRest, Right, NumberOf
<1> QED
  BY <1>1, PatientAlways, HistoryTypes, PTL

\* Under the same conditions the profile screen shows the signed-in user and that
\* number whenever all is quiet (ProfileIsCurrent).
THEOREM ProfilesAreCurrent ==
  ASSUME OnePerSpot
  PROVE  Histories => []ProfileIsCurrent
<1>1. TypeOK /\ (patient => PatientInv) => ProfileIsCurrent
  BY QuietAtRest DEF ProfileIsCurrent, PatientInv, AtRest, Ready, NumberOf
<1> QED
  BY <1>1, PatientAlways, HistoryTypes, PTL

-----------------------------------------------------------------------------
(* Patient histories: the register of finds *)

FindsOf   == [u \in User |-> FoundBy(u)]
NumbersOf == [u \in User |-> NumberOf(u)]

\* The register of a patient history.
LEMMA RegisterInitIs ==
  EitherInit => Register!RegisterInit
<1> SUFFICES ASSUME EitherInit PROVE Register!RegisterInit
  OBVIOUS
<1>1. DOMAIN <<>> = {} /\ Range(<<>>) = {}
  BY DEF Range
<1>2. \A u \in User : FoundBy(u) = {} /\ Stored(totalPlaylistsFound[u]) = 0
  BY <1>1 DEF EitherInit, Init, FoundBy, Stored
<1> QED
  BY <1>2 DEF Register!RegisterInit, NobodyFound, NobodyCounted

LEMMA SameCardinality == \A S : Register!Cardinality(S) = Cardinality(S)
BY DEF Cardinality, Register!Cardinality

LEMMA RegisterStays ==
  ASSUME patient' = patient,
         patient => \A u \in User : FoundBy(u)' = FoundBy(u) /\ NumberOf(u)' = NumberOf(u)
  PROVE  UNCHANGED Register!vars
BY DEF Register!vars, NumberOf, NobodyFound, NobodyCounted

LEMMA RegisterFinds ==
  ASSUME patient, patient', NEW u \in User, NEW p \in Playlist,
         p \notin FoundBy(u), Right(u),
         FoundBy(u)' = FoundBy(u) \cup {p}, \A v \in User \ {u} : FoundBy(v)' = FoundBy(v),
         \A v \in User : NumberOf(v)' = NumberOf(v)
  PROVE  Register!RegisterNext
<1>1. Register!Find(u, p)
  BY SameCardinality DEF Register!Find, Right, NumberOf
<1> QED
  BY <1>1 DEF Register!RegisterNext

LEMMA RegisterCounts ==
  ASSUME patient, patient', NEW u \in User,
         Cardinality(FoundBy(u)) \in Nat,
         Cardinality(FoundBy(u)) = NumberOf(u) + 1, NumberOf(u) \in Int,
         NumberOf(u)' = Cardinality(FoundBy(u)),
         \A v \in User : FoundBy(v)' = FoundBy(v),
         \A v \in User \ {u} : NumberOf(v)' = NumberOf(v)
  PROVE  Register!RegisterNext
<1> DEFINE f == [v \in User |-> FoundBy(v)]
           n == [v \in User |-> NumberOf(v)]
<1>1. n[u] < Cardinality(f[u])
  OBVIOUS
<1>2. n' = [n EXCEPT ![u] = n[u] + 1] /\ f' = f
  <2>1. \A v \in User : n'[v] = IF v = u THEN n[u] + 1 ELSE n[v]
    OBVIOUS
  <2> QED
    BY <2>1
<1>3. /\ n = IF patient THEN [v \in User |-> Stored(totalPlaylistsFound[v])] ELSE NobodyCounted
      /\ f = IF patient THEN [v \in User |-> FoundBy(v)] ELSE NobodyFound
      /\ n' = (IF patient THEN [v \in User |-> Stored(totalPlaylistsFound[v])] ELSE NobodyCounted)'
      /\ f' = (IF patient THEN [v \in User |-> FoundBy(v)] ELSE NobodyFound)'
  BY DEF NumberOf
<1> HIDE DEF n, f
<1>4. Register!Count(u)
  BY <1>1, <1>2, <1>3, SameCardinality, Zenon DEF Register!Count
<1> QED
  BY <1>4 DEF Register!RegisterNext

\* A patient step is a step of the register, or none.
LEMMA PatientRegister ==
  ASSUME TypeOK, PatientInv, patient, patient', PatientStep
  PROVE  Register!RegisterNext \/ UNCHANGED Register!vars
<1>1. ASSUME UNCHANGED <<hasFound, totalPlaylistsFound>> PROVE UNCHANGED Register!vars
  BY <1>1, RegisterStays, SameNumbers
<1>2. ASSUME NEW d \in Device, NEW p \in Playlist, CommitMark(d, p)
      PROVE  Register!RegisterNext \/ UNCHANGED Register!vars
  <2>1. PICK u \in User : /\ Marking(d, u, p) /\ UNCHANGED totalPlaylistsFound
                          /\ \A v \in User \ {u} : FoundBy(v)' = FoundBy(v)
                          /\ FoundBy(u)' = FoundBy(u) \cup {p}
    BY <1>2, MarkFinds
  <2>2. \A v \in User : NumberOf(v)' = NumberOf(v)
    BY <2>1 DEF NumberOf, Stored
  <2>3. CASE p \in FoundBy(u)
    BY <2>1, <2>2, <2>3, RegisterStays
  <2>4. CASE p \notin FoundBy(u)
    <3>1. FoundBy(u) \ {p} = FoundBy(u)
      BY <2>4
    <3>2. Right(u)
      BY <2>1, <3>1 DEF Marking, RightBut, Right
    <3> QED
      BY <2>1, <2>2, <2>4, <3>2, RegisterFinds
  <2> QED
    BY <2>3, <2>4
<1>3. ASSUME NEW d \in Device, NEW u \in User, CommitCount(d, u)
      PROVE  Register!RegisterNext \/ UNCHANGED Register!vars
  <2>1. PICK p \in Playlist : /\ Counting(d, u, p) /\ UNCHANGED hasFound
                              /\ Cardinality(FoundBy(u)) \in Nat
                              /\ Cardinality(FoundBy(u)) = Cardinality(FoundBy(u) \ {p}) + 1
                              /\ NumberOf(u)' = Cardinality(FoundBy(u))
                              /\ \A x \in User \ {u} : NumberOf(x)' = NumberOf(x)
    BY <1>3, CountCounts
  <2>2. \A v \in User : FoundBy(v)' = FoundBy(v)
    BY <2>1 DEF FoundBy
  <2>3. CASE Right(u)
    <3>1. NumberOf(u)' = NumberOf(u)
      BY <2>1, <2>3 DEF Right
    <3> QED
      BY <2>1, <2>2, <3>1, RegisterStays
  <2>4. CASE RightBut(u, p)
    <3>1. NumberOf(u) \in Int
      <4>1. totalPlaylistsFound[u] \in Int \cup {NotSet}
        BY DEF TypeOK
      <4> QED
        BY <4>1 DEF NumberOf, Stored
    <3>2. Cardinality(FoundBy(u)) = NumberOf(u) + 1
      BY <2>1, <2>4 DEF RightBut
    <3> QED
      BY <2>1, <2>2, <3>1, <3>2, RegisterCounts
  <2> QED
    BY <2>1, <2>3, <2>4 DEF Counting
<1> QED
  BY <1>1, <1>2, <1>3
     DEF PatientStep, ComeAndGo, Tap, Load, AnswerCheck, CheckArrives, TallyArrives, docVars

\* Where no two playlists share their coordinates, patient users see a register of
\* finds (ImplementsRegister).
THEOREM ImplementsFindRegister ==
  ASSUME OnePerSpot
  PROVE  Histories => ImplementsRegister
<1>1. TypeOK /\ (patient => PatientInv) /\ [Step]_<<vars, patient>>
        => [Register!RegisterNext]_Register!vars
  <2> SUFFICES ASSUME TypeOK, patient => PatientInv, [Step]_<<vars, patient>>
               PROVE  Register!RegisterNext \/ UNCHANGED Register!vars
    OBVIOUS
  <2>1. CASE patient /\ PatientStep /\ UNCHANGED patient
    BY <2>1, PatientRegister
  <2>2. CASE ~patient /\ UNCHANGED patient
    BY <2>2, RegisterStays
  <2>3. CASE UNCHANGED <<vars, patient>>
    <3>1. UNCHANGED <<hasFound, totalPlaylistsFound, patient>>
      BY <2>3 DEF vars, docVars
    <3> QED
      BY <3>1, RegisterStays, SameNumbers
  <2> QED
    BY <2>1, <2>2, <2>3 DEF Step
<1> QED
  BY <1>1, RegisterInitIs, PatientAlways, HistoryTypes, PTL
     DEF Histories, ImplementsRegister, Register!RegisterSpec
=============================================================================
