--------------------------- MODULE PlaylistsFound ---------------------------
(***************************************************************************)
(* Finding playlists: what happens from a tap on the disclosure button of  *)
(* a pin to the "playlists found" number of the profile screen.            *)
(*                                                                         *)
(* A tap asks both playlist collections for the documents at the pin's     *)
(* coordinates (mapVC.checkMasterPlaylists, checkUserPlaylists).  For each *)
(* one the callback appends the user's email to hasFound and writes the    *)
(* whole list back; when that write completes it looks up the user's       *)
(* userInfo document and writes totalPlaylistsFound, computed from the     *)
(* in-memory UserSingleton; when that completes it bumps the singleton.    *)
(* Meanwhile every appearance of the map clears the singleton and reloads  *)
(* it (getUserInfo), users log in and out, and the app may be killed.      *)
(*                                                                         *)
(* Every callback runs to completion on the device's main queue, so each   *)
(* callback is one action; the callbacks of different requests interleave  *)
(* freely.  Firestore is modelled by what its client does:                 *)
(*  - a query is answered some time after it is sent, with the server's    *)
(*    documents overlaid with the device's own pending writes, and its     *)
(*    callback runs on that answer some time later still;                  *)
(*  - a write is queued, in order, per signed-in account, survives a       *)
(*    restart (its callback does not), and may be sent again when the      *)
(*    acknowledgement was lost; its callback is dispatched to the main     *)
(*    queue with the acknowledgement, before anything that comes later,    *)
(*    so it is part of the step that delivers the acknowledgement.         *)
(* The order of writes to different documents is left open, which only     *)
(* adds behaviours.                                                        *)
(***************************************************************************)
EXTENDS Session, WriteQueue, FiniteSets, SequencesExt

CONSTANTS
  Playlist,    \* documents of masterPlaylists and userPlaylists
  Master,      \* those of masterPlaylists
  Location,    \* coordinates of pins
  LocationOf,  \* the coordinates of each playlist
  MaxTaps      \* bound on taps

\* The singleton's field is totalPlaylistsFound.
ASSUME FoundAssumption ==
  /\ Initial = 0
  /\ NotSet \notin Int
  /\ Master \subseteq Playlist
  /\ LocationOf \in [Playlist -> Location]
  /\ MaxTaps \in Nat

VARIABLES
  hasFound,  \* field of each playlist document, on the server
  totalPlaylistsFound,  \* field of each user's userInfo document, on the server
  checks,    \* checkMaster/UserPlaylists queries whose callback has not run
  tallies,   \* userInfo queries of the "add 1" step whose callback has not run
  marks,     \* queued writes of hasFound, per phone, account and playlist
  counts,    \* queued writes of totalPlaylistsFound, per phone, account and user
  taps,      \* taps so far (numbers the taps)
  finds,     \* history: (tap, playlist) pairs whose hasFound write completed
  recorded   \* history: every email hasFound ever held, per playlist

docVars == <<hasFound, totalPlaylistsFound, recorded>>
vars == <<sessionVars, docVars, checks, tallies, marks, counts, taps, finds>>

Collection == {"masterPlaylists", "userPlaylists"}

\* The documents a query on both coordinates returns.
DocumentsAt(coll, loc) ==
  {p \in Playlist : LocationOf[p] = loc /\ (p \in Master <=> coll = "masterPlaylists")}

\* The lists of a query's documents, once it is answered; <<>> elsewhere.
NoLists == [p \in Playlist |-> <<>>]

-----------------------------------------------------------------------------
(* Sessions *)

Init ==
  /\ SessionInit
  /\ hasFound = [p \in Playlist |-> <<>>]
  /\ totalPlaylistsFound = [u \in User |-> NotSet]
  /\ checks = {} /\ tallies = {}
  /\ marks = [d \in Device |-> [a \in Account |-> [p \in Playlist |-> <<>>]]]
  /\ counts = [d \in Device |-> [a \in Account |-> [u \in User |-> <<>>]]]
  /\ taps = 0
  /\ finds = {}
  /\ recorded = [p \in Playlist |-> {}]

\* Signing in and out and returning to the map leave all requests as they are.
ComeAndGo(d) ==
  /\ (\E u \in User : SignIn(d, u)) \/ MapAppears(d) \/ SignOut(d)
  /\ UNCHANGED <<docVars, checks, tallies, marks, counts, taps, finds>>

\* A restart ends the queries of this run of the app; the queued writes stay.
Restart(d) ==
  /\ Relaunch(d)
  /\ checks'  = {c \in checks : c.dev # d}
  /\ tallies' = {t \in tallies : t.dev # d}
  /\ marks'  = [marks EXCEPT ![d] =
                  [a \in Account |-> [p \in Playlist |-> Detached(marks[d][a][p])]]]
  /\ counts' = [counts EXCEPT ![d] =
                  [a \in Account |-> [u \in User |-> Detached(counts[d][a][u])]]]
  /\ UNCHANGED <<docVars, taps, finds>>

\* The count of user u as phone d's client answers it.
SeenCount(d, u) == Overlay(counts[d][auth[d]][u], totalPlaylistsFound[u])

Load(l) ==
  /\ AnswerLoad(l, SeenCount(l.dev, l.email)) \/ LoadArrives(l) \/ LoadFails(l)
  /\ UNCHANGED <<docVars, checks, tallies, marks, counts, taps, finds>>

-----------------------------------------------------------------------------
(* checkMasterPlaylists and checkUserPlaylists *)

\* The callout's disclosure button: one query per collection.
Tap(d, loc) ==
  /\ auth[d] # Nobody
  /\ taps < MaxTaps
  /\ taps' = taps + 1
  /\ checks' = checks \cup
       {[tap |-> taps, dev |-> d, coll |-> coll, loc |-> loc,
         answered |-> FALSE, lists |-> NoLists] : coll \in Collection}
  /\ UNCHANGED <<sessionVars, docVars, tallies, marks, counts, finds>>

AnswerCheck(c) ==
  /\ ~c.answered
  /\ checks' = (checks \ {c}) \cup
       {[c EXCEPT !.answered = TRUE,
                  !.lists = [p \in Playlist |->
                     IF p \in DocumentsAt(c.coll, c.loc)
                       THEN Overlay(marks[c.dev][auth[c.dev]][p], hasFound[p])
                       ELSE <<>>]]}
  /\ UNCHANGED <<sessionVars, docVars, tallies, marks, counts, taps, finds>>

\* Mutant: the list is not looked at.
IsThere(c, p) == p \in DocumentsAt(c.coll, c.loc)

\* A document of the answer whose list lacks the user the singleton names now.
IsNew(c, p) ==
  p \in DocumentsAt(c.coll, c.loc) /\ info[c.dev].email \notin Range(c.lists[p])

\* Mutant: the list is replaced.
MarkAlone(c, p) ==
  LET email == info[c.dev].email
  IN  [tap |-> c.tap, email |-> email, val |-> <<email>>, attached |-> TRUE]

\* The write of the list of the answer with that user appended.
Mark(c, p) ==
  LET email == info[c.dev].email
  IN  [tap |-> c.tap, email |-> email, val |-> Append(c.lists[p], email), attached |-> TRUE]

\* The callback: the whole list of each new document is written back.
CheckArrives(c) ==
  LET d == c.dev
      a == auth[d]
  IN  /\ c.answered
      /\ checks' = checks \ {c}
      /\ marks' = [marks EXCEPT ![d][a] =
                     [p \in Playlist |-> IF IsNew(c, p) THEN Append(marks[d][a][p], Mark(c, p))
                                                       ELSE marks[d][a][p]]]
      /\ UNCHANGED <<sessionVars, docVars, tallies, counts, taps, finds>>

CheckFails(c) ==
  /\ ~c.answered
  /\ checks' = checks \ {c}
  /\ UNCHANGED <<sessionVars, docVars, tallies, marks, counts, taps, finds>>

-----------------------------------------------------------------------------
(* The hasFound write and its completion *)

\* The completion of a hasFound write, if this run of the app queued it.
LookUp(d, p, w) ==
  IF w.attached
    THEN /\ tallies' = tallies \cup {[dev |-> d, tap |-> w.tap, playlist |-> p, email |-> w.email]}
         /\ finds' = finds \cup {<<w.tap, p>>}
    ELSE UNCHANGED <<tallies, finds>>

\* The backend applies the oldest pending write of a document.  Either the
\* client hears of it: the write leaves the queue, and its completion looks up
\* the finder's userInfo document.  Or the acknowledgement is lost, and the
\* write will be sent again.
CommitMark(d, p) ==
  LET queue == marks[d][auth[d]][p]
      w     == Head(queue)
  IN  /\ queue # <<>>
      /\ hasFound' = [hasFound EXCEPT ![p] = w.val]
      /\ recorded' = [recorded EXCEPT ![p] = @ \cup Range(w.val)]
      /\ \/ /\ marks' = [marks EXCEPT ![d][auth[d]][p] = Tail(@)]
            /\ LookUp(d, p, w)
         \/ UNCHANGED <<marks, tallies, finds>>
      /\ UNCHANGED <<sessionVars, totalPlaylistsFound, checks, counts, taps>>

\* Mutant: the error is not looked at.
RejectMarkUnchecked(d, p) ==
  /\ marks[d][auth[d]][p] # <<>>
  /\ marks' = [marks EXCEPT ![d][auth[d]][p] = Tail(@)]
  /\ LookUp(d, p, Head(marks[d][auth[d]][p]))
  /\ UNCHANGED <<sessionVars, docVars, checks, counts, taps>>

\* A permanent error: the write is dropped and the completion shows an alert.
RejectMark(d, p) ==
  /\ marks[d][auth[d]][p] # <<>>
  /\ marks' = [marks EXCEPT ![d][auth[d]][p] = Tail(@)]
  /\ UNCHANGED <<sessionVars, docVars, checks, tallies, counts, taps, finds>>

-----------------------------------------------------------------------------
(* The count write and its completion *)

\* Mutant: the number is not raised.
SameCount(t) == info[t.dev].field

\* The number to be written: the singleton's, whoever it names by now, plus one.
NextCount(t) == info[t.dev].field + 1

\* The callback; no document has the email "", so nothing happens for Nobody.
TallyArrives(t) ==
  LET w == [tap |-> t.tap, playlist |-> t.playlist, val |-> NextCount(t), attached |-> TRUE]
  IN  /\ tallies' = tallies \ {t}
      /\ counts' = IF t.email = Nobody
                     THEN counts
                     ELSE [counts EXCEPT ![t.dev][auth[t.dev]][t.email] = Append(@, w)]
      /\ UNCHANGED <<sessionVars, docVars, checks, marks, taps, finds>>

TallyFails(t) ==
  /\ tallies' = tallies \ {t}
  /\ UNCHANGED <<sessionVars, docVars, checks, marks, counts, taps, finds>>

\* Mutant: the singleton is forgotten.
NoBump(d, w) == UNCHANGED info

\* The completion of a count write bumps the singleton, whatever it holds by now.
Bump(d, w) == info' = IF w.attached THEN [info EXCEPT ![d].field = @ + 1] ELSE info

\* Mutant: the singleton is bumped for every attempt.
CommitCountEachTime(d, u) ==
  LET queue == counts[d][auth[d]][u]
      w     == Head(queue)
  IN  /\ queue # <<>>
      /\ totalPlaylistsFound' = [totalPlaylistsFound EXCEPT ![u] = w.val]
      /\ \/ counts' = [counts EXCEPT ![d][auth[d]][u] = Tail(@)]
         \/ UNCHANGED counts
      /\ Bump(d, w)
      /\ UNCHANGED <<auth, loads, appeared, hasFound, recorded,
                     checks, tallies, marks, taps, finds>>

\* As CommitMark.
CommitCount(d, u) ==
  LET queue == counts[d][auth[d]][u]
      w     == Head(queue)
  IN  /\ queue # <<>>
      /\ totalPlaylistsFound' = [totalPlaylistsFound EXCEPT ![u] = w.val]
      /\ \/ /\ counts' = [counts EXCEPT ![d][auth[d]][u] = Tail(@)]
            /\ Bump(d, w)
         \/ UNCHANGED <<counts, info>>
      /\ UNCHANGED <<auth, loads, appeared, hasFound, recorded,
                     checks, tallies, marks, taps, finds>>

RejectCount(d, u) ==
  /\ counts[d][auth[d]][u] # <<>>
  /\ counts' = [counts EXCEPT ![d][auth[d]][u] = Tail(@)]
  /\ UNCHANGED <<sessionVars, docVars, checks, tallies, marks, taps, finds>>

-----------------------------------------------------------------------------
UserStep ==
  \E d \in Device : ComeAndGo(d) \/ Restart(d) \/ \E loc \in Location : Tap(d, loc)

LoadStep  == \E l \in loads : Load(l)
CheckStep == \E c \in checks : AnswerCheck(c) \/ CheckArrives(c) \/ CheckFails(c)
MarkStep  == \E d \in Device, p \in Playlist : CommitMark(d, p) \/ RejectMark(d, p)
CountStep == \/ \E t \in tallies : TallyArrives(t) \/ TallyFails(t)
             \/ \E d \in Device, u \in User : CommitCount(d, u) \/ RejectCount(d, u)

Next == UserStep \/ LoadStep \/ CheckStep \/ MarkStep \/ CountStep

Spec == Init /\ [][Next]_vars

-----------------------------------------------------------------------------
(* Properties *)

TallyRecord == [dev : Device, tap : Nat, playlist : Playlist, email : Email]
MarkRecord  == [tap : Nat, email : Email, val : Seq(Email), attached : BOOLEAN]
CountRecord == [tap : Nat, playlist : Playlist, val : Int, attached : BOOLEAN]
CheckRecord == [tap : Nat, dev : Device, coll : Collection, loc : Location,
                answered : BOOLEAN, lists : [Playlist -> Seq(Email)]]

\* The shape of every piece of state; the state of the requests in flight
\* is what the callbacks of mapVC.swift captured.
TypeOK ==
  /\ SessionTypeOK(Int)
  /\ hasFound \in [Playlist -> Seq(Email)]
  /\ totalPlaylistsFound \in [User -> Int \cup {NotSet}]
  /\ checks \subseteq CheckRecord
  /\ tallies \subseteq TallyRecord
  /\ marks \in [Device -> [Account -> [Playlist -> Seq(MarkRecord)]]]
  /\ counts \in [Device -> [Account -> [User -> Seq(CountRecord)]]]
  /\ taps \in 0..MaxTaps
  /\ finds \subseteq Nat \X Playlist
  /\ recorded \in [Playlist -> SUBSET Email]

\* No list names a finder twice, in whatever order the callbacks of several
\* taps, of several phones and of resent writes run: the contains guard is
\* evaluated on an answer that may be stale, but the list written is built
\* from that same answer (mapVC.swift, checkMasterPlaylists/UserPlaylists).
NoDuplicateFinders == \A p \in Playlist : IsInjective(hasFound[p])

\* A finder is counted only once the backend has held the email in the
\* playlist's list: whoever is being looked up, and every count write on
\* its way for a playlist, follows a stored mark.  (The list may have lost
\* the email again since: see NoFinderLost.)
CountOnlyAfterRecorded ==
  /\ \A t \in tallies : t.email \in recorded[t.playlist]
  /\ \A d \in Device, a \in Account, u \in User :
       \A i \in DOMAIN counts[d][a][u] : u \in recorded[counts[d][a][u][i].playlist]

\* A completed find is worth at most two: one when the count is computed
\* and one when the singleton is bumped.  However loads, sessions, retries
\* and restarts interleave, no number exceeds that.
CountBounded ==
  /\ \A u \in User :
       totalPlaylistsFound[u] # NotSet => totalPlaylistsFound[u] <= 2 * Cardinality(finds)
  /\ \A d \in Device : info[d].field <= 2 * Cardinality(finds)

\* "add emial to list" (mapVC.swift, both functions): whoever a document's list
\* has named is still in it.  It is so among users who wait for one another
\* (PatientFinding), and not when two phones add their users to the same list
\* as each of them read it.
NoFinderLost == \A p \in Playlist : recorded[p] \subseteq Range(hasFound[p])

-----------------------------------------------------------------------------
(* Liveness *)

\* The backend answers and acknowledges, and the main queue runs callbacks;
\* the user owes nothing.  An acknowledgement is not lost for ever.
Fairness ==
  /\ WF_vars(\E l \in loads : Load(l) /\ ~LoadFails(l))
  /\ WF_vars(\E c \in checks : AnswerCheck(c) \/ CheckArrives(c))
  /\ WF_vars(\E t \in tallies : TallyArrives(t))
  /\ \A d \in Device :
       /\ \A p \in Playlist : WF_vars(CommitMark(d, p) /\ marks' # marks)
       /\ \A u \in User : WF_vars(CommitCount(d, u) /\ counts' # counts)

FairSpec == Spec /\ Fairness

\* Nothing of device d is outstanding, and nothing is queued for account a.
Quiet(d, a) ==
  /\ \A r \in loads \cup checks \cup tallies : r.dev # d
  /\ \A p \in Playlist : marks[d][a][p] = <<>>
  /\ \A u \in User : counts[d][a][u] = <<>>

\* A phone that stays with one account gets everything it asked for done:
\* the chain of callbacks has no step at which a find can hang.
Drains == \A d \in Device, a \in Account : <>[](auth[d] = a) => <>[]Quiet(d, a)

-----------------------------------------------------------------------------
(* Inductive strengthenings, for the proofs *)

\* Lists are repetition-free wherever they are: stored, queued or answered.
DistinctInv ==
  /\ NoDuplicateFinders
  /\ \A d \in Device, a \in Account, p \in Playlist :
       \A i \in DOMAIN marks[d][a][p] : IsInjective(marks[d][a][p][i].val)
  /\ \A c \in checks, p \in Playlist : IsInjective(c.lists[p])

\* A queued list holds the email it was queued for, so a completed write
\* has stored it.
RecordedInv ==
  /\ CountOnlyAfterRecorded
  /\ \A d \in Device, a \in Account, p \in Playlist :
       \A i \in DOMAIN marks[d][a][p] :
         marks[d][a][p][i].email \in Range(marks[d][a][p][i].val)

Pending == Awaited(counts, Device, Account, User)

\* What finds have been worth so far: two each, less what a lookup and a write
\* under way may still add.
Worth == 2 * Cardinality(finds) - 2 * Cardinality(tallies) - Cardinality(Pending)

\* No number anywhere, stored, shown or on its way, is more than b.
Within(b) ==
  /\ FieldsWithin(b)
  /\ \A d \in Device, a \in Account, u \in User :
       \A i \in DOMAIN counts[d][a][u] : counts[d][a][u][i].val <= b
  /\ \A u \in User : totalPlaylistsFound[u] # NotSet => totalPlaylistsFound[u] <= b

\* Some bound of all numbers is not more than they are worth.
Enough(b) == IsFiniteSet(finds) /\ IsFiniteSet(tallies) /\ IsFiniteSet(Pending) /\ Worth >= b /\ Within(b)

WorthInv == \E b \in 0..(2 * Cardinality(finds)) : Enough(b)

Found(tap, p) == <<tap, p>> \in finds

\* A tap marks a playlist once: it has one check per collection, and a check
\* that is still to come back for a playlist has queued no write to it.
ChecksOnce ==
  /\ \A c \in checks : c.tap < taps
  /\ \A c, k \in checks : c.tap = k.tap /\ c.coll = k.coll => c = k
  /\ \A c \in checks : \A p \in DocumentsAt(c.coll, c.loc) : ~Found(c.tap, p)
  /\ \A tap \in taps..MaxTaps, p \in Playlist : ~Found(tap, p)

MarksOnce ==
  \A d \in Device, a \in Account, p \in Playlist : \A i \in DOMAIN marks[d][a][p] :
    LET tap == marks[d][a][p][i].tap
    IN  /\ tap < taps
        /\ ~Found(tap, p)
        /\ \A c \in checks : c.tap = tap => p \notin DocumentsAt(c.coll, c.loc)
        /\ \A e \in Device, b \in Account : \A j \in DOMAIN marks[e][b][p] :
             marks[e][b][p][j].tap = tap => e = d /\ b = a /\ j = i

OnceInv == ChecksOnce /\ MarksOnce
=============================================================================
