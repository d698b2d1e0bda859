-------------------------- MODULE PlaylistsCreated --------------------------
(***************************************************************************)
(* Adding a playlist (addPlaylistVC.addPlaylistClicked).                   *)
(*                                                                         *)
(* One click sends two independent requests: addDocument stores the new    *)
(* playlist, stamped with the email the singleton holds, and a query looks *)
(* up the userInfo document of that email, whose callback writes           *)
(* totalPlaylistsCreated with the number computed at the click.  When that *)
(* write completes the singleton is bumped and the app returns to the map, *)
(* which clears the singleton and loads it again.                          *)
(*                                                                         *)
(* Sessions are those of Session, with totalPlaylistsCreated for field,    *)
(* and the client's write queues are those of WriteQueue.                  *)
(***************************************************************************)
EXTENDS Session, WriteQueue, FiniteSets, SequencesExt

CONSTANT MaxClicks  \* bound on clicks that pass the checks of the text fields

ASSUME CreatedAssumption ==
  /\ Initial = 0
  /\ NotSet \notin Int
  /\ MaxClicks \in Nat

VARIABLES
  userPlaylists,  \* documents of userPlaylists, on the server
  totalPlaylistsCreated,  \* field of each user's userInfo document, on the server
  adds,     \* queued addDocument writes, per phone and account
  lookups,  \* userInfo queries of a click whose callback has not run
  creates,  \* queued writes of totalPlaylistsCreated, per phone, account and user
  clicks,   \* clicks so far (numbers the documents)
  clicker   \* history: who was signed in at each click

docVars == <<userPlaylists, totalPlaylistsCreated>>
vars == <<sessionVars, docVars, adds, lookups, creates, clicks, clicker>>

-----------------------------------------------------------------------------
(* Sessions *)

Init ==
  /\ SessionInit
  /\ userPlaylists = {}
  /\ totalPlaylistsCreated = [u \in User |-> NotSet]
  /\ adds = [d \in Device |-> [a \in Account |-> <<>>]]
  /\ lookups = {}
  /\ creates = [d \in Device |-> [a \in Account |-> [u \in User |-> <<>>]]]
  /\ clicks = 0
  /\ clicker = <<>>

ComeAndGo(d) ==
  /\ (\E u \in User : SignIn(d, u)) \/ MapAppears(d) \/ SignOut(d)
  /\ UNCHANGED <<docVars, adds, lookups, creates, clicks, clicker>>

\* A restart ends the queries of this run of the app; the queued writes stay.
Restart(d) ==
  /\ Relaunch(d)
  /\ lookups' = {q \in lookups : q.dev # d}
  /\ creates' = [creates EXCEPT ![d] =
                   [a \in Account |-> [u \in User |-> Detached(creates[d][a][u])]]]
  /\ UNCHANGED <<docVars, adds, clicks, clicker>>

\* The count of user u as phone d's client answers it.
SeenCount(d, u) == Overlay(creates[d][auth[d]][u], totalPlaylistsCreated[u])

Load(l) ==
  /\ AnswerLoad(l, SeenCount(l.dev, l.email)) \/ LoadArrives(l) \/ LoadFails(l)
  /\ UNCHANGED <<docVars, adds, lookups, creates, clicks, clicker>>

-----------------------------------------------------------------------------
(* addPlaylistClicked *)

\* The button is never disabled: a user may click again at once.
Click(d) ==
  LET email == info[d].email
  IN  /\ auth[d] # Nobody
      /\ clicks < MaxClicks
      /\ clicks' = clicks + 1
      /\ clicker' = Append(clicker, auth[d])
      /\ adds' = [adds EXCEPT ![d][auth[d]] = Append(@, [id |-> clicks, email |-> email])]
      /\ lookups' = lookups \cup {[id |-> clicks, dev |-> d, email |-> email,
                                   val |-> info[d].field + 1]}
      /\ UNCHANGED <<sessionVars, docVars, creates>>

\* The backend stores the oldest new document; its id was chosen on the phone,
\* so storing it again after a lost acknowledgement changes nothing.
CommitAdd(d) ==
  LET queue == adds[d][auth[d]]
  IN  /\ queue # <<>>
      /\ userPlaylists' = userPlaylists \cup {Head(queue)}
      /\ \/ adds' = [adds EXCEPT ![d][auth[d]] = Tail(@)]
         \/ UNCHANGED adds
      /\ UNCHANGED <<sessionVars, totalPlaylistsCreated, lookups, creates, clicks, clicker>>

\* A permanent error: an alert, "Could not store playlist in database".
RejectAdd(d) ==
  /\ adds[d][auth[d]] # <<>>
  /\ adds' = [adds EXCEPT ![d][auth[d]] = Tail(@)]
  /\ UNCHANGED <<sessionVars, docVars, lookups, creates, clicks, clicker>>

\* Exactly one document has the email of a user, and none has "".
LookupArrives(q) ==
  /\ lookups' = lookups \ {q}
  /\ creates' = IF q.email = Nobody
                  THEN creates
                  ELSE [creates EXCEPT ![q.dev][auth[q.dev]][q.email] =
                          Append(@, [val |-> q.val, attached |-> TRUE])]
  /\ UNCHANGED <<sessionVars, docVars, adds, clicks, clicker>>

LookupFails(q) ==
  /\ lookups' = lookups \ {q}
  /\ UNCHANGED <<sessionVars, docVars, adds, creates, clicks, clicker>>

\* Mutant: the singleton stays as it is.
Idle(d) == UNCHANGED sessionVars

\* The completion bumps the singleton and goes to the map, which clears and
\* reloads it at once; a screen that was left already only bumps it.
Completion(d) ==
  \/ /\ auth[d] # Nobody
     /\ GetUserInfo(d, auth[d], loads)
     /\ UNCHANGED auth
  \/ /\ info' = [info EXCEPT ![d].field = @ + 1]
     /\ UNCHANGED <<auth, loads, appeared>>

\* Mutant: the completion runs for every attempt.
CommitCreateEachTime(d, u) ==
  LET queue == creates[d][auth[d]][u]
      w     == Head(queue)
  IN  /\ queue # <<>>
      /\ totalPlaylistsCreated' = [totalPlaylistsCreated EXCEPT ![u] = w.val]
      /\ \/ creates' = [creates EXCEPT ![d][auth[d]][u] = Tail(@)]
         \/ UNCHANGED creates
      /\ IF w.attached THEN Completion(d) ELSE UNCHANGED sessionVars
      /\ UNCHANGED <<userPlaylists, adds, lookups, clicks, clicker>>

\* The backend applies the oldest count write; the phone hears of it, or the
\* acknowledgement is lost and the write will be sent again.
CommitCreate(d, u) ==
  LET queue == creates[d][auth[d]][u]
      w     == Head(queue)
  IN  /\ queue # <<>>
      /\ totalPlaylistsCreated' = [totalPlaylistsCreated EXCEPT ![u] = w.val]
      /\ \/ /\ creates' = [creates EXCEPT ![d][auth[d]][u] = Tail(@)]
            /\ IF w.attached THEN Completion(d) ELSE UNCHANGED sessionVars
         \/ UNCHANGED <<creates, sessionVars>>
      /\ UNCHANGED <<userPlaylists, adds, lookups, clicks, clicker>>

RejectCreate(d, u) ==
  /\ creates[d][auth[d]][u] # <<>>
  /\ creates' = [creates EXCEPT ![d][auth[d]][u] = Tail(@)]
  /\ UNCHANGED <<sessionVars, docVars, adds, lookups, clicks, clicker>>

-----------------------------------------------------------------------------
Next ==
  \/ \E d \in Device : \/ ComeAndGo(d) \/ Restart(d) \/ Click(d)
                       \/ CommitAdd(d) \/ RejectAdd(d)
  \/ \E l \in loads : Load(l)
  \/ \E q \in lookups : LookupArrives(q) \/ LookupFails(q)
  \/ \E d \in Device, u \in User : CommitCreate(d, u) \/ RejectCreate(d, u)

Spec == Init /\ [][Next]_vars

-----------------------------------------------------------------------------
(* Properties *)

AddRecord    == [id : Nat, email : Email]
LookupRecord == [id : Nat, dev : Device, email : Email, val : Int]
CreateRecord == [val : Int, attached : BOOLEAN]

TypeOK ==
  /\ SessionTypeOK(Int)
  /\ userPlaylists \subseteq AddRecord
  /\ totalPlaylistsCreated \in [User -> Int \cup {NotSet}]
  /\ adds \in [Device -> [Account -> Seq(AddRecord)]]
  /\ lookups \subseteq LookupRecord
  /\ creates \in [Device -> [Account -> [User -> Seq(CreateRecord)]]]
  /\ clicks \in 0..MaxClicks
  /\ clicker \in Seq(User) /\ Len(clicker) = clicks

\* A click is worth at most two: one in the number it computes and one when
\* the singleton is bumped.  No reload, resend, session or restart adds more.
CreatedBounded ==
  /\ \A u \in User : totalPlaylistsCreated[u] # NotSet => totalPlaylistsCreated[u] <= 2 * clicks
  /\ \A d \in Device : info[d].field <= 2 * clicks

-----------------------------------------------------------------------------
(* Inductive strengthening, for the proofs *)

Open == Awaited(creates, Device, Account, User)

\* What clicks have been worth so far: one each for the number computed, and
\* one for every completion that is not to come any more.
Worth == 2 * clicks - Cardinality(lookups) - Cardinality(Open)

\* No number anywhere, stored, shown or on its way, is more than b.
Within(b) ==
  /\ FieldsWithin(b)
  /\ \A q \in lookups : q.val <= b
  /\ \A d \in Device, a \in Account, u \in User :
       \A i \in DOMAIN creates[d][a][u] : creates[d][a][u][i].val <= b
  /\ \A u \in User : totalPlaylistsCreated[u] # NotSet => totalPlaylistsCreated[u] <= b

\* Some bound of all numbers is not more than they are worth.
Enough(b) == IsFiniteSet(lookups) /\ IsFiniteSet(Open) /\ Worth >= b /\ Within(b)

WorthInv == \E b \in 0..(2 * clicks) : Enough(b)
=============================================================================
