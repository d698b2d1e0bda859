--------------------------- MODULE PlaylistBoard ---------------------------
(***************************************************************************)
(* The pins on the map, the radius and the expiry of playlists.            *)
(*                                                                         *)
(* Opening the map, its reload button and every new location of the phone  *)
(* ask both collections for all their documents; each callback adds a pin  *)
(* per document.  The callback of the user playlists leaves out those      *)
(* farther away than the singleton's radius, and deletes the documents     *)
(* that are older than seven days (mapVC.addStaticAnnotations,             *)
(* addUserAnnotations).  The radius is edited in the settings              *)
(* (settingsVC.updateMapRadiusClicked).                                    *)
(*                                                                         *)
(* Sessions are those of Session, with mapRadius for field, in miles.      *)
(* Pins have coordinates of their own.  A playlist appears on the server   *)
(* in one step: until then its document has no date, and gets no pin.      *)
(***************************************************************************)
EXTENDS Session, WriteQueue, FiniteSets, SequencesExt

CONSTANTS
  Playlist,    \* documents of masterPlaylists and userPlaylists
  Master,      \* those of masterPlaylists
  Place,       \* where a phone may be
  Unknown,     \* no location yet
  Distance,    \* of each playlist from each place, in miles
  Radius,      \* what users type as a radius; no number counts as 25, Initial
  MaxReloads,  \* bound on reloads of the pins, in all
  MaxActs      \* bound on answers to taps and edits of the radius, in all

ASSUME BoardAssumption ==
  /\ Master \subseteq Playlist
  /\ Unknown \notin Place
  /\ Distance \in [Place -> [Playlist -> Nat]]
  /\ Radius \subseteq Nat /\ Initial \in Nat
  /\ NotSet \notin Nat
  /\ MaxReloads \in Nat /\ MaxActs \in Nat

VARIABLES
  docs,       \* the fields each playlist document has, on the server
  expired,    \* user playlists that were stored more than seven days ago
  mapRadius,  \* field of each user's userInfo document, on the server
  view,       \* the map view of each phone, by its first appearance; 0: none
  pins,       \* how many pins each playlist has on it
  where,      \* the location the map view knows
  boards,     \* queries of a collection whose callback has not run
  reloads,    \* reloads of the pins so far (numbers them)
  checks,     \* answered queries of a tap whose callback has not run
  acts,       \* answers to taps and edits so far (numbers the edits)
  writes,     \* queued writes to playlist documents, per phone and account
  edits,      \* userInfo queries of the settings whose callback has not run
  radii,      \* queued writes of mapRadius, per phone, account and user
  calm        \* history: nothing interfered with the last reload of a phone

boardVars == <<view, pins, where, boards, reloads>>
findVars  == <<checks, acts>>
editVars  == <<mapRadius, edits, radii>>
vars == <<sessionVars, docs, expired, boardVars, findVars, writes, editVars, calm>>

\* The fields that make a pin (title, author, coordinates, date), and hasFound.
Group == {"pin", "hasFound"}

NoPins == [p \in Playlist |-> 0]

-----------------------------------------------------------------------------
(* Documents as a phone sees them, through its own pending writes *)

Pending(d, p) == writes[d][auth[d]][p]

SeesPin(d, p) == "pin" \in docs[p] /\ "delete" \notin Range(Pending(d, p))

SeenRadius(d, u) == Overlay(radii[d][auth[d]][u], mapRadius[u])

\* The distance check; there is no pin for want of a location.
Near(d, p) == where[d] # Unknown /\ Distance[where[d]][p] <= info[d].field

\* The playlists that ought to have a pin.
Visible(d) ==
  {p \in Playlist : SeesPin(d, p) /\ (p \in Master \/ (p \notin expired /\ Near(d, p)))}

-----------------------------------------------------------------------------
(* Reloading the pins *)

\* addStaticAnnotations and addUserAnnotations for view v, with the queries
\* in others outstanding.  Nobody deletes a document of masterPlaylists, so the
\* answer to the first is known when it is sent.
AddAnnotations(d, v, others) ==
  /\ reloads < MaxReloads
  /\ reloads' = reloads + 1
  /\ boards' = others \cup
       {[n |-> reloads, dev |-> d, view |-> v, coll |-> "masterPlaylists",
         answered |-> TRUE, found |-> Master],
        [n |-> reloads, dev |-> d, view |-> v, coll |-> "userPlaylists",
         answered |-> FALSE, found |-> {}]}

\* viewDidLoad of a new map view, before its first appearance.
OpenMap(d, others) ==
  /\ view' = [view EXCEPT ![d] = appeared']
  /\ pins' = [pins EXCEPT ![d] = NoPins]
  /\ where' = [where EXCEPT ![d] = Unknown]
  /\ AddAnnotations(d, appeared', others)

\* Mutant: the pins are not removed.
UpdateAnnotationsOnly(d) == UNCHANGED pins /\ AddAnnotations(d, view[d], boards)

UpdateAnnotations(d) ==
  /\ pins' = [pins EXCEPT ![d] = NoPins]
  /\ AddAnnotations(d, view[d], boards)

ReloadClicked(d) ==
  /\ auth[d] # Nobody
  /\ UpdateAnnotations(d)
  /\ UNCHANGED <<sessionVars, docs, expired, view, where, findVars, writes, editVars>>

\* didUpdateLocations: a map view gets locations as long as the app runs.
LocationUpdates(d) ==
  /\ view[d] # 0
  /\ UpdateAnnotations(d)
  /\ UNCHANGED <<sessionVars, docs, expired, view, where, findVars, writes, editVars>>

\* The map view has a locating of its own.
MapLocates(d, place) ==
  /\ view[d] # 0
  /\ where' = [where EXCEPT ![d] = place]
  /\ UNCHANGED <<sessionVars, docs, expired, view, pins, boards, reloads, findVars, writes, editVars>>

AnswerBoard(q) ==
  /\ ~q.answered
  /\ boards' = (boards \ {q}) \cup
       {[q EXCEPT !.answered = TRUE,
                  !.found = {p \in Playlist \ Master : SeesPin(q.dev, p)}]}
  /\ UNCHANGED <<sessionVars, docs, expired, view, pins, where, reloads, findVars,
                 writes, editVars>>

BoardFails(q) ==
  /\ ~q.answered \/ q.coll = "masterPlaylists"
  /\ boards' = boards \ {q}
  /\ UNCHANGED <<sessionVars, docs, expired, view, pins, where, reloads, findVars,
                 writes, editVars>>

\* Mutant: the age is not looked at.
TooFar(d, p) == p \notin Master /\ ~Near(d, p)

\* "timeDelta > 7", at the time of the callback.
TooOld(d, p) == p \notin Master /\ p \in expired

\* The callback: expired documents are deleted, the others within the radius
\* get a pin, on the view that asked.
BoardArrives(q) ==
  LET d   == q.dev
      old == {p \in q.found : TooOld(d, p)}
      new == {p \in q.found \ old : p \in Master \/ Near(d, p)}
  IN  /\ q.answered
      /\ boards' = boards \ {q}
      /\ writes' = [writes EXCEPT ![d][auth[d]] =
                      [p \in Playlist |-> IF p \in old THEN Append(@[p], "delete") ELSE @[p]]]
      /\ pins' = IF q.view # view[d] THEN pins
                 ELSE [pins EXCEPT ![d] =
                         [p \in Playlist |-> IF p \in new THEN @[p] + 1 ELSE @[p]]]
      /\ UNCHANGED <<sessionVars, docs, expired, view, where, reloads, findVars, editVars>>

-----------------------------------------------------------------------------
(* Sessions *)

\* Returning to the map shows the view there is or, from adding a playlist, a
\* new one.
ComeAndGo(d) ==
  /\ \/ (\E u \in User : SignIn(d, u)) /\ OpenMap(d, boards)
     \/ MapAppears(d) /\ (OpenMap(d, boards) \/ UNCHANGED boardVars)
     \/ SignOut(d) /\ UNCHANGED boardVars
  /\ UNCHANGED <<docs, expired, findVars, writes, editVars>>

\* A restart ends the queries of this run of the app; the queued writes stay.
Restart(d) ==
  LET others == {q \in boards : q.dev # d}
  IN  /\ Relaunch(d)
      /\ IF auth[d] # Nobody
           THEN OpenMap(d, others)
           ELSE /\ view' = [view EXCEPT ![d] = 0]
                /\ pins' = [pins EXCEPT ![d] = NoPins]
                /\ where' = [where EXCEPT ![d] = Unknown]
                /\ boards' = others
                /\ UNCHANGED reloads
      /\ checks' = {c \in checks : c.dev # d}
      /\ edits' = {q \in edits : q.dev # d}
      /\ radii' = [radii EXCEPT ![d] =
                     [a \in Account |-> [u \in User |-> Detached(radii[d][a][u])]]]
      /\ UNCHANGED <<docs, expired, acts, writes, mapRadius>>

Load(l) ==
  /\ AnswerLoad(l, SeenRadius(l.dev, l.email)) \/ LoadArrives(l) \/ LoadFails(l)
  /\ UNCHANGED <<docs, expired, boardVars, findVars, writes, editVars>>

-----------------------------------------------------------------------------
(* Playlists come, are found and grow old *)

\* A new document reaches the server (PlaylistsCreated).
Publish(p) ==
  /\ docs[p] = {} /\ p \notin expired
  /\ docs' = [docs EXCEPT ![p] = Group]
  /\ UNCHANGED <<sessionVars, expired, boardVars, findVars, writes, editVars>>

\* Days pass.
Expire(p) ==
  /\ p \notin Master /\ "pin" \in docs[p]
  /\ expired' = expired \cup {p}
  /\ UNCHANGED <<sessionVars, docs, boardVars, findVars, writes, editVars>>

\* A tap on the pin's button has found the document by its coordinates
\* (PlaylistsFound).  Finding a master playlist changes nothing here:
\* its document keeps its fields.
AnswerCheck(d, p) ==
  /\ acts < MaxActs
  /\ acts' = acts + 1
  /\ auth[d] # Nobody
  /\ p \notin Master /\ pins[d][p] > 0 /\ SeesPin(d, p)
  /\ checks' = checks \cup {[dev |-> d, playlist |-> p]}
  /\ UNCHANGED <<sessionVars, docs, expired, boardVars, writes, editVars>>

\* Its callback writes hasFound, unless the list has the user already.
CheckArrives(c) ==
  /\ checks' = checks \ {c}
  /\ \/ writes' = [writes EXCEPT ![c.dev][auth[c.dev]][c.playlist] = Append(@, "mark")]
     \/ UNCHANGED writes
  /\ UNCHANGED <<sessionVars, docs, expired, boardVars, acts, editVars>>

\* Mutant: hasFound is set without merge.
AfterUnmerged(fields, w) == IF w = "delete" THEN {} ELSE {"hasFound"}

\* A document after a write: setData with merge creates it when there is none.
After(fields, w) == IF w = "delete" THEN {} ELSE fields \cup {"hasFound"}

\* The backend applies the oldest pending write of a document, and the phone
\* hears of it or the acknowledgement is lost.
CommitWrite(d, p) ==
  /\ Pending(d, p) # <<>>
  /\ docs' = [docs EXCEPT ![p] = After(@, Head(Pending(d, p)))]
  /\ \/ writes' = [writes EXCEPT ![d][auth[d]][p] = Tail(@)]
     \/ UNCHANGED writes
  /\ UNCHANGED <<sessionVars, expired, boardVars, findVars, editVars>>

RejectWrite(d, p) ==
  /\ Pending(d, p) # <<>>
  /\ writes' = [writes EXCEPT ![d][auth[d]][p] = Tail(@)]
  /\ UNCHANGED <<sessionVars, docs, expired, boardVars, findVars, editVars>>

-----------------------------------------------------------------------------
(* updateMapRadiusClicked *)

UpdateMapRadiusClicked(d) ==
  /\ auth[d] # Nobody
  /\ acts < MaxActs
  /\ acts' = acts + 1
  /\ edits' = edits \cup {[n |-> acts, dev |-> d, email |-> auth[d]]}
  /\ UNCHANGED <<sessionVars, docs, expired, boardVars, checks, writes, mapRadius, radii>>

\* The callback reads the text field.
EditArrives(q) ==
  /\ edits' = edits \ {q}
  /\ \E r \in Radius :
       radii' = [radii EXCEPT ![q.dev][auth[q.dev]][q.email] =
                   Append(@, [val |-> r, attached |-> TRUE])]
  /\ UNCHANGED <<sessionVars, docs, expired, boardVars, findVars, writes, mapRadius>>

EditFails(q) ==
  /\ edits' = edits \ {q}
  /\ UNCHANGED <<sessionVars, docs, expired, boardVars, findVars, writes, mapRadius, radii>>

\* The completion reads the text field once more, for the singleton.
CommitRadius(d, u) ==
  LET queue == radii[d][auth[d]][u]
      w     == Head(queue)
  IN  /\ queue # <<>>
      /\ mapRadius' = [mapRadius EXCEPT ![u] = w.val]
      /\ \/ /\ radii' = [radii EXCEPT ![d][auth[d]][u] = Tail(@)]
            /\ IF w.attached
                 THEN \E r \in Radius : info' = [info EXCEPT ![d].field = r]
                 ELSE UNCHANGED info
         \/ UNCHANGED <<radii, info>>
      /\ UNCHANGED <<auth, loads, appeared, docs, expired, boardVars, findVars, writes, edits>>

RejectRadius(d, u) ==
  /\ radii[d][auth[d]][u] # <<>>
  /\ radii' = [radii EXCEPT ![d][auth[d]][u] = Tail(@)]
  /\ UNCHANGED <<sessionVars, docs, expired, boardVars, findVars, writes, mapRadius, edits>>

-----------------------------------------------------------------------------
Init ==
  /\ SessionInit
  /\ docs = [p \in Playlist |-> IF p \in Master THEN Group ELSE {}]
  /\ expired = {}
  /\ mapRadius = [u \in User |-> NotSet]
  /\ view = [d \in Device |-> 0]
  /\ pins = [d \in Device |-> NoPins]
  /\ where = [d \in Device |-> Unknown]
  /\ boards = {} /\ checks = {} /\ edits = {}
  /\ reloads = 0 /\ acts = 0
  /\ writes = [d \in Device |-> [a \in Account |-> [p \in Playlist |-> <<>>]]]
  /\ radii = [d \in Device |-> [a \in Account |-> [u \in User |-> <<>>]]]
  /\ calm = [d \in Device |-> FALSE]

BoardStep ==
  \/ \E d \in Device :
       \/ ReloadClicked(d) \/ LocationUpdates(d)
       \/ \E place \in Place : MapLocates(d, place)
  \/ \E q \in boards : AnswerBoard(q) \/ BoardArrives(q)

SessionStep == (\E d \in Device : ComeAndGo(d) \/ Restart(d)) \/ \E l \in loads : Load(l)

DocumentStep ==
  \/ \E p \in Playlist : Publish(p) \/ Expire(p)
  \/ \E d \in Device, p \in Playlist : AnswerCheck(d, p) \/ CommitWrite(d, p) \/ RejectWrite(d, p)
  \/ \E c \in checks : CheckArrives(c)

RadiusStep ==
  \/ \E d \in Device : UpdateMapRadiusClicked(d)
  \/ \E q \in edits : EditArrives(q) \/ EditFails(q)
  \/ \E d \in Device, u \in User : CommitRadius(d, u) \/ RejectRadius(d, u)

\* No other query of phone d's view is outstanding.
Undisturbed(d) == \A q \in boards : q.dev = d => q.view # view'[d]

\* A reload is calm if it starts alone and nothing changes what it should show.
KeepsCalm ==
  calm' = [d \in Device |->
             IF \E q \in boards' \ boards : q.dev = d /\ q.n = reloads
               THEN Undisturbed(d)
               ELSE calm[d] /\ Visible(d)' = Visible(d)]

Next ==
  \/ (BoardStep \/ SessionStep \/ DocumentStep \/ RadiusStep) /\ KeepsCalm
  \/ \E q \in boards : BoardFails(q) /\ calm' = [calm EXCEPT ![q.dev] = FALSE]

Spec == Init /\ [][Next]_vars

-----------------------------------------------------------------------------
(* Properties *)

BoardRecord == [n : Nat, dev : Device, view : Nat,
                coll : {"masterPlaylists", "userPlaylists"},
                answered : BOOLEAN, found : SUBSET Playlist]
RadiusRecord == [val : Radius, attached : BOOLEAN]

TypeOK ==
  /\ SessionTypeOK(Radius \cup {Initial})
  /\ docs \in [Playlist -> SUBSET Group]
  /\ expired \subseteq Playlist \ Master
  /\ mapRadius \in [User -> Radius \cup {NotSet}]
  /\ view \in [Device -> Nat]
  /\ pins \in [Device -> [Playlist -> Nat]]
  /\ where \in [Device -> Place \cup {Unknown}]
  /\ boards \subseteq BoardRecord
  /\ reloads \in 0..MaxReloads
  /\ checks \subseteq [dev : Device, playlist : Playlist]
  /\ acts \in 0..MaxActs
  /\ writes \in [Device -> [Account -> [Playlist -> Seq({"delete", "mark"})]]]
  /\ edits \subseteq [n : Nat, dev : Device, email : User]
  /\ radii \in [Device -> [Account -> [User -> Seq(RadiusRecord)]]]
  /\ calm \in [Device -> BOOLEAN]

\* Only documents that are too old are deleted, however long ago the phone
\* that deletes them read them (mapVC.addUserAnnotations).
OnlyExpiredDeleted ==
  [][\A p \in Playlist : docs[p] # {} /\ docs'[p] = {} => p \in expired]_docs

\* A write of hasFound that comes after the deletion creates the document
\* again, without coordinates or date; that happens to expired playlists only,
\* and no playlist still on the maps loses its coordinates
\* (mapVC.checkUserPlaylists, addUserAnnotations).
NoCurrentGhost ==
  \A p \in Playlist : docs[p] # {} /\ "pin" \notin docs[p] => p \in expired

\* A reload with no other one going on, during which nothing changes that it
\* depends on, ends with one pin for every master playlist, one for every user
\* playlist within the radius that is not too old, and no other
\* (mapVC.updateAnnotations).
MapIsRight ==
  \A d \in Device :
    view[d] # 0 /\ calm[d] /\ (\A q \in boards : q.dev = d => q.view # view[d])
      => pins[d] = [p \in Playlist |-> IF p \in Visible(d) THEN 1 ELSE 0]
=============================================================================
