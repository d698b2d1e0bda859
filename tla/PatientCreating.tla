-------------------------- MODULE PatientCreating --------------------------
(***************************************************************************)
(* The conditions under which the "playlists created" number is right.     *)
(*                                                                         *)
(* A history of PlaylistsCreated is patient when users act only when every *)
(* earlier request of every phone has been answered, each on a phone of    *)
(* their own, with no request failing and no phone restarting.  The        *)
(* specification Histories has both kinds, told apart by the variable      *)
(* patient, so that one run checks what holds of all and what only of the  *)
(* patient ones.                                                           *)
(***************************************************************************)
EXTENDS PlaylistsCreated

CONSTANT PhoneOf  \* the one phone each user uses
ASSUME PhoneAssumption == PhoneOf \in [User -> Device]

VARIABLE patient  \* history: whether the users of this history wait

AllQuiet ==
  /\ loads = {} /\ lookups = {}
  /\ \A d \in Device, a \in Account :
       adds[d][a] = <<>> /\ \A u \in User : creates[d][a][u] = <<>>

PatientStep ==
  \/ /\ AllQuiet
     /\ \E d \in Device :
          \/ ComeAndGo(d) /\ \A u \in User : auth'[d] = u => PhoneOf[u] = d
          \/ Click(d)
  \/ \E l \in loads : Load(l) /\ ~LoadFails(l)
  \/ \E q \in lookups : LookupArrives(q)
  \/ \E d \in Device : CommitAdd(d)
  \/ \E d \in Device, u \in User : CommitCreate(d, u)

Step ==
  \/ patient /\ PatientStep /\ UNCHANGED patient
  \/ ~patient /\ Next /\ UNCHANGED patient

EitherInit == Init /\ patient \in BOOLEAN

Histories == EitherInit /\ [][Step]_<<vars, patient>>

Stored(n) == IF n = NotSet THEN 0 ELSE n

CreatedBy(u) == {x \in userPlaylists : x.email = u}

\* "update playlist in user info" (addPlaylistVC.swift): when nothing is
\* outstanding, a user's stored number is the number of playlists they added.
\* It is so when clicks wait for one another, and not when the button is
\* clicked twice: both clicks read the singleton before either bumps it.
EachAddAddsOne ==
  patient /\ AllQuiet =>
    \A u \in User : Stored(totalPlaylistsCreated[u]) = Cardinality(CreatedBy(u))

\* "get username/email" (addPlaylistVC.swift): the stored playlist names the
\* user who clicked, provided the click did not overtake the singleton's load.
AuthorIsClicker == patient => \A x \in userPlaylists : x.email = clicker[x.id + 1]
=============================================================================
