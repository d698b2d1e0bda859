--------------------------- MODULE PatientFinding ---------------------------
(***************************************************************************)
(* The conditions under which the "playlists found" number is right.       *)
(*                                                                         *)
(* A history of PlaylistsFound is patient when users act only when every   *)
(* earlier request of every phone has been answered, each on a phone of    *)
(* their own, with no request failing and no phone restarting.  The        *)
(* specification Histories has both kinds, told apart by the variable      *)
(* patient, so that one run checks what holds of all and what only of the  *)
(* patient ones.                                                           *)
(***************************************************************************)
EXTENDS PlaylistsFound

CONSTANTS
  PhoneOf,               \* the one phone each patient user uses
  HastyTaps, HastyLoads  \* bounds of the histories that are not patient

ASSUME PhoneAssumption ==
  /\ PhoneOf \in [User -> Device]
  /\ {HastyTaps, HastyLoads} \subseteq Nat

VARIABLE patient  \* history: whether the users of this history wait

AllQuiet == \A d \in Device, a \in Account : Quiet(d, a)

PatientStep ==
  \/ /\ AllQuiet
     /\ \E d \in Device :
          \/ ComeAndGo(d) /\ \A u \in User : auth'[d] = u => PhoneOf[u] = d
          \/ \E loc \in Location : Tap(d, loc)
  \/ \E l \in loads : Load(l) /\ ~LoadFails(l)
  \/ \E c \in checks : AnswerCheck(c) \/ CheckArrives(c)
  \/ \E d \in Device, p \in Playlist : CommitMark(d, p)
  \/ \E t \in tallies : TallyArrives(t)
  \/ \E d \in Device, u \in User : CommitCount(d, u)

Step ==
  \/ patient /\ PatientStep /\ UNCHANGED patient
  \/ ~patient /\ Next /\ taps' <= HastyTaps /\ appeared' <= HastyLoads /\ UNCHANGED patient

EitherInit == Init /\ patient \in BOOLEAN

Histories == EitherInit /\ [][Step]_<<vars, patient>>

\* Playlists whose list names user u.
FoundBy(u) == {p \in Playlist : u \in Range(hasFound[p])}

Stored(n) == IF n = NotSet THEN 0 ELSE n

\* "add 1 to userinfo playlists found" (mapVC.swift, both functions): when
\* nothing is outstanding, a user's stored number is the number of playlists
\* that name them.  It is so, resent writes included, when no two playlists
\* share their coordinates; it is not when two do, since the callbacks of
\* both read the singleton before either bumps it.
EachFindAddsOne ==
  patient /\ AllQuiet =>
    \A u \in User : Stored(totalPlaylistsFound[u]) = Cardinality(FoundBy(u))

\* When nothing is outstanding, what the profile screen shows is the signed-in
\* user's name and stored number, also after other users of the same phone.
ProfileIsCurrent ==
  patient /\ AllQuiet => \A d \in Device : auth[d] # Nobody =>
    info[d] = [email |-> auth[d], field |-> Stored(totalPlaylistsFound[auth[d]])]

\* What the register says of histories that are not patient: nothing.
NobodyFound   == [u \in User |-> {}]
NobodyCounted == [u \in User |-> 0]

\* Patient users see a register of finds: a list only ever gains one finder at a
\* time and loses none, and the stored number follows, one by one, before the
\* user's next find (mapVC.checkMasterPlaylists, checkUserPlaylists).
Register == INSTANCE FindRegister WITH
              found   <- IF patient THEN [u \in User |-> FoundBy(u)] ELSE NobodyFound,
              counted <- IF patient THEN [u \in User |-> Stored(totalPlaylistsFound[u])]
                         ELSE NobodyCounted

ImplementsRegister == Register!RegisterSpec
=============================================================================
