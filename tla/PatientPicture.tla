--------------------------- MODULE PatientPicture ---------------------------
(***************************************************************************)
(* The conditions under which Storage and the profiles agree.              *)
(*                                                                         *)
(* A history of ProfilePicture is patient when users act only when every   *)
(* earlier request of every phone has been answered, each on a phone of    *)
(* their own, with no phone restarting and no request failing.  As in      *)
(* PatientCreating, the specification Histories has both kinds.            *)
(***************************************************************************)
EXTENDS ProfilePicture

CONSTANT PhoneOf  \* the one phone each user uses
ASSUME PhoneAssumption == PhoneOf \in [User -> Device]

VARIABLE patient  \* history: whether the users of this history wait

PatientStep ==
  \/ /\ AllQuiet
     /\ \E d \in Device :
          \/ ComeAndGo(d) /\ \A u \in User : auth'[d] = u => PhoneOf[u] = d
          \/ \E pic \in Picture : Pick(d, pic)
  \/ \E l \in loads : Load(l) /\ ~LoadFails(l)
  \/ \E q \in puts : PutDone(q) \/ UrlArrives(q)
  \/ \E pic \in erases : EraseDone(pic)
  \/ \E q \in lookups : LookupArrives(q)
  \/ \E d \in Device, u \in User : CommitLink(d, u)

Step ==
  \/ patient /\ PatientStep /\ UNCHANGED patient
  \/ ~patient /\ Next /\ UNCHANGED patient

EitherInit == Init /\ patient \in BOOLEAN

Histories == EitherInit /\ [][Step]_<<vars, patient>>

\* Storage holds exactly the pictures the profiles link to: the old one is
\* deleted, whoever picked it and whatever the singleton went through since,
\* and the new one stays (profileVC.storeProfilePic).
StorageMatchesProfiles == patient => LinkedIsStored /\ ReplacedIsErased
=============================================================================
