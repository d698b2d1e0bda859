--------------------------- MODULE ProfilePicture ---------------------------
(***************************************************************************)
(* Changing the profile picture (profileVC.storeProfilePic).               *)
(*                                                                         *)
(* The chosen image is put in Storage under a fresh name and its URL asked *)
(* for; the callback deletes the picture the singleton names, looks up the *)
(* userInfo document of the email the singleton names, and the next one    *)
(* writes profilePicURL there; when that completes the singleton follows.  *)
(* So the old picture goes before the new one is linked, and the three     *)
(* requests may fail or be cut off one by one.                             *)
(*                                                                         *)
(* Sessions are those of Session, with profilePicURL for field; a picture  *)
(* stands for its file in Storage and for its URL.  Storage requests,      *)
(* unlike Firestore writes, are not queued across restarts.                *)
(***************************************************************************)
EXTENDS Session, WriteQueue, FiniteSets, SequencesExt

CONSTANTS
  Picture,    \* names of uploaded pictures
  NoPicture   \* the empty URL

ASSUME PictureAssumption ==
  /\ Initial = NoPicture
  /\ NoPicture \notin Picture
  /\ NotSet \notin Picture \cup {NoPicture}

VARIABLES
  profilePicURL,  \* field of each user's userInfo document, on the server
  media,    \* pictures in Storage
  puts,     \* putData and downloadURL requests whose callback has not run
  erases,   \* delete requests on their way to Storage
  lookups,  \* userInfo queries whose callback has not run
  links,    \* queued writes of profilePicURL, per phone, account and user
  used,     \* picture names used so far
  taken     \* history: pictures that Storage has taken, deleted since or not

docVars == <<profilePicURL, media>>
vars == <<sessionVars, docVars, puts, erases, lookups, links, used, taken>>

-----------------------------------------------------------------------------
(* Sessions *)

Init ==
  /\ SessionInit
  /\ profilePicURL = [u \in User |-> NotSet]
  /\ media = {}
  /\ puts = {} /\ erases = {} /\ lookups = {}
  /\ links = [d \in Device |-> [a \in Account |-> [u \in User |-> <<>>]]]
  /\ used = {} /\ taken = {}

ComeAndGo(d) ==
  /\ (\E u \in User : SignIn(d, u)) \/ MapAppears(d) \/ SignOut(d)
  /\ UNCHANGED <<docVars, puts, erases, lookups, links, used, taken>>

\* A restart ends the requests of this run of the app; the queued writes stay.
\* A delete that has left the phone may still be carried out.
Restart(d) ==
  /\ Relaunch(d)
  /\ puts'    = {q \in puts : q.dev # d}
  /\ lookups' = {q \in lookups : q.dev # d}
  /\ links'   = [links EXCEPT ![d] =
                   [a \in Account |-> [u \in User |-> Detached(links[d][a][u])]]]
  /\ UNCHANGED <<docVars, erases, used, taken>>

\* The picture of user u as phone d's client answers it.
SeenPicture(d, u) == Overlay(links[d][auth[d]][u], profilePicURL[u])

Load(l) ==
  /\ AnswerLoad(l, SeenPicture(l.dev, l.email)) \/ LoadArrives(l) \/ LoadFails(l)
  /\ UNCHANGED <<docVars, puts, erases, lookups, links, used, taken>>

-----------------------------------------------------------------------------
(* storeProfilePic *)

\* The image picker returns: putData under a fresh UUID.
Pick(d, pic) ==
  /\ auth[d] # Nobody
  /\ pic \in Picture \ used
  /\ used' = used \cup {pic}
  /\ puts' = puts \cup {[pic |-> pic, dev |-> d, stored |-> FALSE]}
  /\ UNCHANGED <<sessionVars, docVars, erases, lookups, links, taken>>

\* Storage takes the image, and the callback asks for its URL.
PutDone(q) ==
  /\ ~q.stored
  /\ media' = media \cup {q.pic}
  /\ taken' = taken \cup {q.pic}
  /\ puts' = (puts \ {q}) \cup {[q EXCEPT !.stored = TRUE]}
  /\ UNCHANGED <<sessionVars, profilePicURL, erases, lookups, links, used>>

\* Mutant: the singleton is taken to have the new picture already.
UrlArrivesLate(q) ==
  /\ q.stored
  /\ puts' = puts \ {q}
  /\ erases' = erases \cup {q.pic}
  /\ lookups' = lookups \cup {[pic |-> q.pic, dev |-> q.dev, email |-> info[q.dev].email]}
  /\ UNCHANGED <<sessionVars, docVars, links, used, taken>>

\* The URL arrives: the picture the singleton names is deleted, and the
\* userInfo document of the singleton's email is looked up.
UrlArrives(q) ==
  LET old == info[q.dev].field
  IN  /\ q.stored
      /\ puts' = puts \ {q}
      /\ erases' = IF old = NoPicture THEN erases ELSE erases \cup {old}
      /\ lookups' = lookups \cup {[pic |-> q.pic, dev |-> q.dev, email |-> info[q.dev].email]}
      /\ UNCHANGED <<sessionVars, docVars, links, used, taken>>

\* Mutant: the failure of putData is shown, and the document looked up all the same.
PutFailsUnheeded(q) ==
  /\ puts' = puts \ {q}
  /\ lookups' = lookups \cup {[pic |-> q.pic, dev |-> q.dev, email |-> info[q.dev].email]}
  /\ UNCHANGED <<sessionVars, docVars, erases, links, used, taken>>

\* putData fails (an alert) or downloadURL does (silently).
PutFails(q) ==
  /\ puts' = puts \ {q}
  /\ UNCHANGED <<sessionVars, docVars, erases, lookups, links, used, taken>>

EraseDone(pic) ==
  /\ erases' = erases \ {pic}
  /\ media' = media \ {pic}
  /\ UNCHANGED <<sessionVars, profilePicURL, puts, lookups, links, used, taken>>

EraseFails(pic) ==
  /\ erases' = erases \ {pic}
  /\ UNCHANGED <<sessionVars, docVars, puts, lookups, links, used, taken>>

\* No document has the email "".
LookupArrives(q) ==
  LET w == [val |-> q.pic, attached |-> TRUE]
  IN  /\ lookups' = lookups \ {q}
      /\ links' = IF q.email = Nobody
                    THEN links
                    ELSE [links EXCEPT ![q.dev][auth[q.dev]][q.email] = Append(@, w)]
      /\ UNCHANGED <<sessionVars, docVars, puts, erases, used, taken>>

LookupFails(q) ==
  /\ lookups' = lookups \ {q}
  /\ UNCHANGED <<sessionVars, docVars, puts, erases, links, used, taken>>

\* Mutant: the singleton is forgotten.
NotShown(d, w) == UNCHANGED info

\* The completion of a link: the singleton follows.
Shown(d, w) == info' = IF w.attached THEN [info EXCEPT ![d].field = w.val] ELSE info

\* The backend applies the oldest write of profilePicURL; the phone hears of
\* it and the singleton follows, or the acknowledgement is lost.
CommitLink(d, u) ==
  LET queue == links[d][auth[d]][u]
      w     == Head(queue)
  IN  /\ queue # <<>>
      /\ profilePicURL' = [profilePicURL EXCEPT ![u] = w.val]
      /\ \/ /\ links' = [links EXCEPT ![d][auth[d]][u] = Tail(@)]
            /\ Shown(d, w)
         \/ UNCHANGED <<links, info>>
      /\ UNCHANGED <<auth, loads, appeared, media, puts, erases, lookups, used, taken>>

RejectLink(d, u) ==
  /\ links[d][auth[d]][u] # <<>>
  /\ links' = [links EXCEPT ![d][auth[d]][u] = Tail(@)]
  /\ UNCHANGED <<sessionVars, docVars, puts, erases, lookups, used, taken>>

-----------------------------------------------------------------------------
Next ==
  \/ \E d \in Device : ComeAndGo(d) \/ Restart(d) \/ \E pic \in Picture : Pick(d, pic)
  \/ \E l \in loads : Load(l)
  \/ \E q \in puts : PutDone(q) \/ UrlArrives(q) \/ PutFails(q)
  \/ \E pic \in erases : EraseDone(pic) \/ EraseFails(pic)
  \/ \E q \in lookups : LookupArrives(q) \/ LookupFails(q)
  \/ \E d \in Device, u \in User : CommitLink(d, u) \/ RejectLink(d, u)

Spec == Init /\ [][Next]_vars

-----------------------------------------------------------------------------
(* Properties *)

PutRecord    == [pic : Picture, dev : Device, stored : BOOLEAN]
LookupRecord == [pic : Picture, dev : Device, email : Email]
LinkRecord   == [val : Picture, attached : BOOLEAN]

TypeOK ==
  /\ SessionTypeOK(Picture \cup {NoPicture})
  /\ profilePicURL \in [User -> Picture \cup {NotSet}]
  /\ media \subseteq Picture
  /\ puts \subseteq PutRecord
  /\ erases \subseteq Picture
  /\ lookups \subseteq LookupRecord
  /\ links \in [Device -> [Account -> [User -> Seq(LinkRecord)]]]
  /\ used \subseteq Picture
  /\ taken \subseteq Picture

\* Pictures a profile links to, or a write on its way will link to.
Linked == {profilePicURL[u] : u \in User} \ {NotSet}
Pending ==
  UNION {{links[d][a][u][i].val : i \in DOMAIN links[d][a][u]} :
           d \in Device, a \in Account, u \in User}
Singletons == {info[d].field : d \in Device} \ {NoPicture}

\* "must store profile picture in firebase storage" (profileVC.swift): no
\* profile links to a picture that Storage has not taken, no write on its way
\* will link to one and no phone shows one, whatever requests of other uploads,
\* phones or sessions finish in between, also once its putData has failed or was
\* cut off by a restart.
LinkedAfterStored == Linked \cup Pending \cup Singletons \subseteq taken

\* A picture on its way to a profile is not deleted: a delete is only sent for
\* one that was linked, or queued to be, by an upload that ran to its end.
NeverErasesUnlinked ==
  \A q \in puts \cup lookups : q.pic \notin erases

\* Nothing is outstanding on any phone or in Storage.
AllQuiet ==
  /\ loads = {} /\ puts = {} /\ erases = {} /\ lookups = {}
  /\ \A d \in Device, a \in Account, u \in User : links[d][a][u] = <<>>

\* "must store profile picture in firebase storage" (profileVC.swift): when
\* nothing is outstanding, the picture a profile links to is in Storage.
LinkedIsStored == AllQuiet => Linked \subseteq media

\* "if user has profile pic already - delete it from storage" (profileVC.swift):
\* when nothing is outstanding, no picture that was replaced is in Storage.
ReplacedIsErased == AllQuiet => media \subseteq Linked

=============================================================================
