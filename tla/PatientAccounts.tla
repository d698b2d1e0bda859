--------------------------- MODULE PatientAccounts ---------------------------
(***************************************************************************)
(* The conditions under which Auth and userInfo agree.                     *)
(*                                                                         *)
(* A history of Accounts is patient when users act only when everything is *)
(* settled and leave the text fields alone meanwhile, with each account    *)
(* signed in on one phone at a time, no phone restarting and no request    *)
(* failing that could succeed, on a backend that takes writes of signed-in *)
(* users only.  The specification Histories has both kinds, told apart by  *)
(* the variable patient; its patient users keep their accounts.  In        *)
(* DeletingSpec all are patient and may delete them.                       *)
(***************************************************************************)
EXTENDS Accounts

CONSTANT HastyClicks  \* bound on what users do in histories that are not patient
ASSUME HastyAssumption == HastyClicks \in Nat

VARIABLE patient  \* history: whether the users of this history wait

OnePhoneEach ==
  \A d, e \in Device : currentUser[d] = currentUser[e] => d = e \/ currentUser[d] = Nobody

PatientClick == Settled /\ \E d \in Device : ClickStep(d) \/ LogOutClicked(d)

AuthStep(c) ==
  \/ AuthAccepts(c) /\ \A k \in calls' : k.answer = "ok"
  \/ AuthRefuses(c) /\ \A u \in Account : ~Accepts(c, u)
  \/ CallReturns(c)

\* What the text field holds at the completion is what was written, ...
CommitTyped(d) ==
  /\ currentUser[d] # Nobody
  /\ CommitWrite(d)
  /\ LET w == Head(writes[d][currentUser[d]])
     IN  w.attached /\ writes' # writes => info'[d].username = w.form["username"]

\* ... and what it holds when the lookup is answered is what was clicked.
QueryStep(q) ==
  \/ AnswerQuery(q)
  \/ /\ QueryReturns(q)
     /\ q.kind = "username" =>
          \A d \in Device, u \in Account :
            writes'[d][u] # writes[d][u] => Last(writes'[d][u]).form = q.form

PatientStep ==
  /\ \/ PatientClick
     \/ \E d \in Device : CommitTyped(d)
     \/ \E c \in calls : AuthStep(c)
     \/ \E q \in queries : QueryStep(q)
  /\ OnePhoneEach'

Step ==
  \/ patient /\ PatientStep /\ UNCHANGED patient
  \/ ~patient /\ clicks < HastyClicks /\ AnyClick /\ UNCHANGED patient
  \/ ~patient /\ Reaction /\ UNCHANGED patient

EitherInit == Init /\ patient \in BOOLEAN

Histories == EitherInit /\ [][Step]_<<vars, patient>>

DeletingStep ==
  /\ \/ PatientStep
     \/ Settled /\ \E d \in Device : DeleteAccountClicked(d)
  /\ UNCHANGED patient

DeletingInit == Init /\ patient = TRUE

DeletingSpec == DeletingInit /\ [][DeletingStep]_<<vars, patient>>

\* "must update correct auth and userInfo fields" (editAccountVC.updateClicked):
\* when everything is settled, the document has the account's email and password.
MatchesAuth ==
  patient /\ Settled => \A u \in Account : accounts[u] # NoAccount =>
    \A f \in Credential : userInfo[u][f] = accounts[u][f]

\* "return to settingsVC and update userSingleton" (editAccountVC.updateClicked):
\* when everything is settled, the singleton has the email and the username of
\* the user's document, also after edits and other users of the phone.
SingletonMatches ==
  patient /\ Settled => \A d \in Device : currentUser[d] # Nobody =>
    LET doc == userInfo[currentUser[d]]
    IN  info[d] = [email |-> doc["email"], username |-> doc["username"]]
=============================================================================
