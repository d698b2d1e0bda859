------------------------------- MODULE Accounts -------------------------------
(***************************************************************************)
(* Accounts: signing up, logging in, changing email, password or username, *)
(* and deleting the account (signUpVC, logInVC, editAccountVC, settingsVC, *)
(* SceneDelegate).                                                         *)
(*                                                                         *)
(* Everything about an account is kept twice: Firebase Auth has its email  *)
(* and password, and a userInfo document of Firestore has them again with  *)
(* the username.  The two are changed by separate requests, the second     *)
(* sent by the callback of the first (or, for a deletion, beside it), and  *)
(* the document is found by its email.  Callbacks read the text fields     *)
(* again, so a document may get another text than Auth did.                *)
(*                                                                         *)
(* A phone's Firestore writes form one queue per signed-in account, which  *)
(* is sent only while that account is signed in and survives a restart.    *)
(***************************************************************************)
EXTENDS Integers, FiniteSets, SequencesExt

CONSTANTS
  Device,       \* phones running the app
  MaxAccounts,  \* bound on accounts ever created
  Email, Password, Username,  \* what users type into the text fields
  Empty,        \* an empty text field; the cleared singleton
  Absent,       \* a field that a document or a request does not have
  Retypes,      \* requests during which users go on editing the text fields
  MaxClicks     \* bound on what users do

ASSUME AccountsAssumption ==
  /\ MaxAccounts \in Nat
  /\ Absent \notin Email \cup Password \cup Username \cup {Empty}
  /\ Empty \notin Email \cup Password \cup Username
  /\ Retypes \subseteq {"create", "email", "password", "username"}
  /\ MaxClicks \in Nat

VARIABLES
  accounts,      \* Auth's record of each account
  created,       \* accounts created so far
  userInfo,      \* the userInfo document of each account, on the server
  currentUser,   \* Auth.auth().currentUser of each phone
  currentEmail,  \* and the email it has there
  info,          \* UserSingleton.sharedUserInfo of each phone: email, username
  calls,         \* Auth requests whose callback has not run
  queries,       \* userInfo queries whose callback has not run
  writes,        \* queued writes to userInfo, per phone and account
  clicks,        \* user actions so far (numbers requests)
  held           \* history: every email and password that Auth has had

authVars  == <<accounts, created, held>>
phoneVars == <<currentUser, currentEmail, info>>
vars == <<authVars, phoneVars, userInfo, calls, queries, writes, clicks>>

Account == 1..MaxAccounts
Nobody  == 0
Field   == {"email", "password", "username"}
Credential == {"email", "password"}

TextOf  == [email |-> Email, password |-> Password, username |-> Username]
Text    == Email \cup Password \cup Username \cup {Empty}

NoAccount   == [f \in Credential |-> Absent]
NoDocument  == [f \in Field |-> Absent]
ClearedInfo == [email |-> Empty, username |-> Empty]

\* The texts of some fields of a document or request; the rest are Absent.
Form(texts) == [f \in Field |-> IF f \in DOMAIN texts THEN texts[f] ELSE Absent]

\* What the text fields may hold when a callback reads them again.
Reread(kind, form) ==
  {g \in [Field -> Text \cup {Absent}] : \A f \in Field :
     \/ g[f] = form[f]
     \/ kind \in Retypes /\ form[f] # Absent /\ g[f] \in TextOf[f] \cup {Empty}}

\* setData(merge: true): fields of the form replace those of the document.
Merge(old, form) ==
  [f \in DOMAIN old |-> IF form[f] = Absent THEN old[f] ELSE form[f]]

-----------------------------------------------------------------------------
(* Firestore: queued writes and queries *)

\* The documents after write w.
Apply(docs, w) ==
  [docs EXCEPT ![w.doc] = IF w.erase THEN NoDocument ELSE Merge(@, w.form)]

\* Write w decides what field f of u's document is.
Decides(w, u, f) == w.doc = u /\ (w.erase \/ w.form[f] # Absent)

\* The documents as phone d's client answers them, with all its pending writes
\* applied: each field is what the last write says that decides it.
Seen(d) ==
  LET queue == writes[d][currentUser[d]]
      Deciding(u, f) == {i \in DOMAIN queue : Decides(queue[i], u, f)}
  IN  [u \in Account |-> [f \in Field |->
         IF Deciding(u, f) = {} THEN userInfo[u][f] ELSE queue[Max(Deciding(u, f))].form[f]]]

\* Phone d queues writes for user u, who is signed in.
Enqueue(d, u, ws) == writes' = [writes EXCEPT ![d][u] = @ \o ws]

SetData(doc, form, attached) ==
  [doc |-> doc, form |-> form, erase |-> FALSE, attached |-> attached]

Delete(doc) == [doc |-> doc, form |-> NoDocument, erase |-> TRUE, attached |-> FALSE]

Query(d, kind, email, form) ==
  [n |-> clicks, dev |-> d, kind |-> kind, email |-> email, form |-> form,
   answered |-> FALSE, found |-> {}, name |-> Absent]

\* getUserInfo: the singleton is cleared and a query sent for email.
LoadQuery(d, email) == Query(d, "load", email, NoDocument)

\* The backend applies the oldest write of the signed-in user.  Either the
\* phone hears of it, and the completion of a username edit reads the text
\* field once more for the singleton; or the acknowledgement is lost.
CommitWrite(d) ==
  LET queue == writes[d][currentUser[d]]
      w     == Head(queue)
  IN  /\ queue # <<>>
      /\ userInfo' = Apply(userInfo, w)
      /\ \/ /\ writes' = [writes EXCEPT ![d][currentUser[d]] = Tail(@)]
            /\ IF w.attached
                 THEN \E form \in Reread("username", w.form) :
                        info' = [info EXCEPT ![d].username = form["username"]]
                 ELSE UNCHANGED info
         \/ UNCHANGED <<writes, info>>
      /\ UNCHANGED <<authVars, currentUser, currentEmail, calls, queries, clicks>>

\* A permanent error: an alert.
RejectWrite(d) ==
  /\ writes[d][currentUser[d]] # <<>>
  /\ writes' = [writes EXCEPT ![d][currentUser[d]] = Tail(@)]
  /\ UNCHANGED <<authVars, phoneVars, userInfo, calls, queries, clicks>>

\* A query finds the documents with its email.  Of several documents the last
\* one with a username decides what getUserInfo shows, and their order is open.
AnswerQuery(q) ==
  LET found == {u \in Account : Seen(q.dev)[u]["email"] = q.email}
      names == {Seen(q.dev)[u]["username"] : u \in found} \ {Absent}
  IN  /\ ~q.answered
      /\ \E name \in IF names = {} THEN {Absent} ELSE names :
           queries' = (queries \ {q}) \cup
             {[q EXCEPT !.answered = TRUE, !.found = found, !.name = name]}
      /\ UNCHANGED <<authVars, phoneVars, userInfo, calls, writes, clicks>>

QueryFails(q) ==
  /\ ~q.answered
  /\ queries' = queries \ {q}
  /\ UNCHANGED <<authVars, phoneVars, userInfo, calls, writes, clicks>>

-----------------------------------------------------------------------------
(* Callbacks of queries *)

\* Mutant: a missing username is not noticed.
LoadReturnsUnchecked(q) ==
  /\ q.kind = "load"
  /\ info' = [info EXCEPT ![q.dev] = [email |-> q.email, username |-> q.name]]
  /\ UNCHANGED <<currentUser, writes>>

\* Mutant: only the email is filled in.
LoadReturnsEmail(q) ==
  /\ q.kind = "load"
  /\ info' = [info EXCEPT ![q.dev].email = q.email]
  /\ UNCHANGED <<currentUser, writes>>

\* getUserInfo fills the singleton in, if the document has both names.
LoadReturns(q) ==
  /\ q.kind = "load"
  /\ info' = IF q.name = Absent THEN info
             ELSE [info EXCEPT ![q.dev] = [email |-> q.email, username |-> q.name]]
  /\ UNCHANGED <<currentUser, writes>>

\* updateClicked: the one document with the email is written, none if there are
\* more.  The username's text field is still on the screen; those of an email
\* or a password were dismissed before.
EditReturns(q) ==
  /\ q.kind \in Field
  /\ \E form \in IF q.kind = "username" THEN Reread(q.kind, q.form) ELSE {q.form} :
       Enqueue(q.dev, currentUser[q.dev],
               IF Cardinality(q.found) # 1 THEN <<>>
               ELSE <<SetData(CHOOSE u \in q.found : TRUE, form, q.kind = "username")>>)
  /\ UNCHANGED <<currentUser, info>>

\* deleteAccountClicked: every document with the email is deleted.
EraseReturns(q) ==
  /\ q.kind = "delete"
  /\ Enqueue(q.dev, currentUser[q.dev],
             [i \in 1..Cardinality(q.found) |-> Delete(SetToSeq(q.found)[i])])
  /\ UNCHANGED <<currentUser, info>>

QueryReturns(q) ==
  /\ q.answered
  /\ LoadReturns(q) \/ EditReturns(q) \/ EraseReturns(q)
  /\ queries' = queries \ {q}
  /\ UNCHANGED <<authVars, currentEmail, userInfo, calls, clicks>>

-----------------------------------------------------------------------------
(* Firebase Auth *)

Unused(email) == \A u \in Account : accounts[u]["email"] # email

\* Auth takes call c, which is about account u.
Accepts(c, u) ==
  CASE c.kind = "create" -> u = created + 1 /\ Unused(c.form["email"])
    [] c.kind = "signIn" -> accounts[u] = [f \in Credential |-> c.form[f]]
    [] c.kind = "email"  -> /\ u = c.account /\ accounts[u] # NoAccount
                            /\ Unused(c.form["email"])
    [] OTHER -> u = c.account /\ accounts[u] # NoAccount

\* The call is carried out; its answer may be lost on the way back.
AuthAccepts(c) ==
  /\ c.answer = "none"
  /\ \E u \in Account, answer \in {"ok", "error"} :
       /\ Accepts(c, u)
       /\ accounts' = [accounts EXCEPT ![u] =
                         IF c.kind = "delete" THEN NoAccount ELSE Merge(@, c.form)]
       /\ created' = IF c.kind = "create" THEN u ELSE created
       /\ calls' = (calls \ {c}) \cup {[c EXCEPT !.answer = answer, !.account = u]}
  /\ held' = held \cup {c.form[f] : f \in Credential}
  /\ UNCHANGED <<phoneVars, userInfo, queries, writes, clicks>>

\* The email is taken, the credentials are wrong, the login is too old, ...
AuthRefuses(c) ==
  /\ c.answer = "none"
  /\ calls' = (calls \ {c}) \cup {[c EXCEPT !.answer = "error"]}
  /\ UNCHANGED <<authVars, phoneVars, userInfo, queries, writes, clicks>>

-----------------------------------------------------------------------------
(* Callbacks of Auth calls *)

\* The user is signed in on phone d, and the segue shows the map.
Enter(d, u, email) ==
  /\ currentUser'  = [currentUser EXCEPT ![d] = u]
  /\ currentEmail' = [currentEmail EXCEPT ![d] = email]
  /\ info' = [info EXCEPT ![d] = ClearedInfo]
  /\ queries' = queries \cup {LoadQuery(d, email)}

\* The userInfo document gets the texts that the text fields hold by now.
SignedUp(c) ==
  /\ c.kind = "create"
  /\ Enter(c.dev, c.account, c.form["email"])
  /\ \E form \in Reread(c.kind, c.form) :
       Enqueue(c.dev, c.account, <<SetData(c.account, form, FALSE)>>)

LoggedIn(c) ==
  /\ c.kind = "signIn"
  /\ Enter(c.dev, c.account, c.form["email"])
  /\ UNCHANGED writes

\* The document is looked up by the email at the click; the singleton takes
\* the text field as it is now; the screen goes.
EmailUpdated(c) ==
  LET d == c.dev
  IN  /\ c.kind = "email"
      /\ currentEmail' = IF currentUser[d] = c.account
                           THEN [currentEmail EXCEPT ![d] = c.form["email"]]
                           ELSE currentEmail
      /\ \E form \in Reread(c.kind, c.form) :
           /\ info' = [info EXCEPT ![d].email = form["email"]]
           /\ queries' = queries \cup {Query(d, "email", c.old, form)}
      /\ UNCHANGED <<currentUser, writes>>

\* The document is looked up by the email of whoever is signed in.
PasswordUpdated(c) ==
  /\ c.kind = "password"
  /\ currentUser[c.dev] # Nobody
  /\ \E form \in Reread(c.kind, c.form) :
       queries' = queries \cup {Query(c.dev, "password", currentEmail[c.dev], form)}
  /\ UNCHANGED <<currentUser, currentEmail, info, writes>>

AccountDeleted(c) ==
  /\ c.kind = "delete"
  /\ currentUser' = [currentUser EXCEPT ![c.dev] = IF @ = c.account THEN Nobody ELSE @]
  /\ UNCHANGED <<currentEmail, info, queries, writes>>

\* Mutant: the error of an email change is not looked at.
AlertedAfterUpdate(c) ==
  /\ c.answer = "error"
  /\ EmailUpdated(c) \/ (c.kind # "email" /\ UNCHANGED <<phoneVars, queries, writes>>)

\* An error is an alert.
Alerted(c) == c.answer = "error" /\ UNCHANGED <<phoneVars, queries, writes>>

CallReturns(c) ==
  /\ \/ /\ c.answer = "ok"
        /\ \/ SignedUp(c) \/ LoggedIn(c) \/ EmailUpdated(c)
           \/ PasswordUpdated(c) \/ AccountDeleted(c)
     \/ Alerted(c)
  /\ calls' = calls \ {c}
  /\ UNCHANGED <<authVars, userInfo, clicks>>

-----------------------------------------------------------------------------
(* What users do *)

Click == clicks < MaxClicks /\ clicks' = clicks + 1

\* Mutant: the document is going to be looked up by the new email.
CallForgetsOldEmail(d, kind, form) ==
  calls' = calls \cup {[n |-> clicks, dev |-> d, kind |-> kind, form |-> form, answer |-> "none",
                        account |-> currentUser[d], old |-> form["email"]]}

\* An Auth call, with what its callback captures: the email of before.
Call(d, kind, form) ==
  calls' = calls \cup {[n |-> clicks, dev |-> d, kind |-> kind, form |-> form, answer |-> "none",
                        account |-> currentUser[d], old |-> currentEmail[d]]}

SignUpClicked(d) ==
  /\ Click
  /\ currentUser[d] = Nobody
  /\ \E e \in Email, p \in Password, n \in Username :
       Call(d, "create", Form([email |-> e, password |-> p, username |-> n]))
  /\ UNCHANGED <<authVars, phoneVars, userInfo, queries, writes>>

LogInClicked(d) ==
  /\ Click
  /\ currentUser[d] = Nobody
  /\ \E e \in Email, p \in Password :
       Call(d, "signIn", Form([email |-> e, password |-> p]))
  /\ UNCHANGED <<authVars, phoneVars, userInfo, queries, writes>>

\* updateClicked for an email or a password.
UpdateClicked(d) ==
  /\ Click
  /\ currentUser[d] # Nobody
  /\ \E f \in Credential : \E text \in TextOf[f] : Call(d, f, Form([g \in {f} |-> text]))
  /\ UNCHANGED <<authVars, phoneVars, userInfo, queries, writes>>

\* updateClicked for a username: no Auth call, and no check of the text.
UpdateNameClicked(d) ==
  /\ Click
  /\ currentUser[d] # Nobody
  /\ \E text \in Username \cup {Empty} :
       queries' = queries \cup
         {Query(d, "username", currentEmail[d], Form([username |-> text]))}
  /\ UNCHANGED <<authVars, phoneVars, userInfo, calls, writes>>

\* Two requests side by side: the document's deletion and the account's.
DeleteAccountClicked(d) ==
  /\ Click
  /\ currentUser[d] # Nobody
  /\ queries' = queries \cup {Query(d, "delete", currentEmail[d], NoDocument)}
  /\ Call(d, "delete", NoDocument)
  /\ UNCHANGED <<authVars, phoneVars, userInfo, writes>>

LogOutClicked(d) ==
  /\ currentUser[d] # Nobody
  /\ currentUser' = [currentUser EXCEPT ![d] = Nobody]
  /\ UNCHANGED <<authVars, currentEmail, info, userInfo, calls, queries, writes, clicks>>

MapAppears(d) ==
  /\ Click
  /\ currentUser[d] # Nobody
  /\ info' = [info EXCEPT ![d] = ClearedInfo]
  /\ queries' = queries \cup {LoadQuery(d, currentEmail[d])}
  /\ UNCHANGED <<authVars, currentUser, currentEmail, userInfo, calls, writes>>

\* A signed-in user lands on the map.  Requests that were carried out stay so;
\* their callbacks are gone.
Restarted(d) ==
  /\ info' = [info EXCEPT ![d] = ClearedInfo]
  /\ calls' = {c \in calls : c.dev # d}
  /\ queries' = {q \in queries : q.dev # d} \cup
       {LoadQuery(e, currentEmail[e]) : e \in {x \in {d} : currentUser[x] # Nobody}}
  /\ writes' = [writes EXCEPT ![d] = [u \in Account \cup {Nobody} |->
                  [i \in DOMAIN @[u] |-> [@[u][i] EXCEPT !.attached = FALSE]]]]
  /\ UNCHANGED <<authVars, currentUser, currentEmail, userInfo>>

\* The app is killed and started again.
Relaunch(d) == Click /\ Restarted(d)

\* currentUser! stops the app when its user logged out before the callback.
PasswordCrashes(c) ==
  /\ c.kind = "password" /\ c.answer = "ok"
  /\ currentUser[c.dev] = Nobody
  /\ Restarted(c.dev)
  /\ UNCHANGED clicks

-----------------------------------------------------------------------------
Init ==
  /\ accounts = [u \in Account |-> NoAccount]
  /\ created = 0
  /\ held = {}
  /\ userInfo = [u \in Account |-> NoDocument]
  /\ currentUser = [d \in Device |-> Nobody]
  /\ currentEmail = [d \in Device |-> Empty]
  /\ info = [d \in Device |-> ClearedInfo]
  /\ calls = {} /\ queries = {}
  /\ writes = [d \in Device |-> [u \in Account \cup {Nobody} |-> <<>>]]
  /\ clicks = 0

ClickStep(d) ==
  \/ SignUpClicked(d) \/ LogInClicked(d) \/ MapAppears(d)
  \/ UpdateClicked(d) \/ UpdateNameClicked(d)

AnyClick == \E d \in Device : ClickStep(d) \/ DeleteAccountClicked(d) \/ Relaunch(d)

Reaction ==
  \/ \E d \in Device : LogOutClicked(d) \/ CommitWrite(d) \/ RejectWrite(d)
  \/ \E c \in calls : AuthAccepts(c) \/ AuthRefuses(c) \/ CallReturns(c) \/ PasswordCrashes(c)
  \/ \E q \in queries : AnswerQuery(q) \/ QueryReturns(q) \/ QueryFails(q)

Next == AnyClick \/ Reaction

Spec == Init /\ [][Next]_vars

-----------------------------------------------------------------------------
(* Properties *)

Forms == [Field -> Text \cup {Absent}]

CallRecord == [n : Nat, dev : Device, kind : {"create", "signIn", "delete"} \cup Credential,
               form : Forms, answer : {"none", "ok", "error"},
               account : Account \cup {Nobody}, old : Email \cup {Empty}]

QueryRecord == [n : Nat, dev : Device, kind : {"load", "delete"} \cup Field,
                email : Email, form : Forms, answered : BOOLEAN,
                found : SUBSET Account, name : Text \cup {Absent}]

WriteRecord == [doc : Account, form : Forms, erase : BOOLEAN, attached : BOOLEAN]

\* Every request looks for, and every screen shows, something that can be an
\* email: the forced unwraps of currentUser!.email! find one.
TypeOK ==
  /\ accounts \in [Account -> [Credential -> Text \cup {Absent}]]
  /\ created \in 0..MaxAccounts
  /\ userInfo \in [Account -> Forms]
  /\ currentUser \in [Device -> Account \cup {Nobody}]
  /\ currentEmail \in [Device -> Email \cup {Empty}]
  /\ info \in [Device -> [email : Email \cup {Empty}, username : Username \cup {Empty}]]
  /\ calls \subseteq CallRecord
  /\ queries \subseteq QueryRecord
  /\ writes \in [Device -> [Account \cup {Nobody} -> Seq(WriteRecord)]]
  /\ clicks \in 0..MaxClicks
  /\ held \subseteq Text \cup {Absent}

\* Auth is changed first and the document follows: where users leave the email
\* and password fields alone, no document holds an email or a password that
\* Auth never accepted, whatever requests fail, cross or are cut off
\* (signUpVC.signUpClicked, editAccountVC.updateClicked).
NeverAheadOfAuth ==
  \A u \in Account, f \in Credential : userInfo[u][f] \in held \cup {Absent}

\* Nothing is outstanding but writes of deleted accounts, which no phone is
\* signed in to and which are never sent.
Settled ==
  /\ calls = {} /\ queries = {}
  /\ \A d \in Device, u \in Account \cup {Nobody} :
       writes[d][u] # <<>> => u # Nobody /\ accounts[u] = NoAccount /\ currentUser[d] # u

\* "update database of users" (settingsVC.deleteAccountClicked): when everything
\* is settled, a deleted account has no document.
NoOrphans ==
  Settled => \A u \in Account : accounts[u] = NoAccount => userInfo[u] = NoDocument
=============================================================================
