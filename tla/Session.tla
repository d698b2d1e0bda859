------------------------------- MODULE Session -------------------------------
(***************************************************************************)
(* Signed-in accounts and the UserSingleton of each phone.                 *)
(*                                                                         *)
(* Every appearance of the map clears the singleton and sends a query for  *)
(* the current user's userInfo document; the callback fills the singleton  *)
(* in (mapVC.getUserInfo).  Signing out leaves both the singleton and the  *)
(* query as they are.  The query is answered by the backend some time      *)
(* after it is sent and its callback runs some time after that.            *)
(*                                                                         *)
(* Of the singleton's fields the module keeps the email and one other,     *)
(* called field, which the component that extends this module names; all   *)
(* its actions are conjoined there with what they do to the rest.          *)
(***************************************************************************)
EXTENDS Integers

CONSTANTS
  Device,   \* phones running the app
  User,     \* accounts, each identified by its email
  Nobody,   \* no current user; also the cleared singleton's email ""
  Initial,  \* value of the field in a cleared singleton
  NotSet,   \* a userInfo document without the field
  MaxLoads  \* bound on appearances of the map (getUserInfo calls)

ASSUME SessionAssumption ==
  /\ Nobody \notin User
  /\ MaxLoads \in Nat

VARIABLES
  auth,     \* Auth.auth().currentUser of each phone
  info,     \* UserSingleton.sharedUserInfo of each phone
  loads,    \* getUserInfo queries whose callback has not run
  appeared  \* getUserInfo calls so far (numbers them)

sessionVars == <<auth, info, loads, appeared>>

Account == User \cup {Nobody}

\* Field initialisers of UserSingleton, restored by getUserInfo.
ClearedInfo == [email |-> Nobody, field |-> Initial]

SessionInit ==
  /\ auth = [d \in Device |-> Nobody]
  /\ info = [d \in Device |-> ClearedInfo]
  /\ loads = {}
  /\ appeared = 0

\* getUserInfo for user u, with the queries in others outstanding.
GetUserInfo(d, u, others) ==
  /\ appeared < MaxLoads
  /\ appeared' = appeared + 1
  /\ info' = [info EXCEPT ![d] = ClearedInfo]
  /\ loads' = others \cup {[n |-> appeared, dev |-> d, email |-> u,
                            answered |-> FALSE, field |-> NotSet]}

\* Signing in succeeds and the segue to the tab bar shows the map.
SignIn(d, u) ==
  /\ auth[d] = Nobody
  /\ auth' = [auth EXCEPT ![d] = u]
  /\ GetUserInfo(d, u, loads)

\* The map becomes visible again.
MapAppears(d) ==
  /\ auth[d] # Nobody
  /\ GetUserInfo(d, auth[d], loads)
  /\ UNCHANGED auth

SignOut(d) ==
  /\ auth[d] # Nobody
  /\ auth' = [auth EXCEPT ![d] = Nobody]
  /\ UNCHANGED <<info, loads, appeared>>

\* The app is killed and started again; a signed-in user lands on the map.
Relaunch(d) ==
  LET others == {l \in loads : l.dev # d}
  IN  /\ UNCHANGED auth
      /\ \/ /\ auth[d] = Nobody
            /\ info' = [info EXCEPT ![d] = ClearedInfo]
            /\ loads' = others
            /\ UNCHANGED appeared
         \/ /\ auth[d] # Nobody
            /\ GetUserInfo(d, auth[d], others)

\* The backend answers with a document in which the field has value seen.
AnswerLoad(l, seen) ==
  /\ ~l.answered
  /\ loads' = (loads \ {l}) \cup {[l EXCEPT !.answered = TRUE, !.field = seen]}
  /\ UNCHANGED <<auth, info, appeared>>

\* Mutant: an absent field is not noticed.
LoadArrivesUnchecked(l) ==
  /\ l.answered
  /\ loads' = loads \ {l}
  /\ info' = [info EXCEPT ![l.dev].email = l.email, ![l.dev].field = l.field]
  /\ UNCHANGED <<auth, appeared>>

\* Mutant: the answer for another user is left for later.
LoadArrivesForCurrent(l) ==
  /\ l.answered
  /\ l.email = auth[l.dev]
  /\ loads' = loads \ {l}
  /\ info' = [info EXCEPT ![l.dev].email = l.email,
                          ![l.dev].field = IF l.field = NotSet THEN @ ELSE l.field]
  /\ UNCHANGED <<auth, appeared>>

\* The callback fills the singleton; an absent field leaves the value it has.
LoadArrives(l) ==
  /\ l.answered
  /\ loads' = loads \ {l}
  /\ info' = [info EXCEPT ![l.dev].email = l.email,
                          ![l.dev].field = IF l.field = NotSet THEN @ ELSE l.field]
  /\ UNCHANGED <<auth, appeared>>

\* An error, or an empty result: the singleton stays as it is.
LoadFails(l) ==
  /\ ~l.answered
  /\ loads' = loads \ {l}
  /\ UNCHANGED <<auth, info, appeared>>

-----------------------------------------------------------------------------
\* Types, for a field with values in Value.
Email == Account

LoadRecord(Value) ==
  [n : Nat, dev : Device, email : User, answered : BOOLEAN, field : Value \cup {NotSet}]

SessionTypeOK(Value) ==
  /\ auth \in [Device -> Account]
  /\ info \in [Device -> [email : Email, field : Value]]
  /\ loads \subseteq LoadRecord(Value)
  /\ appeared \in 0..MaxLoads

-----------------------------------------------------------------------------
\* For the proofs: no singleton has, and no answer brings, a number above b.
FieldsWithin(b) ==
  /\ \A d \in Device : info[d].field <= b
  /\ \A l \in loads : l.field # NotSet => l.field <= b
=============================================================================
