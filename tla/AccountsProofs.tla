--------------------------- MODULE AccountsProofs ---------------------------
(***************************************************************************)
(* Proofs about Accounts and PatientAccounts, for any sets of phones,      *)
(* emails, passwords and usernames and any number of accounts and clicks.  *)
(***************************************************************************)
EXTENDS PatientAccounts, FiniteSetTheorems, WellFoundedInduction, TLAPS

(* Type correctness *)

\* What a field may hold, in a document or a request.
Holds(f) == TextOf[f] \cup {Empty, Absent}

GoodForms == {g \in Forms : \A f \in Field : g[f] \in Holds(f)}

GoodCalls ==
  {c \in CallRecord :
     /\ c.form \in GoodForms
     /\ c.kind \in {"create", "signIn", "email"} => c.form["email"] \in Email
     /\ c.kind = "email" => c.old \in Email
     /\ c.answer = "ok" => c.account \in Account}

GoodQueries ==
  {q \in QueryRecord :
     /\ q.form \in GoodForms
     /\ q.name \in Username \cup {Empty, Absent}
     /\ q.kind = "username" => q.form["username"] # Absent}

GoodWrites ==
  {w \in WriteRecord : w.form \in GoodForms /\ (w.attached => w.form["username"] # Absent)}

AuthTyped ==
  /\ accounts \in [Account -> [Credential -> Text \cup {Absent}]]
  /\ created \in 0..MaxAccounts
  /\ held \subseteq Text \cup {Absent}

PhoneTyped ==
  /\ currentUser \in [Device -> Account \cup {Nobody}]
  /\ currentEmail \in [Device -> Email \cup {Empty}]
  /\ info \in [Device -> [email : Email \cup {Empty}, username : Username \cup {Empty}]]
  /\ \A d \in Device : currentUser[d] # Nobody => currentEmail[d] \in Email

Queues == [Device -> [Account \cup {Nobody} -> Seq(GoodWrites)]]

\* What makes TypeOK inductive: each text is one of its field, whoever is signed
\* in has an email, and so has every request that looks an account up.
Typed ==
  /\ AuthTyped
  /\ PhoneTyped
  /\ userInfo \in [Account -> GoodForms]
  /\ calls \subseteq GoodCalls
  /\ queries \subseteq GoodQueries
  /\ writes \in Queues
  /\ clicks \in 0..MaxClicks

LEMMA Fields ==
  /\ "email" \in Field /\ "password" \in Field /\ "username" \in Field
  /\ "email" \in Credential /\ "password" \in Credential
  /\ \A f \in Field : f = "email" \/ f = "password" \/ f = "username"
  /\ \A f \in Credential : f = "email" \/ f = "password"
  /\ Credential \subseteq Field
BY DEF Field, Credential

LEMMA FieldTexts ==
  /\ TextOf["email"] = Email /\ TextOf["password"] = Password /\ TextOf["username"] = Username
  /\ \A f \in Field : TextOf[f] \subseteq Text /\ Holds(f) \subseteq Text \cup {Absent}
  /\ Holds("email") = Email \cup {Empty, Absent}
  /\ Holds("password") = Password \cup {Empty, Absent}
  /\ Holds("username") = Username \cup {Empty, Absent}
<1>1. TextOf["email"] = Email /\ TextOf["password"] = Password /\ TextOf["username"] = Username
  BY DEF TextOf
<1> QED
  BY <1>1, Fields DEF Text, Holds

LEMMA Constants ==
  /\ Absent \notin Email /\ Absent \notin Password /\ Absent \notin Username /\ Absent # Empty
  /\ MaxAccounts \in Nat /\ MaxClicks \in Nat
  /\ Account \subseteq Nat /\ Nobody \notin Account /\ IsFiniteSet(Account)
<1>1. IsFiniteSet(1..MaxAccounts)
  BY AccountsAssumption, FS_Interval
<1> QED
  BY <1>1, AccountsAssumption DEF Account, Nobody

\* Texts that are read again stay texts of their fields, and of the same fields.
LEMMA RereadGood ==
  ASSUME NEW kind, NEW form \in GoodForms, NEW g \in Reread(kind, form)
  PROVE  /\ g \in GoodForms
         /\ \A f \in Field : g[f] = Absent <=> form[f] = Absent
         /\ kind \notin Retypes => g = form
<1>1. g \in Forms /\ form \in Forms /\ \A f \in Field : form[f] \in Holds(f)
  BY DEF Reread, Forms, GoodForms
<1>2. \A f \in Field :
        \/ g[f] = form[f]
        \/ kind \in Retypes /\ form[f] # Absent /\ g[f] \in TextOf[f] \cup {Empty}
  BY DEF Reread
<1>3. \A f \in Field : Absent \notin TextOf[f] \cup {Empty}
  BY Constants, Fields, FieldTexts
<1>4. g \in GoodForms
  BY <1>1, <1>2 DEF GoodForms, Holds
<1>5. kind \notin Retypes => g = form
  BY <1>1, <1>2 DEF Forms
<1> QED
  BY <1>2, <1>3, <1>4, <1>5

LEMMA MergeGood ==
  ASSUME NEW old \in GoodForms, NEW form \in GoodForms
  PROVE  Merge(old, form) \in GoodForms
<1>1. old \in Forms /\ DOMAIN old = Field
  BY DEF GoodForms, Forms
<1>2. \A f \in Field : (IF form[f] = Absent THEN old[f] ELSE form[f]) \in Holds(f)
  BY DEF GoodForms
<1> QED
  BY <1>1, <1>2, FieldTexts DEF Merge, GoodForms, Forms

LEMMA NothingGood == NoDocument \in GoodForms
BY FieldTexts DEF NoDocument, GoodForms, Forms, Holds

\* A non-empty set of positions has a last one.
LEMMA MaxOf ==
  ASSUME NEW n \in Nat, NEW S \in SUBSET (1..n), S # {}
  PROVE  Max(S) \in S
<1> DEFINE T == {k \in Nat : k <= n /\ n - k \in S}
<1>1. T \in SUBSET Nat /\ T # {}
  <2>1. PICK x \in S : TRUE
    OBVIOUS
  <2>2. n - x \in Nat /\ n - x <= n /\ n - (n - x) = x
    BY <2>1
  <2> QED
    BY <2>1, <2>2
<1>2. PICK k \in T : \A y \in T : ~(<<y, k>> \in OpToRel(<, Nat))
  BY <1>1, NatLessThanWellFounded, WFMin
<1>3. \A u, v \in Nat : u < v => <<u, v>> \in OpToRel(<, Nat)
  BY DEF OpToRel
<1>4. \A y \in T : ~(y < k)
  BY <1>1, <1>2, <1>3
<1>5. k \in Nat /\ k <= n /\ n - k \in S
  BY <1>2
<1>6. \A y \in S : n - y \in T /\ y \in Int
  OBVIOUS
<1> HIDE DEF T
<1>7. \A y \in S : n - k >= y
  BY <1>4, <1>5, <1>6
<1> QED
  BY <1>5, <1>7 DEF Max

\* What a phone sees of the documents is good, if they and its writes are.
LEMMA SeenGood ==
  ASSUME Typed, NEW d \in Device
  PROVE  Seen(d) \in [Account -> GoodForms]
<1> DEFINE queue == writes[d][currentUser[d]]
           deciding(u, f) == {i \in DOMAIN queue : Decides(queue[i], u, f)}
           seen(u, f) == IF deciding(u, f) = {} THEN userInfo[u][f]
                         ELSE queue[Max(deciding(u, f))].form[f]
<1>1. queue \in Seq(GoodWrites)
  BY DEF Typed, PhoneTyped, Queues
<1>2. ASSUME NEW u \in Account, NEW f \in Field PROVE seen(u, f) \in Holds(f)
  <2>1. CASE deciding(u, f) = {}
    BY <2>1 DEF Typed, GoodForms
  <2>2. CASE deciding(u, f) # {}
    <3>1. Len(queue) \in Nat /\ deciding(u, f) \in SUBSET (1..Len(queue))
      BY <1>1
    <3>2. Max(deciding(u, f)) \in DOMAIN queue
      BY <2>2, <3>1, MaxOf
    <3>3. \A i \in DOMAIN queue : queue[i] \in GoodWrites
      BY <1>1
    <3>4. queue[Max(deciding(u, f))] \in GoodWrites
      BY <3>2, <3>3
    <3> QED
      BY <2>2, <3>4 DEF GoodWrites, GoodForms
  <2> QED
    BY <2>1, <2>2
<1>3. Seen(d) = [u \in Account |-> [f \in Field |-> seen(u, f)]]
  BY DEF Seen
<1> HIDE DEF seen
<1>4. \A u \in Account : [f \in Field |-> seen(u, f)] \in GoodForms
  BY <1>2, FieldTexts DEF GoodForms, Forms
<1> QED
  BY <1>3, <1>4

-----------------------------------------------------------------------------
(* Queues of writes, and requests *)

LEMMA EnqueueGood ==
  ASSUME writes \in Queues, NEW d \in Device, NEW u \in Account \cup {Nobody},
         NEW ws \in Seq(GoodWrites), Enqueue(d, u, ws)
  PROVE  writes' \in Queues
<1>1. writes[d][u] \o ws \in Seq(GoodWrites)
  BY DEF Queues
<1> QED
  BY <1>1 DEF Enqueue, Queues

LEMMA SetDataGood ==
  ASSUME NEW doc \in Account, NEW form \in GoodForms, NEW attached \in BOOLEAN,
         attached => form["username"] # Absent
  PROVE  <<SetData(doc, form, attached)>> \in Seq(GoodWrites)
<1>1. SetData(doc, form, attached) \in GoodWrites
  BY DEF SetData, GoodWrites, WriteRecord, GoodForms
<1> QED
  BY <1>1

LEMMA QueryGood ==
  ASSUME clicks \in Nat, NEW d \in Device, NEW kind \in {"load", "delete"} \cup Field,
         NEW email \in Email, NEW form \in GoodForms,
         kind = "username" => form["username"] # Absent
  PROVE  Query(d, kind, email, form) \in GoodQueries
<1>1. Absent \in Text \cup {Absent} /\ Absent \in Username \cup {Empty, Absent}
  OBVIOUS
<1> QED
  BY <1>1 DEF Query, GoodQueries, QueryRecord, GoodForms

LEMMA LoadGood ==
  ASSUME clicks \in Nat, NEW d \in Device, NEW email \in Email
  PROVE  LoadQuery(d, email) \in GoodQueries
BY NothingGood, QueryGood DEF LoadQuery, Field

LEMMA ApplyGood ==
  ASSUME NEW D \in [Account -> GoodForms], NEW w \in GoodWrites
  PROVE  Apply(D, w) \in [Account -> GoodForms]
<1>1. w.doc \in Account /\ w.form \in GoodForms
  BY DEF GoodWrites, WriteRecord
<1>2. Merge(D[w.doc], w.form) \in GoodForms
  BY <1>1, MergeGood
<1> QED
  BY <1>1, <1>2, NothingGood DEF Apply

\* The oldest write of whoever is signed in, and the others.
LEMMA OldestWrite ==
  ASSUME Typed, NEW d \in Device, writes[d][currentUser[d]] # <<>>
  PROVE  /\ Head(writes[d][currentUser[d]]) \in GoodWrites
         /\ currentUser[d] \in Account \cup {Nobody}
         /\ [writes EXCEPT ![d][currentUser[d]] = Tail(@)] \in Queues
<1>1. currentUser[d] \in Account \cup {Nobody} /\ writes \in Queues
  BY DEF Typed, PhoneTyped
<1>2. writes[d][currentUser[d]] \in Seq(GoodWrites)
  BY <1>1 DEF Queues
<1>3. Head(writes[d][currentUser[d]]) \in GoodWrites /\ Tail(writes[d][currentUser[d]]) \in Seq(GoodWrites)
  BY <1>2
<1> QED
  BY <1>1, <1>3 DEF Queues

-----------------------------------------------------------------------------
(* Every step keeps the types *)

LEMMA CommitWriteTyped == ASSUME Typed, NEW d \in Device, CommitWrite(d) PROVE Typed'
<1> DEFINE w == Head(writes[d][currentUser[d]])
<1>1. /\ w \in GoodWrites
      /\ [writes EXCEPT ![d][currentUser[d]] = Tail(@)] \in Queues
  BY OldestWrite DEF CommitWrite
<1>2. userInfo' = Apply(userInfo, w)
  BY DEF CommitWrite
<1>3. \/ info' = info
      \/ /\ w.attached
         /\ \E form \in Reread("username", w.form) :
              info' = [info EXCEPT ![d].username = form["username"]]
  BY DEF CommitWrite
<1>4. writes' = writes \/ writes' = [writes EXCEPT ![d][currentUser[d]] = Tail(@)]
  BY DEF CommitWrite
<1>5. UNCHANGED <<authVars, currentUser, currentEmail, calls, queries, clicks>>
  BY DEF CommitWrite
<1> HIDE DEF w
<1>6. userInfo' \in [Account -> GoodForms]
  BY <1>1, <1>2, ApplyGood DEF Typed
<1>7. writes' \in Queues
  BY <1>1, <1>4 DEF Typed
<1>8. info' \in [Device -> [email : Email \cup {Empty}, username : Username \cup {Empty}]]
  <2>1. ASSUME w.attached, NEW form \in Reread("username", w.form)
        PROVE  form["username"] \in Username \cup {Empty}
    <3>1. w.form \in GoodForms /\ w.form["username"] # Absent
      BY <1>1, <2>1 DEF GoodWrites
    <3>2. form \in GoodForms /\ form["username"] # Absent
      BY <3>1, RereadGood, Fields
    <3> QED
      BY <3>2, Fields, FieldTexts DEF GoodForms
  <2> QED
    BY <1>3, <2>1 DEF Typed, PhoneTyped
<1> QED
  BY <1>5, <1>6, <1>7, <1>8 DEF Typed, AuthTyped, PhoneTyped, authVars

LEMMA RejectTyped == ASSUME Typed, NEW d \in Device, RejectWrite(d) PROVE Typed'
<1>1. writes' \in Queues
  BY OldestWrite DEF RejectWrite
<1> QED
  BY <1>1 DEF RejectWrite, Typed, AuthTyped, PhoneTyped, authVars, phoneVars

LEMMA AnswerTyped == ASSUME Typed, NEW q \in queries, AnswerQuery(q) PROVE Typed'
<1> DEFINE found == {u \in Account : Seen(q.dev)[u]["email"] = q.email}
           names == {Seen(q.dev)[u]["username"] : u \in found} \ {Absent}
<1>1. q \in GoodQueries /\ q.dev \in Device
  BY DEF Typed, GoodQueries, QueryRecord
<1>2. names \subseteq Username \cup {Empty}
  <2>1. \A u \in Account : Seen(q.dev)[u] \in GoodForms
    BY <1>1, SeenGood
  <2>2. \A u \in Account : Seen(q.dev)[u]["username"] \in Username \cup {Empty, Absent}
    BY <2>1, Fields, FieldTexts DEF GoodForms
  <2> QED
    BY <2>2
<1>3. PICK name \in IF names = {} THEN {Absent} ELSE names :
        queries' = (queries \ {q}) \cup
          {[q EXCEPT !.answered = TRUE, !.found = found, !.name = name]}
  BY DEF AnswerQuery
<1>4. name \in Username \cup {Empty, Absent} /\ found \in SUBSET Account
  BY <1>2
<1> HIDE DEF names, found
<1>5. name \in Text \cup {Absent}
  BY <1>4 DEF Text
<1>6. [q EXCEPT !.answered = TRUE, !.found = found, !.name = name] \in GoodQueries
  BY <1>1, <1>4, <1>5 DEF GoodQueries, QueryRecord
<1>7. queries' \subseteq GoodQueries
  BY <1>3, <1>6 DEF Typed
<1> QED
  BY <1>7 DEF AnswerQuery, Typed, AuthTyped, PhoneTyped, authVars, phoneVars

LEMMA FailsTyped == ASSUME Typed, NEW q \in queries, QueryFails(q) PROVE Typed'
BY DEF QueryFails, Typed, AuthTyped, PhoneTyped, authVars, phoneVars

LEMMA LoadReturnsTyped ==
  ASSUME Typed, NEW q \in queries, LoadReturns(q)
  PROVE  info' \in [Device -> [email : Email \cup {Empty}, username : Username \cup {Empty}]]
<1>1. q.dev \in Device /\ q.email \in Email /\ q.name \in Username \cup {Empty, Absent}
  BY DEF Typed, GoodQueries, QueryRecord
<1> QED
  BY <1>1 DEF LoadReturns, Typed, PhoneTyped

LEMMA EditReturnsTyped ==
  ASSUME Typed, NEW q \in queries, EditReturns(q)
  PROVE  writes' \in Queues
<1>1. /\ q.dev \in Device /\ q.form \in GoodForms /\ q.found \subseteq Account
      /\ q.kind = "username" => q.form["username"] # Absent
      /\ currentUser[q.dev] \in Account \cup {Nobody}
      /\ writes \in Queues
  BY DEF Typed, GoodQueries, QueryRecord, PhoneTyped
<1>2. PICK form \in IF q.kind = "username" THEN Reread(q.kind, q.form) ELSE {q.form} :
        Enqueue(q.dev, currentUser[q.dev],
                IF Cardinality(q.found) # 1 THEN <<>>
                ELSE <<SetData(CHOOSE u \in q.found : TRUE, form, q.kind = "username")>>)
  BY DEF EditReturns
<1>3. form \in GoodForms /\ (q.kind = "username" => form["username"] # Absent)
  BY <1>1, <1>2, RereadGood, Fields
<1>4. CASE Cardinality(q.found) # 1
  <2>1. <<>> \in Seq(GoodWrites)
    OBVIOUS
  <2> QED
    BY <1>1, <1>2, <1>4, <2>1, EnqueueGood
<1>5. CASE Cardinality(q.found) = 1
  <2> DEFINE u == CHOOSE x \in q.found : TRUE
             ws == <<SetData(u, form, q.kind = "username")>>
  <2>1. q.found # {}
    BY <1>5, FS_EmptySet
  <2>2. u \in Account
    BY <1>1, <2>1
  <2>3. (q.kind = "username") \in BOOLEAN
    OBVIOUS
  <2>4. Enqueue(q.dev, currentUser[q.dev], ws)
    BY <1>2, <1>5
  <2> HIDE DEF u
  <2>5. ws \in Seq(GoodWrites)
    BY <1>3, <2>2, <2>3, SetDataGood
  <2> HIDE DEF ws
  <2> QED
    BY <1>1, <2>4, <2>5, EnqueueGood
<1> QED
  BY <1>4, <1>5

\* The deletions of the documents that a query found.
LEMMA ErasuresGood ==
  ASSUME NEW found \in SUBSET Account
  PROVE  [i \in 1..Cardinality(found) |-> Delete(SetToSeq(found)[i])] \in Seq(GoodWrites)
<1> DEFINE n == Cardinality(found)
           order == SetToSeq(found)
<1>1. IsFiniteSet(found)
  BY Constants, FS_Subset
<1>2. n \in Nat /\ \E f : f \in Bijection(1..n, found)
  BY <1>1, FS_CardinalityType DEF ExistsBijection
<1>3. \A i \in 1..n : order[i] \in found
  <2>1. \E f \in [1..n -> found] : IsInjective(f)
    BY <1>2 DEF Bijection, Injection, IsInjective
  <2>2. order \in [1..n -> found]
    BY <2>1 DEF SetToSeq
  <2> QED
    BY <2>2
<1> HIDE DEF n, order
<1>4. \A i \in 1..n : Delete(order[i]) \in GoodWrites
  BY <1>3, NothingGood DEF Delete, GoodWrites, WriteRecord, GoodForms
<1>5. [i \in 1..n |-> Delete(order[i])] \in Seq(GoodWrites)
  BY <1>2, <1>4
<1> QED
  BY <1>5 DEF n, order

LEMMA EraseReturnsTyped ==
  ASSUME Typed, NEW q \in queries, EraseReturns(q)
  PROVE  writes' \in Queues
<1> DEFINE ws == [i \in 1..Cardinality(q.found) |-> Delete(SetToSeq(q.found)[i])]
<1>1. /\ q.dev \in Device /\ q.found \subseteq Account
      /\ currentUser[q.dev] \in Account \cup {Nobody}
      /\ writes \in Queues
  BY DEF Typed, GoodQueries, QueryRecord, PhoneTyped
<1>2. ws \in Seq(GoodWrites)
  BY <1>1, ErasuresGood
<1>3. Enqueue(q.dev, currentUser[q.dev], ws)
  BY DEF EraseReturns
<1> HIDE DEF ws
<1> QED
  BY <1>1, <1>2, <1>3, EnqueueGood

LEMMA QueryReturnsTyped == ASSUME Typed, NEW q \in queries, QueryReturns(q) PROVE Typed'
<1>1. UNCHANGED <<authVars, currentEmail, userInfo, calls, clicks>> /\ queries' = queries \ {q}
  BY DEF QueryReturns
<1>2. CASE LoadReturns(q)
  <2>1. info' \in [Device -> [email : Email \cup {Empty}, username : Username \cup {Empty}]]
    BY <1>2, LoadReturnsTyped
  <2>2. UNCHANGED <<currentUser, writes>>
    BY <1>2 DEF LoadReturns
  <2> QED
    BY <1>1, <2>1, <2>2 DEF Typed, AuthTyped, PhoneTyped, authVars
<1>3. CASE EditReturns(q) \/ EraseReturns(q)
  <2>1. writes' \in Queues
    BY <1>3, EditReturnsTyped, EraseReturnsTyped
  <2>2. UNCHANGED <<currentUser, info>>
    BY <1>3 DEF EditReturns, EraseReturns
  <2> QED
    BY <1>1, <2>1, <2>2 DEF Typed, AuthTyped, PhoneTyped, authVars
<1> QED
  BY <1>2, <1>3 DEF QueryReturns

LEMMA AcceptsTyped == ASSUME Typed, NEW c \in calls, AuthAccepts(c) PROVE Typed'
<1>1. c \in GoodCalls /\ c.form \in GoodForms
  BY DEF Typed, GoodCalls
<1>2. PICK u \in Account, answer \in {"ok", "error"} :
        /\ Accepts(c, u)
        /\ accounts' = [accounts EXCEPT ![u] =
                          IF c.kind = "delete" THEN NoAccount ELSE Merge(@, c.form)]
        /\ created' = IF c.kind = "create" THEN u ELSE created
        /\ calls' = (calls \ {c}) \cup {[c EXCEPT !.answer = answer, !.account = u]}
  BY DEF AuthAccepts
<1>3. \A f \in Credential : c.form[f] \in Text \cup {Absent}
  BY <1>1, Fields DEF GoodForms, Forms
<1>4. accounts' \in [Account -> [Credential -> Text \cup {Absent}]]
  <2>1. accounts \in [Account -> [Credential -> Text \cup {Absent}]]
    BY DEF Typed, AuthTyped
  <2>2. Merge(accounts[u], c.form) \in [Credential -> Text \cup {Absent}]
    BY <1>3, <2>1 DEF Merge
  <2>3. NoAccount \in [Credential -> Text \cup {Absent}]
    BY DEF NoAccount
  <2> QED
    BY <1>2, <2>1, <2>2, <2>3
<1>5. created' \in 0..MaxAccounts
  BY <1>2, Constants DEF Account, Typed, AuthTyped
<1>6. held' \subseteq Text \cup {Absent}
  <2>1. held' = held \cup {c.form[f] : f \in Credential}
    BY DEF AuthAccepts
  <2> QED
    BY <1>3, <2>1 DEF Typed, AuthTyped
<1>7. calls' \subseteq GoodCalls
  <2>1. [c EXCEPT !.answer = answer, !.account = u] \in GoodCalls
    BY <1>1 DEF GoodCalls, CallRecord
  <2> QED
    BY <1>2, <2>1 DEF Typed
<1> QED
  BY <1>4, <1>5, <1>6, <1>7 DEF AuthAccepts, Typed, AuthTyped, PhoneTyped, phoneVars

LEMMA RefusesTyped == ASSUME Typed, NEW c \in calls, AuthRefuses(c) PROVE Typed'
<1>1. c \in GoodCalls
  BY DEF Typed
<1>2. [c EXCEPT !.answer = "error"] \in GoodCalls
  BY <1>1 DEF GoodCalls, CallRecord
<1>3. calls' \subseteq GoodCalls
  BY <1>2 DEF AuthRefuses, Typed
<1> QED
  BY <1>3 DEF AuthRefuses, Typed, AuthTyped, PhoneTyped, authVars, phoneVars

LEMMA EnterTyped ==
  ASSUME Typed, NEW d \in Device, NEW u \in Account \cup {Nobody}, NEW email \in Email,
         Enter(d, u, email)
  PROVE  PhoneTyped' /\ queries' \subseteq GoodQueries
<1>1. clicks \in Nat
  BY Constants DEF Typed
<1>2. LoadQuery(d, email) \in GoodQueries
  BY <1>1, LoadGood
<1>3. ClearedInfo \in [email : Email \cup {Empty}, username : Username \cup {Empty}]
  BY DEF ClearedInfo
<1>4. PhoneTyped'
  BY <1>3 DEF Enter, Typed, PhoneTyped
<1> QED
  BY <1>2, <1>4 DEF Enter, Typed

\* What the callback of a successful call does to the phone, queries and writes.
LEMMA AnsweredTyped ==
  ASSUME Typed, NEW c \in calls, c.answer = "ok",
         SignedUp(c) \/ LoggedIn(c) \/ EmailUpdated(c) \/ PasswordUpdated(c) \/ AccountDeleted(c)
  PROVE  PhoneTyped' /\ queries' \subseteq GoodQueries /\ writes' \in Queues
<1>1. /\ c \in GoodCalls /\ c.dev \in Device /\ c.account \in Account
      /\ c.form \in GoodForms
      /\ c.kind \in {"create", "signIn", "email"} => c.form["email"] \in Email
      /\ c.kind = "email" => c.old \in Email
  BY DEF Typed, GoodCalls, CallRecord
<1>2. clicks \in Nat
  BY Constants DEF Typed
<1>3. CASE SignedUp(c)
  <2>1. PhoneTyped' /\ queries' \subseteq GoodQueries
    BY <1>1, <1>3, EnterTyped DEF SignedUp
  <2>2. PICK form \in Reread(c.kind, c.form) :
          Enqueue(c.dev, c.account, <<SetData(c.account, form, FALSE)>>)
    BY <1>3 DEF SignedUp
  <2>3. form \in GoodForms
    BY <1>1, RereadGood
  <2>4. <<SetData(c.account, form, FALSE)>> \in Seq(GoodWrites)
    BY <1>1, <2>3, SetDataGood
  <2>5. writes' \in Queues
    BY <1>1, <2>2, <2>4, EnqueueGood DEF Typed
  <2> QED
    BY <2>1, <2>5
<1>4. CASE LoggedIn(c)
  BY <1>1, <1>4, EnterTyped DEF LoggedIn, Typed
<1>5. CASE EmailUpdated(c)
  <2>1. PICK form \in Reread(c.kind, c.form) :
          /\ info' = [info EXCEPT ![c.dev].email = form["email"]]
          /\ queries' = queries \cup {Query(c.dev, "email", c.old, form)}
    BY <1>5 DEF EmailUpdated
  <2>2. c.kind = "email" /\ UNCHANGED <<currentUser, writes>>
        /\ currentEmail' = IF currentUser[c.dev] = c.account
                             THEN [currentEmail EXCEPT ![c.dev] = c.form["email"]]
                             ELSE currentEmail
    BY <1>5 DEF EmailUpdated
  <2>3. form \in GoodForms /\ form["email"] # Absent
    <3>1. c.form["email"] # Absent
      BY <1>1, <2>2, Constants
    <3> QED
      BY <1>1, <3>1, RereadGood, Fields
  <2>4. form["email"] \in Email \cup {Empty}
    BY <2>3, Fields, FieldTexts DEF GoodForms
  <2>5. Query(c.dev, "email", c.old, form) \in GoodQueries
    BY <1>1, <1>2, <2>2, <2>3, Fields, QueryGood
  <2>6. c.form["email"] \in Email
    BY <1>1, <2>2
  <2> DEFINE email == c.form["email"]
             text == form["email"]
  <2>7. info' = [info EXCEPT ![c.dev].email = text]
        /\ currentEmail' = IF currentUser[c.dev] = c.account
                             THEN [currentEmail EXCEPT ![c.dev] = email] ELSE currentEmail
    BY <2>1, <2>2
  <2> HIDE DEF email, text
  <2>8. PhoneTyped'
    BY <1>1, <2>2, <2>4, <2>6, <2>7 DEF Typed, PhoneTyped, email, text
  <2> QED
    BY <2>1, <2>2, <2>5, <2>8 DEF Typed
<1>6. CASE PasswordUpdated(c)
  <2>1. PICK form \in Reread(c.kind, c.form) :
          queries' = queries \cup {Query(c.dev, "password", currentEmail[c.dev], form)}
    BY <1>6 DEF PasswordUpdated
  <2>2. currentEmail[c.dev] \in Email
    BY <1>1, <1>6 DEF PasswordUpdated, Typed, PhoneTyped
  <2>3. form \in GoodForms
    BY <1>1, RereadGood
  <2>4. Query(c.dev, "password", currentEmail[c.dev], form) \in GoodQueries
    BY <1>1, <1>2, <2>2, <2>3, Fields, QueryGood
  <2>5. UNCHANGED <<currentUser, currentEmail, info, writes>>
    BY <1>6 DEF PasswordUpdated
  <2> QED
    BY <2>1, <2>4, <2>5 DEF Typed, PhoneTyped
<1>7. CASE AccountDeleted(c)
  <2>1. PhoneTyped'
    BY <1>1, <1>7 DEF AccountDeleted, Typed, PhoneTyped
  <2> QED
    BY <1>7, <2>1 DEF AccountDeleted, Typed
<1> QED
  BY <1>3, <1>4, <1>5, <1>6, <1>7

LEMMA CallReturnsTyped == ASSUME Typed, NEW c \in calls, CallReturns(c) PROVE Typed'
<1>1. calls' \subseteq GoodCalls /\ UNCHANGED <<authVars, userInfo, clicks>>
  BY DEF CallReturns, Typed
<1>2. PhoneTyped' /\ queries' \subseteq GoodQueries /\ writes' \in Queues
  <2>1. CASE Alerted(c)
    BY <2>1 DEF Alerted, Typed, PhoneTyped, phoneVars
  <2> QED
    BY <2>1, AnsweredTyped DEF CallReturns
<1> QED
  BY <1>1, <1>2 DEF Typed, AuthTyped, authVars

\* A call that a user's click makes.
LEMMA CallGood ==
  ASSUME Typed, NEW d \in Device, NEW kind \in {"create", "signIn", "delete"} \cup Credential,
         NEW form \in GoodForms,
         kind \in {"create", "signIn", "email"} => form["email"] \in Email,
         kind = "email" => currentUser[d] # Nobody,
         Call(d, kind, form)
  PROVE  calls' \subseteq GoodCalls
<1> DEFINE c == [n |-> clicks, dev |-> d, kind |-> kind, form |-> form, answer |-> "none",
                 account |-> currentUser[d], old |-> currentEmail[d]]
<1>1. /\ clicks \in Nat /\ currentUser[d] \in Account \cup {Nobody}
      /\ currentEmail[d] \in Email \cup {Empty}
      /\ currentUser[d] # Nobody => currentEmail[d] \in Email
  BY Constants DEF Typed, PhoneTyped
<1>2. form \in Forms
  BY DEF GoodForms
<1>3. c \in CallRecord
  BY <1>1, <1>2 DEF CallRecord
<1>4. c \in GoodCalls
  BY <1>1, <1>3 DEF GoodCalls
<1>5. calls' = calls \cup {c}
  BY DEF Call
<1> QED
  BY <1>4, <1>5 DEF Typed

\* The forms that clicks send.
LEMMA ClickForms ==
  /\ \A e \in Email, p \in Password, n \in Username :
       LET form == Form([email |-> e, password |-> p, username |-> n])
       IN  form \in GoodForms /\ form["email"] = e
  /\ \A e \in Email, p \in Password :
       LET form == Form([email |-> e, password |-> p])
       IN  form \in GoodForms /\ form["email"] = e
  /\ \A text \in Username \cup {Empty} :
       LET form == Form([username |-> text])
       IN  form \in GoodForms /\ form["username"] = text
  /\ \A f \in Credential : \A text \in TextOf[f] :
       LET form == Form([g \in {f} |-> text])
       IN  form \in GoodForms /\ form[f] = text
<1>1. ASSUME NEW e \in Email, NEW p \in Password, NEW n \in Username
      PROVE  LET form == Form([email |-> e, password |-> p, username |-> n])
             IN  form \in GoodForms /\ form["email"] = e
  <2> DEFINE texts == [email |-> e, password |-> p, username |-> n]
  <2>1. /\ DOMAIN texts = {"email", "password", "username"}
        /\ texts["email"] = e /\ texts["password"] = p /\ texts["username"] = n
    OBVIOUS
  <2> HIDE DEF texts
  <2>2. Form(texts) \in GoodForms /\ Form(texts)["email"] = e
    BY <2>1, Fields, FieldTexts DEF Form, GoodForms, Forms
  <2> QED
    BY <2>2 DEF texts
<1>2. ASSUME NEW e \in Email, NEW p \in Password
      PROVE  LET form == Form([email |-> e, password |-> p])
             IN  form \in GoodForms /\ form["email"] = e
  <2> DEFINE texts == [email |-> e, password |-> p]
  <2>1. DOMAIN texts = {"email", "password"} /\ texts["email"] = e /\ texts["password"] = p
    OBVIOUS
  <2> HIDE DEF texts
  <2>2. Form(texts) \in GoodForms /\ Form(texts)["email"] = e
    BY <2>1, Fields, FieldTexts DEF Form, GoodForms, Forms
  <2> QED
    BY <2>2 DEF texts
<1>3. ASSUME NEW text \in Username \cup {Empty}
      PROVE  LET form == Form([username |-> text])
             IN  form \in GoodForms /\ form["username"] = text
  <2> DEFINE texts == [username |-> text]
  <2>1. DOMAIN texts = {"username"} /\ texts["username"] = text
    OBVIOUS
  <2> HIDE DEF texts
  <2>2. Form(texts) \in GoodForms /\ Form(texts)["username"] = text
    BY <2>1, Fields, FieldTexts DEF Form, GoodForms, Forms
  <2> QED
    BY <2>2 DEF texts
<1>4. ASSUME NEW f \in Credential, NEW text \in TextOf[f]
      PROVE  LET form == Form([g \in {f} |-> text])
             IN  form \in GoodForms /\ form[f] = text
  <2>1. DOMAIN [g \in {f} |-> text] = {f} /\ [g \in {f} |-> text][f] = text
    OBVIOUS
  <2>2. text \in Holds(f) /\ f \in Field
    BY Fields DEF Holds
  <2>3. \A h \in Field : (IF h \in {f} THEN [g \in {f} |-> text][h] ELSE Absent) \in Holds(h)
    BY <2>1, <2>2 DEF Holds
  <2>4. Form([g \in {f} |-> text]) = [h \in Field |-> IF h \in {f} THEN [g \in {f} |-> text][h] ELSE Absent]
    BY <2>1 DEF Form
  <2>5. Form([g \in {f} |-> text]) \in GoodForms /\ Form([g \in {f} |-> text])[f] = text
    BY <2>1, <2>2, <2>3, <2>4, FieldTexts DEF GoodForms, Forms
  <2> QED
    BY <2>5
<1> QED
  BY <1>1, <1>2, <1>3, <1>4

LEMMA ClickTyped ==
  ASSUME Typed, NEW d \in Device, ClickStep(d) \/ DeleteAccountClicked(d)
  PROVE  Typed'
<1>0. /\ clicks \in Nat /\ currentUser[d] \in Account \cup {Nobody}
      /\ currentUser[d] # Nobody => currentEmail[d] \in Email
  BY Constants DEF Typed, PhoneTyped
<1>1. clicks' \in 0..MaxClicks
  BY <1>0, Constants DEF ClickStep, SignUpClicked, LogInClicked, MapAppears, UpdateClicked,
     UpdateNameClicked, DeleteAccountClicked, Click
<1>2. ASSUME UNCHANGED <<authVars, phoneVars, userInfo, writes>>,
             calls' \subseteq GoodCalls, queries' \subseteq GoodQueries
      PROVE  Typed'
  BY <1>1, <1>2 DEF Typed, AuthTyped, PhoneTyped, authVars, phoneVars
<1>3. CASE SignUpClicked(d)
  <2>1. PICK e \in Email, p \in Password, n \in Username :
          Call(d, "create", Form([email |-> e, password |-> p, username |-> n]))
    BY <1>3 DEF SignUpClicked
  <2>2. calls' \subseteq GoodCalls
    BY <2>1, ClickForms, CallGood
  <2> QED
    BY <1>2, <1>3, <2>2 DEF SignUpClicked, Typed
<1>4. CASE LogInClicked(d)
  <2>1. PICK e \in Email, p \in Password : Call(d, "signIn", Form([email |-> e, password |-> p]))
    BY <1>4 DEF LogInClicked
  <2>2. calls' \subseteq GoodCalls
    BY <2>1, ClickForms, CallGood
  <2> QED
    BY <1>2, <1>4, <2>2 DEF LogInClicked, Typed
<1>5. CASE UpdateClicked(d)
  <2>1. PICK f \in Credential : \E text \in TextOf[f] : Call(d, f, Form([g \in {f} |-> text]))
    BY <1>5 DEF UpdateClicked
  <2>2. PICK text \in TextOf[f] : Call(d, f, Form([g \in {f} |-> text]))
    BY <2>1
  <2> DEFINE form == Form([g \in {f} |-> text])
  <2>3. form \in GoodForms /\ form[f] = text
    BY ClickForms
  <2>4. Call(d, f, form)
    BY <2>2
  <2>5. f \notin {"create", "signIn"} /\ (f = "email" => text \in Email)
    BY Fields, FieldTexts
  <2> HIDE DEF form
  <2>6. calls' \subseteq GoodCalls
    BY <1>5, <2>3, <2>4, <2>5, CallGood DEF UpdateClicked
  <2> QED
    BY <1>2, <1>5, <2>6 DEF UpdateClicked, Typed
<1>6. CASE UpdateNameClicked(d)
  <2>1. PICK text \in Username \cup {Empty} :
          queries' = queries \cup
            {Query(d, "username", currentEmail[d], Form([username |-> text]))}
    BY <1>6 DEF UpdateNameClicked
  <2> DEFINE form == Form([username |-> text])
  <2>2. form \in GoodForms /\ form["username"] = text
    BY ClickForms
  <2>3. form["username"] # Absent
    BY <2>2, Constants
  <2>4. queries' = queries \cup {Query(d, "username", currentEmail[d], form)}
    BY <2>1
  <2>5. currentEmail[d] \in Email
    BY <1>0, <1>6 DEF UpdateNameClicked
  <2> HIDE DEF form
  <2>6. queries' \subseteq GoodQueries
    BY <1>0, <2>2, <2>3, <2>4, <2>5, Fields, QueryGood DEF Typed
  <2> QED
    BY <1>2, <1>6, <2>6 DEF UpdateNameClicked, Typed
<1>7. CASE MapAppears(d)
  <2>1. LoadQuery(d, currentEmail[d]) \in GoodQueries
    BY <1>0, <1>7, LoadGood DEF MapAppears
  <2>2. ClearedInfo \in [email : Email \cup {Empty}, username : Username \cup {Empty}]
    BY DEF ClearedInfo
  <2> QED
    BY <1>1, <1>7, <2>1, <2>2 DEF MapAppears, Typed, AuthTyped, PhoneTyped, authVars
<1>8. CASE DeleteAccountClicked(d)
  <2>1. calls' \subseteq GoodCalls
    BY <1>8, NothingGood, CallGood DEF DeleteAccountClicked
  <2>2. Query(d, "delete", currentEmail[d], NoDocument) \in GoodQueries
    BY <1>0, <1>8, NothingGood, QueryGood DEF DeleteAccountClicked
  <2> QED
    BY <1>2, <1>8, <2>1, <2>2 DEF DeleteAccountClicked, Typed
<1> QED
  BY <1>3, <1>4, <1>5, <1>6, <1>7, <1>8 DEF ClickStep

LEMMA LogOutTyped == ASSUME Typed, NEW d \in Device, LogOutClicked(d) PROVE Typed'
BY DEF LogOutClicked, Typed, AuthTyped, PhoneTyped, authVars

\* The writes that a restart leaves have lost their closures only.
LEMMA DetachedGood ==
  ASSUME NEW queue \in Seq(GoodWrites)
  PROVE  [i \in DOMAIN queue |-> [queue[i] EXCEPT !.attached = FALSE]] \in Seq(GoodWrites)
<1>1. \A w \in GoodWrites : [w EXCEPT !.attached = FALSE] \in GoodWrites
  BY DEF GoodWrites, WriteRecord
<1>2. DOMAIN queue = 1..Len(queue) /\ Len(queue) \in Nat
      /\ \A i \in DOMAIN queue : queue[i] \in GoodWrites
  OBVIOUS
<1>3. \A i \in 1..Len(queue) : [queue[i] EXCEPT !.attached = FALSE] \in GoodWrites
  BY <1>1, <1>2
<1> DEFINE detached(i) == [queue[i] EXCEPT !.attached = FALSE]
<1>4. \A i \in 1..Len(queue) : detached(i) \in GoodWrites
  BY <1>3
<1> HIDE DEF detached
<1>5. [i \in 1..Len(queue) |-> detached(i)] \in Seq(GoodWrites)
  BY <1>2, <1>4
<1> QED
  BY <1>2, <1>5 DEF detached

LEMMA RestartedTyped ==
  ASSUME Typed, NEW d \in Device, Restarted(d), clicks' \in 0..MaxClicks
  PROVE  Typed'
<1>1. UNCHANGED <<authVars, currentUser, currentEmail, userInfo>>
  BY DEF Restarted
<1>2. calls' \subseteq GoodCalls
  BY DEF Restarted, Typed
<1>3. queries' \subseteq GoodQueries
  <2>1. clicks \in Nat /\ (currentUser[d] # Nobody => currentEmail[d] \in Email)
    BY Constants DEF Typed, PhoneTyped
  <2>2. currentUser[d] # Nobody => LoadQuery(d, currentEmail[d]) \in GoodQueries
    BY <2>1, LoadGood
  <2>3. queries' = {q \in queries : q.dev # d} \cup
          {LoadQuery(e, currentEmail[e]) : e \in {x \in {d} : currentUser[x] # Nobody}}
    BY DEF Restarted
  <2> QED
    BY <2>2, <2>3 DEF Typed
<1>4. PhoneTyped'
  <2>1. ClearedInfo \in [email : Email \cup {Empty}, username : Username \cup {Empty}]
    BY DEF ClearedInfo
  <2> QED
    BY <2>1 DEF Restarted, Typed, PhoneTyped
<1>5. writes' \in Queues
  <2>1. \A u \in Account \cup {Nobody} : writes[d][u] \in Seq(GoodWrites)
    BY DEF Typed, Queues
  <2>2. \A u \in Account \cup {Nobody} :
          [i \in DOMAIN writes[d][u] |-> [writes[d][u][i] EXCEPT !.attached = FALSE]]
            \in Seq(GoodWrites)
    BY <2>1, DetachedGood
  <2> DEFINE left(u) == [i \in DOMAIN writes[d][u] |-> [writes[d][u][i] EXCEPT !.attached = FALSE]]
  <2>3. writes' = [writes EXCEPT ![d] = [u \in Account \cup {Nobody} |-> left(u)]]
    BY DEF Restarted
  <2>4. \A u \in Account \cup {Nobody} : left(u) \in Seq(GoodWrites)
    BY <2>2
  <2> HIDE DEF left
  <2> QED
    BY <2>3, <2>4 DEF Typed, Queues
<1> QED
  BY <1>1, <1>2, <1>3, <1>4, <1>5 DEF Typed, AuthTyped, authVars

LEMMA TypedInit == Init => Typed
<1> SUFFICES ASSUME Init PROVE Typed
  OBVIOUS
<1>1. AuthTyped
  BY Constants DEF Init, AuthTyped, NoAccount
<1>2. PhoneTyped
  BY DEF Init, PhoneTyped, ClearedInfo
<1>3. userInfo \in [Account -> GoodForms]
  BY NothingGood DEF Init
<1>4. writes \in Queues
  BY DEF Init, Queues
<1> QED
  BY <1>1, <1>2, <1>3, <1>4, Constants DEF Init, Typed

LEMMA TypedNext == Typed /\ [Next]_vars => Typed'
<1> SUFFICES ASSUME Typed, [Next]_vars PROVE Typed'
  OBVIOUS
<1>1. ASSUME NEW d \in Device, Restarted(d), Click \/ UNCHANGED clicks PROVE Typed'
  <2>1. clicks' \in 0..MaxClicks
    BY <1>1, Constants DEF Typed, Click
  <2> QED
    BY <1>1, <2>1, RestartedTyped
<1>2. CASE AnyClick
  BY <1>1, <1>2, ClickTyped DEF AnyClick, Relaunch
<1>3. ASSUME NEW c \in calls, PasswordCrashes(c) PROVE Typed'
  <2>1. c.dev \in Device
    BY DEF Typed, GoodCalls, CallRecord
  <2> QED
    BY <1>1, <1>3, <2>1 DEF PasswordCrashes
<1>4. CASE Reaction
  BY <1>3, <1>4, LogOutTyped, CommitWriteTyped, RejectTyped, AcceptsTyped, RefusesTyped,
     CallReturnsTyped, AnswerTyped, QueryReturnsTyped, FailsTyped DEF Reaction
<1>5. CASE UNCHANGED vars
  BY <1>5 DEF vars, Typed, AuthTyped, PhoneTyped, authVars, phoneVars
<1> QED
  BY <1>2, <1>4, <1>5 DEF Next

\* Every request looks for, and every screen shows, a text of its field, and
\* whoever is signed in has an email: currentUser!.email! is not nil
\* (editAccountVC.updateClicked, settingsVC.deleteAccountClicked, map.getUserInfo).
THEOREM TypeCorrect == Spec => []TypeOK
<1>1. Typed => TypeOK
  <2> SUFFICES ASSUME Typed PROVE TypeOK
    OBVIOUS
  <2>1. userInfo \in [Account -> Forms]
    BY DEF Typed, GoodForms
  <2>2. writes \in [Device -> [Account \cup {Nobody} -> Seq(WriteRecord)]]
    <3>1. \A s \in Seq(GoodWrites) : s \in Seq(WriteRecord)
      BY DEF GoodWrites
    <3> QED
      BY <3>1 DEF Typed, Queues
  <2> QED
    BY <2>1, <2>2 DEF Typed, AuthTyped, PhoneTyped, TypeOK, GoodCalls, GoodQueries
<1> QED
  BY <1>1, TypedInit, TypedNext, PTL DEF Spec

-----------------------------------------------------------------------------
(* What Auth has accepted *)

\* Users leave the email and password fields alone while a request runs.
LeftAlone == Retypes \subseteq {"username"}

Accepted(form) == \A f \in Credential : form[f] \in held \cup {Absent}

\* What makes NeverAheadOfAuth inductive: whatever is on its way to a document
\* has only emails and passwords that Auth has had.
HeldInv ==
  /\ \A u \in Account : Accepted(userInfo[u])
  /\ \A c \in calls : c.answer = "ok" => Accepted(c.form)
  /\ \A q \in queries :
       /\ Accepted(q.form)
       /\ q.kind = "username" => \A f \in Credential : q.form[f] = Absent
  /\ \A d \in Device, u \in Account \cup {Nobody} :
       \A i \in DOMAIN writes[d][u] : Accepted(writes[d][u][i].form)

LEMMA NothingAccepted == Accepted(NoDocument)
BY Fields DEF Accepted, NoDocument

LEMMA HeldGrows == [Next]_vars => held \subseteq held'
<1> SUFFICES ASSUME [Next]_vars PROVE held \subseteq held'
  OBVIOUS
<1>1. CASE AnyClick
  BY <1>1 DEF AnyClick, ClickStep, SignUpClicked, LogInClicked, MapAppears, UpdateClicked,
     UpdateNameClicked, DeleteAccountClicked, Relaunch, Restarted, authVars
<1>2. CASE Reaction
  BY <1>2 DEF Reaction, LogOutClicked, CommitWrite, RejectWrite, AuthAccepts, AuthRefuses,
     CallReturns, PasswordCrashes, Restarted, AnswerQuery, QueryReturns, QueryFails, authVars
<1>3. CASE UNCHANGED vars
  BY <1>3 DEF vars, authVars
<1> QED
  BY <1>1, <1>2, <1>3 DEF Next

\* Every queued write has the form of an earlier one, or an accepted form.
WritesFrom ==
  \A d \in Device, u \in Account \cup {Nobody} : \A i \in DOMAIN writes'[d][u] :
    \/ \E j \in DOMAIN writes[d][u] : writes'[d][u][i].form = writes[d][u][j].form
    \/ Accepted(writes'[d][u][i].form)

LEMMA EnqueueFrom ==
  ASSUME Typed, NEW d \in Device, NEW u \in Account \cup {Nobody}, NEW ws \in Seq(GoodWrites),
         \A j \in DOMAIN ws : Accepted(ws[j].form), Enqueue(d, u, ws)
  PROVE  WritesFrom
<1> SUFFICES ASSUME NEW e \in Device, NEW v \in Account \cup {Nobody},
                    NEW i \in DOMAIN writes'[e][v]
             PROVE  \/ \E j \in DOMAIN writes[e][v] : writes'[e][v][i].form = writes[e][v][j].form
                    \/ Accepted(writes'[e][v][i].form)
  BY DEF WritesFrom
<1>1. writes \in Queues /\ writes[d][u] \in Seq(GoodWrites)
  BY DEF Typed, Queues
<1>2. writes'[e][v] = IF e = d /\ v = u THEN writes[d][u] \o ws ELSE writes[e][v]
  BY <1>1 DEF Enqueue, Queues
<1>3. \A k \in DOMAIN (writes[d][u] \o ws) :
        \/ k \in DOMAIN writes[d][u] /\ (writes[d][u] \o ws)[k] = writes[d][u][k]
        \/ \E j \in DOMAIN ws : (writes[d][u] \o ws)[k] = ws[j]
  <2> DEFINE s == writes[d][u]
  <2>1. s \in Seq(GoodWrites)
    BY <1>1
  <2> HIDE DEF s
  <2>2. \A k \in DOMAIN (s \o ws) :
          \/ k \in DOMAIN s /\ (s \o ws)[k] = s[k]
          \/ k - Len(s) \in DOMAIN ws /\ (s \o ws)[k] = ws[k - Len(s)]
    BY <2>1
  <2>3. \A k \in DOMAIN (s \o ws) :
          \/ k \in DOMAIN s /\ (s \o ws)[k] = s[k]
          \/ \E j \in DOMAIN ws : (s \o ws)[k] = ws[j]
    BY <2>2
  <2> QED
    BY <2>3 DEF s
<1>4. CASE e = d /\ v = u
  BY <1>2, <1>3, <1>4
<1>5. CASE ~(e = d /\ v = u)
  BY <1>2, <1>5
<1> QED
  BY <1>4, <1>5

LEMMA KeptFrom ==
  ASSUME writes' = writes
  PROVE  WritesFrom
BY DEF WritesFrom

LEMMA TailFrom ==
  ASSUME Typed, NEW d \in Device, writes[d][currentUser[d]] # <<>>,
         writes' = [writes EXCEPT ![d][currentUser[d]] = Tail(@)]
  PROVE  WritesFrom
<1> DEFINE u == currentUser[d]
           s == writes[d][u]
<1>1. u \in Account \cup {Nobody} /\ writes \in Queues /\ s \in Seq(GoodWrites) /\ s # <<>>
  BY DEF Typed, PhoneTyped, Queues
<1>2. \A e \in Device, v \in Account \cup {Nobody} :
        writes'[e][v] = IF e = d /\ v = u THEN Tail(s) ELSE writes[e][v]
  BY <1>1 DEF Queues
<1> HIDE DEF s
<1>3. \A i \in DOMAIN Tail(s) : i + 1 \in DOMAIN s /\ Tail(s)[i] = s[i + 1]
  BY <1>1
<1>4. \A i \in DOMAIN Tail(s) : \E j \in DOMAIN s : Tail(s)[i].form = s[j].form
  BY <1>3
<1> QED
  BY <1>2, <1>4 DEF WritesFrom, s

LEMMA RestartedFrom ==
  ASSUME Typed, NEW d \in Device, Restarted(d)
  PROVE  WritesFrom
<1> DEFINE left(u) == [i \in DOMAIN writes[d][u] |-> [writes[d][u][i] EXCEPT !.attached = FALSE]]
<1>1. writes' = [writes EXCEPT ![d] = [u \in Account \cup {Nobody} |-> left(u)]]
  BY DEF Restarted
<1>2. ASSUME NEW u \in Account \cup {Nobody}, NEW i \in DOMAIN left(u)
      PROVE  i \in DOMAIN writes[d][u] /\ left(u)[i].form = writes[d][u][i].form
  <2>1. i \in DOMAIN writes[d][u] /\ writes[d][u] \in Seq(GoodWrites)
    BY <1>2 DEF Typed, Queues
  <2>2. writes[d][u][i] \in GoodWrites
    BY <2>1
  <2> QED
    BY <2>1, <2>2 DEF GoodWrites, WriteRecord
<1> HIDE DEF left
<1>3. \A e \in Device, v \in Account \cup {Nobody} :
        writes'[e][v] = IF e = d THEN left(v) ELSE writes[e][v]
  BY <1>1 DEF Typed, Queues
<1> QED
  BY <1>2, <1>3 DEF WritesFrom

LEMMA CallReturnsFrom ==
  ASSUME Typed, HeldInv, LeftAlone, NEW c \in calls, CallReturns(c)
  PROVE  WritesFrom
<1>1. CASE c.answer = "ok" /\ SignedUp(c)
  <2>1. PICK form \in Reread(c.kind, c.form) :
          Enqueue(c.dev, c.account, <<SetData(c.account, form, FALSE)>>)
    BY <1>1 DEF SignedUp
  <2>2. c.form \in GoodForms /\ c.dev \in Device /\ c.account \in Account
    BY <1>1 DEF Typed, GoodCalls, CallRecord
  <2>3. form \in GoodForms /\ form = c.form
    BY <1>1, <2>2, RereadGood DEF SignedUp, LeftAlone
  <2> DEFINE w == SetData(c.account, form, FALSE)
  <2>4. <<w>> \in Seq(GoodWrites) /\ w.form = form
    BY <2>2, <2>3, SetDataGood DEF SetData
  <2>5. Accepted(form)
    BY <1>1, <2>3 DEF HeldInv
  <2> HIDE DEF w
  <2>6. \A j \in DOMAIN <<w>> : Accepted(<<w>>[j].form)
    BY <2>4, <2>5
  <2> QED
    BY <2>1, <2>2, <2>4, <2>6, EnqueueFrom DEF w
<1>2. CASE ~(c.answer = "ok" /\ SignedUp(c))
  <2>1. writes' = writes
    BY <1>2 DEF CallReturns, Alerted, LoggedIn, EmailUpdated, PasswordUpdated, AccountDeleted
  <2> QED
    BY <2>1, KeptFrom
<1> QED
  BY <1>1, <1>2

LEMMA QueryReturnsFrom ==
  ASSUME Typed, HeldInv, NEW q \in queries, QueryReturns(q)
  PROVE  WritesFrom
<1>1. /\ q.dev \in Device /\ q.form \in GoodForms /\ q.found \subseteq Account
      /\ q.kind = "username" => q.form["username"] # Absent
      /\ currentUser[q.dev] \in Account \cup {Nobody}
  BY DEF Typed, GoodQueries, QueryRecord, PhoneTyped
<1>2. CASE LoadReturns(q)
  BY <1>2, KeptFrom DEF LoadReturns
<1>3. CASE EditReturns(q)
  <2> DEFINE u == CHOOSE x \in q.found : TRUE
  <2>1. PICK form \in IF q.kind = "username" THEN Reread(q.kind, q.form) ELSE {q.form} :
          Enqueue(q.dev, currentUser[q.dev],
                  IF Cardinality(q.found) # 1 THEN <<>>
                  ELSE <<SetData(u, form, q.kind = "username")>>)
    BY <1>3 DEF EditReturns
  <2>2. form \in GoodForms /\ (q.kind = "username" => form["username"] # Absent)
    BY <1>1, <2>1, RereadGood, Fields
  <2>3. Accepted(form)
    <3>1. CASE q.kind = "username"
      <4>1. \A f \in Credential : q.form[f] = Absent
        BY <3>1 DEF HeldInv
      <4>2. \A f \in Credential : form[f] = Absent
        BY <1>1, <2>1, <3>1, <4>1, RereadGood, Fields
      <4> QED
        BY <4>2 DEF Accepted
    <3>2. CASE q.kind # "username"
      BY <2>1, <3>2 DEF HeldInv
    <3> QED
      BY <3>1, <3>2
  <2>4. CASE Cardinality(q.found) # 1
    <3>1. <<>> \in Seq(GoodWrites) /\ DOMAIN <<>> = {}
      OBVIOUS
    <3>2. Enqueue(q.dev, currentUser[q.dev], <<>>)
      BY <2>1, <2>4
    <3> QED
      BY <1>1, <3>1, <3>2, EnqueueFrom
  <2>5. CASE Cardinality(q.found) = 1
    <3>1. q.found # {}
      BY <2>5, FS_EmptySet
    <3>2. u \in Account
      BY <1>1, <3>1
    <3>3. (q.kind = "username") \in BOOLEAN
      OBVIOUS
    <3> DEFINE w == SetData(u, form, q.kind = "username")
    <3>4. Enqueue(q.dev, currentUser[q.dev], <<w>>)
      BY <2>1, <2>5
    <3>5. w.form = form
      BY DEF SetData
    <3> HIDE DEF u
    <3>6. <<w>> \in Seq(GoodWrites)
      BY <2>2, <3>2, <3>3, SetDataGood
    <3> HIDE DEF w
    <3>7. \A j \in DOMAIN <<w>> : Accepted(<<w>>[j].form)
      BY <2>3, <3>5
    <3> QED
      BY <1>1, <3>4, <3>6, <3>7, EnqueueFrom
  <2> QED
    BY <2>4, <2>5
<1>4. CASE EraseReturns(q)
  <2> DEFINE n == Cardinality(q.found)
             order == SetToSeq(q.found)
             ws == [i \in 1..n |-> Delete(order[i])]
  <2>1. ws \in Seq(GoodWrites)
    BY <1>1, ErasuresGood
  <2>2. \A j \in DOMAIN ws : ws[j].form = NoDocument
    BY DEF Delete
  <2>3. Enqueue(q.dev, currentUser[q.dev], ws)
    BY <1>4 DEF EraseReturns
  <2> HIDE DEF ws
  <2>4. \A j \in DOMAIN ws : Accepted(ws[j].form)
    BY <2>2, NothingAccepted
  <2> QED
    BY <1>1, <2>1, <2>3, <2>4, EnqueueFrom
<1> QED
  BY <1>2, <1>3, <1>4 DEF QueryReturns

LEMMA WritesHeld ==
  ASSUME Typed, HeldInv, LeftAlone, [Next]_vars
  PROVE  WritesFrom
<1>1. ASSUME NEW d \in Device, ClickStep(d) \/ DeleteAccountClicked(d) \/ LogOutClicked(d)
      PROVE  WritesFrom
  <2>1. writes' = writes
    BY <1>1 DEF ClickStep, SignUpClicked, LogInClicked, MapAppears, UpdateClicked,
       UpdateNameClicked, DeleteAccountClicked, LogOutClicked
  <2> QED
    BY <2>1, KeptFrom
<1>2. ASSUME NEW d \in Device, CommitWrite(d) \/ RejectWrite(d) PROVE WritesFrom
  BY <1>2, KeptFrom, TailFrom DEF CommitWrite, RejectWrite
<1>3. ASSUME NEW c \in calls, PasswordCrashes(c) PROVE WritesFrom
  <2>1. c.dev \in Device
    BY DEF Typed, GoodCalls, CallRecord
  <2> QED
    BY <1>3, <2>1, RestartedFrom DEF PasswordCrashes
<1>4. ASSUME NEW c \in calls, AuthAccepts(c) \/ AuthRefuses(c) PROVE WritesFrom
  BY <1>4, KeptFrom DEF AuthAccepts, AuthRefuses
<1>5. ASSUME NEW q \in queries, AnswerQuery(q) \/ QueryFails(q) PROVE WritesFrom
  BY <1>5, KeptFrom DEF AnswerQuery, QueryFails
<1>6. CASE UNCHANGED vars
  BY <1>6, KeptFrom DEF vars
<1>7. CASE AnyClick
  BY <1>1, <1>7, RestartedFrom DEF AnyClick, Relaunch
<1>8. CASE Reaction
  BY <1>1, <1>2, <1>3, <1>4, <1>5, <1>8, CallReturnsFrom, QueryReturnsFrom DEF Reaction
<1> QED
  BY <1>6, <1>7, <1>8 DEF Next

\* Only a committed write changes a document, and to what it says.
LEMMA DocumentsHeld ==
  ASSUME Typed, HeldInv, [Next]_vars
  PROVE  \A u \in Account : Accepted(userInfo'[u])
<1>1. CASE userInfo' = userInfo
  BY <1>1 DEF HeldInv
<1>2. ASSUME NEW d \in Device, CommitWrite(d)
      PROVE  \A u \in Account : Accepted(userInfo'[u])
  <2> DEFINE queue == writes[d][currentUser[d]]
             w == Head(queue)
  <2>1. queue # <<>> /\ userInfo' = Apply(userInfo, w)
    BY <1>2 DEF CommitWrite
  <2>2. currentUser[d] \in Account \cup {Nobody} /\ queue \in Seq(GoodWrites)
    BY DEF Typed, PhoneTyped, Queues
  <2>3. 1 \in DOMAIN queue /\ w = queue[1]
    BY <2>1, <2>2
  <2>4. Accepted(w.form)
    BY <2>2, <2>3 DEF HeldInv
  <2>5. userInfo \in [Account -> GoodForms] /\ w.doc \in Account
    BY <2>2, <2>3 DEF Typed, GoodWrites, WriteRecord
  <2> HIDE DEF w
  <2>6. Accepted(Merge(userInfo[w.doc], w.form))
    <3>1. Accepted(userInfo[w.doc])
      BY <2>5 DEF HeldInv
    <3>2. DOMAIN userInfo[w.doc] = Field
      BY <2>5 DEF GoodForms, Forms
    <3>3. \A f \in Credential : Merge(userInfo[w.doc], w.form)[f] =
            IF w.form[f] = Absent THEN userInfo[w.doc][f] ELSE w.form[f]
      BY <3>2, Fields DEF Merge
    <3> QED
      BY <2>4, <3>1, <3>3 DEF Accepted
  <2>7. \A u \in Account : userInfo'[u] =
          IF u # w.doc THEN userInfo[u]
          ELSE IF w.erase THEN NoDocument ELSE Merge(userInfo[w.doc], w.form)
    BY <2>1, <2>5 DEF Apply
  <2> QED
    BY <2>6, <2>7, NothingAccepted DEF HeldInv
<1>3. CASE AnyClick
  BY <1>1, <1>3 DEF AnyClick, ClickStep, SignUpClicked, LogInClicked, MapAppears, UpdateClicked,
     UpdateNameClicked, DeleteAccountClicked, Relaunch, Restarted
<1>4. CASE Reaction
  BY <1>1, <1>2, <1>4 DEF Reaction, LogOutClicked, RejectWrite, AuthAccepts, AuthRefuses,
     CallReturns, PasswordCrashes, Restarted, AnswerQuery, QueryReturns, QueryFails
<1>5. CASE UNCHANGED vars
  BY <1>1, <1>5 DEF vars
<1> QED
  BY <1>3, <1>4, <1>5 DEF Next

\* A form that Auth has had all of by the end of the step.
AcceptedThen(form) == \A f \in Credential : form[f] \in held' \cup {Absent}

LEMMA StaysAccepted ==
  ASSUME [Next]_vars
  PROVE  \A form : Accepted(form) => AcceptedThen(form)
BY HeldGrows DEF Accepted, AcceptedThen

\* A call is answered "ok" only in the step that adds its texts to held.
LEMMA CallsHeld ==
  ASSUME Typed, HeldInv, [Next]_vars
  PROVE  \A c \in calls' : c.answer = "ok" => AcceptedThen(c.form)
<1>1. CASE \A c \in calls' : c \in calls \/ c.answer # "ok"
  BY <1>1, StaysAccepted DEF HeldInv
<1>2. ASSUME NEW c \in calls, AuthAccepts(c)
      PROVE  \A b \in calls' : b.answer = "ok" => AcceptedThen(b.form)
  <2>1. PICK u \in Account, answer \in {"ok", "error"} :
          calls' = (calls \ {c}) \cup {[c EXCEPT !.answer = answer, !.account = u]}
    BY <1>2 DEF AuthAccepts
  <2>2. [c EXCEPT !.answer = answer, !.account = u].form = c.form
    BY DEF Typed, GoodCalls, CallRecord
  <2>3. AcceptedThen(c.form)
    BY <1>2 DEF AuthAccepts, AcceptedThen
  <2> QED
    BY <2>1, <2>2, <2>3, StaysAccepted DEF HeldInv
<1>3. ASSUME NEW d \in Device, NEW kind, NEW form, Call(d, kind, form)
      PROVE  \A c \in calls' : c \in calls \/ c.answer # "ok"
  BY <1>3 DEF Call
<1>4. ASSUME NEW c \in calls, AuthRefuses(c)
      PROVE  \A b \in calls' : b \in calls \/ b.answer # "ok"
  BY <1>4 DEF AuthRefuses, Typed, GoodCalls, CallRecord
<1>5. ASSUME NEW d, Restarted(d) PROVE calls' \subseteq calls
  BY <1>5 DEF Restarted
<1>6. CASE AnyClick
  BY <1>1, <1>3, <1>5, <1>6 DEF AnyClick, ClickStep, SignUpClicked, LogInClicked, MapAppears,
     UpdateClicked, UpdateNameClicked, DeleteAccountClicked, Relaunch
<1>7. CASE Reaction
  BY <1>1, <1>2, <1>4, <1>5, <1>7 DEF Reaction, LogOutClicked, CommitWrite, RejectWrite,
     CallReturns, PasswordCrashes, AnswerQuery, QueryReturns, QueryFails
<1>8. CASE UNCHANGED vars
  BY <1>1, <1>8 DEF vars
<1> QED
  BY <1>6, <1>7, <1>8 DEF Next

\* A query whose write, if there is one, brings nothing that Auth has not had.
Harmless(q) ==
  /\ Accepted(q.form)
  /\ q.kind = "username" => \A f \in Credential : q.form[f] = Absent

LEMMA LoadHarmless ==
  \A d, email : Harmless(LoadQuery(d, email)) /\ Harmless(Query(d, "delete", email, NoDocument))
BY NothingAccepted DEF LoadQuery, Query, Harmless

\* The queries that callbacks of Auth calls make.
LEMMA AnsweredHarmless ==
  ASSUME Typed, HeldInv, LeftAlone, NEW c \in calls, CallReturns(c)
  PROVE  \A q \in queries' : Harmless(q)
<1>1. \A q \in queries : Harmless(q)
  BY DEF HeldInv, Harmless
<1>2. CASE c.answer = "ok" /\ (SignedUp(c) \/ LoggedIn(c))
  <2>1. queries' = queries \cup {LoadQuery(c.dev, c.form["email"])}
    BY <1>2 DEF SignedUp, LoggedIn, Enter
  <2> QED
    BY <1>1, <2>1, LoadHarmless
<1>3. ASSUME c.answer = "ok", c.kind \in Credential, NEW email,
             \E form \in Reread(c.kind, c.form) :
               queries' = queries \cup {Query(c.dev, c.kind, email, form)}
      PROVE  \A q \in queries' : Harmless(q)
  <2>1. PICK form \in Reread(c.kind, c.form) :
          queries' = queries \cup {Query(c.dev, c.kind, email, form)}
    BY <1>3
  <2>2. c.form \in GoodForms /\ c.kind \notin Retypes
    BY <1>3, Fields DEF Typed, GoodCalls, LeftAlone
  <2>3. form = c.form
    BY <2>2, RereadGood
  <2>4. Accepted(form)
    BY <1>3, <2>3 DEF HeldInv
  <2>5. Harmless(Query(c.dev, c.kind, email, form))
    BY <1>3, <2>4, Fields DEF Query, Harmless
  <2> QED
    BY <1>1, <2>1, <2>5
<1>4. CASE c.answer = "ok" /\ EmailUpdated(c)
  <2>1. \E form \in Reread(c.kind, c.form) :
          queries' = queries \cup {Query(c.dev, c.kind, c.old, form)}
    BY <1>4 DEF EmailUpdated
  <2> QED
    BY <1>3, <1>4, <2>1, Fields DEF EmailUpdated
<1>5. CASE c.answer = "ok" /\ PasswordUpdated(c)
  <2>1. \E form \in Reread(c.kind, c.form) :
          queries' = queries \cup {Query(c.dev, c.kind, currentEmail[c.dev], form)}
    BY <1>5 DEF PasswordUpdated
  <2> QED
    BY <1>3, <1>5, <2>1, Fields DEF PasswordUpdated
<1>6. CASE (c.answer = "ok" /\ AccountDeleted(c)) \/ Alerted(c)
  BY <1>1, <1>6 DEF AccountDeleted, Alerted
<1> QED
  BY <1>2, <1>4, <1>5, <1>6 DEF CallReturns

\* The queries that clicks make.
LEMMA ClickedHarmless ==
  ASSUME HeldInv, NEW d \in Device, ClickStep(d) \/ DeleteAccountClicked(d)
  PROVE  \A q \in queries' : Harmless(q)
<1>1. \A q \in queries : Harmless(q)
  BY DEF HeldInv, Harmless
<1>2. CASE UpdateNameClicked(d)
  <2>1. PICK text \in Username \cup {Empty} :
          queries' = queries \cup
            {Query(d, "username", currentEmail[d], Form([username |-> text]))}
    BY <1>2 DEF UpdateNameClicked
  <2> DEFINE texts == [username |-> text]
  <2>2. DOMAIN texts = {"username"}
    OBVIOUS
  <2> HIDE DEF texts
  <2>3. \A f \in Credential : Form(texts)[f] = Absent
    BY <2>2, Fields DEF Form
  <2>4. Harmless(Query(d, "username", currentEmail[d], Form(texts)))
    BY <2>3 DEF Query, Harmless, Accepted
  <2> QED
    BY <1>1, <2>1, <2>4 DEF texts
<1>3. CASE MapAppears(d) \/ DeleteAccountClicked(d)
  BY <1>1, <1>3, LoadHarmless DEF MapAppears, DeleteAccountClicked
<1>4. CASE SignUpClicked(d) \/ LogInClicked(d) \/ UpdateClicked(d)
  BY <1>1, <1>4 DEF SignUpClicked, LogInClicked, UpdateClicked
<1> QED
  BY <1>2, <1>3, <1>4 DEF ClickStep

LEMMA QueriesHeld ==
  ASSUME Typed, HeldInv, LeftAlone, [Next]_vars
  PROVE  \A q \in queries' : Harmless(q)
<1>1. \A q \in queries : Harmless(q)
  BY DEF HeldInv, Harmless
<1>2. ASSUME NEW d, Restarted(d) PROVE \A q \in queries' : Harmless(q)
  BY <1>1, <1>2, LoadHarmless DEF Restarted
<1>3. ASSUME NEW q \in queries, AnswerQuery(q) PROVE \A p \in queries' : Harmless(p)
  <2>1. PICK found, name :
          queries' = (queries \ {q}) \cup
            {[q EXCEPT !.answered = TRUE, !.found = found, !.name = name]}
    BY <1>3 DEF AnswerQuery
  <2> DEFINE p == [q EXCEPT !.answered = TRUE, !.found = found, !.name = name]
  <2>2. p.form = q.form /\ p.kind = q.kind
    BY DEF Typed, GoodQueries, QueryRecord
  <2> HIDE DEF p
  <2>3. Harmless(p)
    BY <1>1, <2>2 DEF Harmless
  <2> QED
    BY <1>1, <2>1, <2>3 DEF p
<1>4. CASE queries' \subseteq queries
  BY <1>1, <1>4
<1>5. CASE AnyClick
  BY <1>2, <1>5, ClickedHarmless DEF AnyClick, Relaunch
<1>6. CASE Reaction
  BY <1>2, <1>3, <1>4, <1>6, AnsweredHarmless DEF Reaction, LogOutClicked, CommitWrite,
     RejectWrite, AuthAccepts, AuthRefuses, PasswordCrashes, QueryReturns, QueryFails
<1>7. CASE UNCHANGED vars
  BY <1>4, <1>7 DEF vars
<1> QED
  BY <1>5, <1>6, <1>7 DEF Next

LEMMA HeldInit == Init => HeldInv
<1> SUFFICES ASSUME Init PROVE HeldInv
  OBVIOUS
<1>1. \A u \in Account : Accepted(userInfo[u])
  BY NothingAccepted DEF Init
<1>2. \A d \in Device, u \in Account \cup {Nobody} : DOMAIN writes[d][u] = {}
  BY DEF Init
<1> QED
  BY <1>1, <1>2 DEF Init, HeldInv

LEMMA HeldNext == Typed /\ HeldInv /\ LeftAlone /\ [Next]_vars => HeldInv'
<1> SUFFICES ASSUME Typed, HeldInv, LeftAlone, [Next]_vars PROVE HeldInv'
  OBVIOUS
<1>1. \A u \in Account : AcceptedThen(userInfo'[u])
  BY DocumentsHeld, StaysAccepted
<1>2. \A c \in calls' : c.answer = "ok" => AcceptedThen(c.form)
  BY CallsHeld
<1>3. \A q \in queries' :
        /\ AcceptedThen(q.form)
        /\ q.kind = "username" => \A f \in Credential : q.form[f] = Absent
  BY QueriesHeld, StaysAccepted DEF Harmless
<1>4. \A d \in Device, u \in Account \cup {Nobody} :
        \A i \in DOMAIN writes'[d][u] : AcceptedThen(writes'[d][u][i].form)
  <2> SUFFICES ASSUME NEW d \in Device, NEW u \in Account \cup {Nobody},
                      NEW i \in DOMAIN writes'[d][u]
               PROVE  AcceptedThen(writes'[d][u][i].form)
    OBVIOUS
  <2>1. Accepted(writes'[d][u][i].form)
    BY WritesHeld DEF WritesFrom, HeldInv
  <2> QED
    BY <2>1, StaysAccepted
<1> QED
  BY <1>1, <1>2, <1>3, <1>4 DEF HeldInv, Accepted, AcceptedThen

\* Where users leave the email and password fields alone until their request is
\* answered, no document ever holds an email or a password that Auth has not
\* accepted before: the write of signUpVC.signUpClicked and those of
\* editAccountVC.updateClicked are queued in the callbacks of createUser,
\* updateEmail and updatePassword, after these have succeeded.
THEOREM DocumentsFollowAuth ==
  ASSUME LeftAlone
  PROVE  Spec => []NeverAheadOfAuth
<1>1. Init => Typed /\ HeldInv
  BY TypedInit, HeldInit
<1>2. Typed /\ HeldInv /\ [Next]_vars => Typed' /\ HeldInv'
  BY TypedNext, HeldNext
<1>3. HeldInv => NeverAheadOfAuth
  BY DEF HeldInv, Accepted, NeverAheadOfAuth
<1> QED
  BY <1>1, <1>2, <1>3, PTL DEF Spec

-----------------------------------------------------------------------------
(* Patient histories: types *)

\* A step of a patient history is a step of Accounts.
LEMMA PatientStepIsNext == PatientStep => Next
BY DEF PatientStep, PatientClick, AuthStep, CommitTyped, QueryStep, Next, AnyClick, Reaction

LEMMA StepIsNext == Step => Next /\ patient' = patient
BY PatientStepIsNext DEF Step, Next

LEMMA HistoryTypes == Histories => []Typed
<1>1. EitherInit => Typed
  BY TypedInit DEF EitherInit
<1>2. Typed /\ [Step]_<<vars, patient>> => Typed'
  BY StepIsNext, TypedNext DEF vars
<1> QED
  BY <1>1, <1>2, PTL DEF Histories

-----------------------------------------------------------------------------
(* Patient histories: one request at a time *)

\* A document that has what Auth has of user u, and a username.
Agrees(doc, u) == doc["username"] # Absent /\ \A f \in Credential : doc[f] = accounts[u][f]

Recorded(u) ==
  IF accounts[u] = NoAccount THEN userInfo[u] = NoDocument ELSE Agrees(userInfo[u], u)

\* What the singleton has of user u's document.
ShownOf(u) == [email |-> userInfo[u]["email"], username |-> userInfo[u]["username"]]

\* Phone d knows the email of its user, and shows the user's document.
Ready(d) ==
  currentUser[d] # Nobody =>
    /\ accounts[currentUser[d]] # NoAccount
    /\ currentEmail[d] = accounts[currentUser[d]]["email"]
    /\ info[d] = ShownOf(currentUser[d])

NoWrites == \A d \in Device, u \in Account \cup {Nobody} : writes[d][u] = <<>>

\* No two accounts, and no two documents, share an email; accounts that were not
\* created do not exist.
Apart ==
  /\ \A u, v \in Account :
       u # v /\ accounts[u] # NoAccount => accounts[u]["email"] # accounts[v]["email"]
  /\ \A u, v \in Account :
       u # v /\ userInfo[u] # NoDocument => userInfo[u]["email"] # userInfo[v]["email"]
  /\ \A u \in Account : accounts[u] # NoAccount => u <= created /\ accounts[u]["email"] \in Email

AllWell == (\A u \in Account : Recorded(u)) /\ \A d \in Device : Ready(d)

OthersWell(d, u) ==
  (\A v \in Account \ {u} : Recorded(v)) /\ \A e \in Device \ {d} : Ready(e)

AtRest == calls = {} /\ queries = {} /\ NoWrites /\ AllWell

\* What a call asks for, on the phone of its user or of nobody.
Asked(c) ==
  \/ /\ c.kind \in {"create", "signIn"} /\ currentUser[c.dev] = Nobody
     /\ \A f \in Credential : c.form[f] \in TextOf[f]
     /\ c.form["username"] = Absent <=> c.kind = "signIn"
  \/ /\ c.kind \in Credential /\ currentUser[c.dev] = c.account /\ c.account # Nobody
     /\ \A f \in Field : IF f = c.kind THEN c.form[f] \in TextOf[f] ELSE c.form[f] = Absent
     /\ c.old = currentEmail[c.dev]

\* A call that Auth has not accepted.
Calling ==
  /\ \E c \in calls : calls = {c} /\ c.answer # "ok" /\ Asked(c)
  /\ queries = {} /\ NoWrites /\ AllWell

\* Phone d has the user's account and shows the user's document as it is.
Behind(d, u) ==
  /\ currentUser[d] = u /\ accounts[u] # NoAccount
  /\ currentEmail[d] = userInfo[u]["email"] /\ info[d] = ShownOf(u)

\* Auth has accepted phone d's call about user u: the document lacks its texts.
Called(d, u) ==
  /\ \E c \in calls :
       /\ calls = {c} /\ c.dev = d /\ c.account = u /\ c.answer = "ok"
       /\ Agrees(Merge(userInfo[u], c.form), u)
       /\ \/ c.kind = "create" /\ userInfo[u] = NoDocument /\ currentUser[d] = Nobody
          \/ c.kind = "signIn" /\ Recorded(u) /\ currentUser[d] = Nobody
          \/ /\ c.kind \in Credential /\ Behind(d, u)
             /\ \A f \in Field : c.form[f] # Absent <=> f = c.kind
             /\ c.old = userInfo[u]["email"]
  /\ accounts[u] # NoAccount
  /\ queries = {} /\ NoWrites /\ OthersWell(d, u)

\* Phone d is signed in for user u, whose document is about to be written.
Ahead(d, u) ==
  /\ currentUser[d] = u /\ accounts[u] # NoAccount /\ currentEmail[d] = accounts[u]["email"]
  /\ calls = {} /\ OthersWell(d, u)

\* The document to write is looked up.
Looking(d, u) ==
  /\ Ahead(d, u) /\ NoWrites
  /\ info[d] = [email |-> accounts[u]["email"], username |-> userInfo[u]["username"]]
  /\ userInfo[u] # NoDocument
  /\ \E q \in queries :
       /\ queries = {q} /\ q.dev = d /\ q.kind \in Field /\ q.email = userInfo[u]["email"]
       /\ q.answered => q.found = {u}
       /\ Agrees(Merge(userInfo[u], q.form), u)
       /\ q.form["username"] # Absent <=> q.kind = "username"

\* The document's texts are going to be doc's; the singleton has them unless a
\* query of getUserInfo is on its way.
Shown(d, u, doc) ==
  \/ queries = {} /\ info[d] = [email |-> doc["email"], username |-> doc["username"]]
  \/ \E q \in queries :
       /\ queries = {q} /\ q.dev = d /\ q.kind = "load" /\ q.email = accounts[u]["email"]
       /\ q.answered => q.name = doc["username"]

Loading(d, u) ==
  /\ Ahead(d, u) /\ NoWrites /\ Recorded(u) /\ Shown(d, u, userInfo[u])

\* The write is queued; it may have been applied already.
Writing(d, u) ==
  /\ Ahead(d, u)
  /\ \E w \in WriteRecord :
       /\ \A e \in Device, v \in Account \cup {Nobody} :
            writes[e][v] = IF e = d /\ v = u THEN <<w>> ELSE <<>>
       /\ w.doc = u /\ ~w.erase /\ Agrees(Merge(userInfo[u], w.form), u)
       /\ IF w.attached
            THEN queries = {} /\ info[d].email = accounts[u]["email"] /\ w.form["username"] # Absent
            ELSE Shown(d, u, Merge(userInfo[u], w.form))

InPhase ==
  \/ AtRest \/ Calling
  \/ \E d \in Device, u \in Account : Called(d, u) \/ Looking(d, u) \/ Loading(d, u) \/ Writing(d, u)

PatientInv == OnePhoneEach /\ Apart /\ InPhase

\* Documents and forms, field by field.
LEMMA MergeIs ==
  ASSUME NEW old \in GoodForms, NEW form \in GoodForms
  PROVE  /\ Merge(old, form) \in GoodForms
         /\ \A f \in Field : Merge(old, form)[f] = IF form[f] = Absent THEN old[f] ELSE form[f]
         /\ Merge(Merge(old, form), form) = Merge(old, form)
<1>1. /\ Merge(old, form) \in GoodForms /\ DOMAIN old = Field
      /\ Merge(Merge(old, form), form) \in GoodForms
  BY MergeGood DEF GoodForms, Forms
<1>2. \A f \in Field : Merge(old, form)[f] = IF form[f] = Absent THEN old[f] ELSE form[f]
  BY <1>1 DEF Merge
<1>3. DOMAIN Merge(old, form) = Field
  BY <1>1 DEF GoodForms, Forms
<1>4. \A f \in Field : Merge(Merge(old, form), form)[f] = Merge(old, form)[f]
  BY <1>2, <1>3 DEF Merge
<1>5. Merge(Merge(old, form), form) = Merge(old, form)
  BY <1>1, <1>4 DEF GoodForms, Forms
<1> QED
  BY <1>1, <1>2, <1>5

LEMMA NothingIs ==
  /\ NoDocument \in GoodForms /\ \A f \in Field : NoDocument[f] = Absent
  /\ \A f \in Credential : NoAccount[f] = Absent
BY NothingGood DEF NoDocument, NoAccount

\* What the types say of users and their phones.
LEMMA PhoneFacts ==
  ASSUME Typed, NEW d \in Device
  PROVE  /\ currentUser[d] \in Account \cup {Nobody}
         /\ info[d] \in [email : Email \cup {Empty}, username : Username \cup {Empty}]
         /\ currentUser \in [Device -> Account \cup {Nobody}]
         /\ currentEmail \in [Device -> Email \cup {Empty}]
         /\ info \in [Device -> [email : Email \cup {Empty}, username : Username \cup {Empty}]]
         /\ Nobody \notin Account /\ Absent \notin Email
BY Constants DEF Typed, PhoneTyped

LEMMA DocumentFacts ==
  ASSUME Typed, NEW u \in Account
  PROVE  /\ userInfo \in [Account -> GoodForms] /\ userInfo[u] \in GoodForms
         /\ accounts \in [Account -> [Credential -> Text \cup {Absent}]]
         /\ DOMAIN accounts[u] = Credential
         /\ Nobody \notin Account
BY Constants DEF Typed, AuthTyped

\* An account's document has its email, which is one.
LEMMA RecordedEmail ==
  ASSUME Apart, NEW u \in Account, accounts[u] # NoAccount, Recorded(u)
  PROVE  /\ userInfo[u]["email"] = accounts[u]["email"] /\ userInfo[u]["email"] \in Email
         /\ userInfo[u] # NoDocument /\ Agrees(userInfo[u], u)
BY Fields, NothingIs, Constants DEF Apart, Recorded, Agrees

\* What does not change.
LEMMA SameApart == Apart /\ UNCHANGED <<accounts, userInfo, created>> => Apart'
BY DEF Apart

LEMMA SameRecorded ==
  ASSUME NEW u \in Account, accounts'[u] = accounts[u], userInfo'[u] = userInfo[u], Recorded(u)
  PROVE  Recorded(u)'
BY DEF Recorded, Agrees

LEMMA SameReady ==
  ASSUME NEW d \in Device, Ready(d), currentUser'[d] = currentUser[d],
         currentEmail'[d] = currentEmail[d], info'[d] = info[d],
         \A u \in {currentUser[d]} : accounts'[u] = accounts[u] /\ userInfo'[u] = userInfo[u]
  PROVE  Ready(d)'
BY DEF Ready, ShownOf

LEMMA NobodyReady ==
  ASSUME NEW d \in Device, currentUser[d] = Nobody
  PROVE  Ready(d)
BY DEF Ready

\* Nobody else is signed in as user u.
Alone(d, u) == \A e \in Device \ {d} : currentUser[e] # u

LEMMA AheadAlone ==
  ASSUME OnePhoneEach, NEW d \in Device, NEW u \in Account, currentUser[d] = u
  PROVE  Alone(d, u)
BY Constants DEF OnePhoneEach, Alone

LEMMA SameOthers ==
  ASSUME Typed, NEW d \in Device, NEW u \in Account, OthersWell(d, u), Alone(d, u),
         \A v \in Account \ {u} : accounts'[v] = accounts[v] /\ userInfo'[v] = userInfo[v],
         \A e \in Device \ {d} : /\ currentUser'[e] = currentUser[e]
                                 /\ currentEmail'[e] = currentEmail[e] /\ info'[e] = info[e]
  PROVE  OthersWell(d, u)'
<1>1. \A v \in Account \ {u} : Recorded(v)'
  BY SameRecorded DEF OthersWell
<1>2. ASSUME NEW e \in Device \ {d} PROVE Ready(e)'
  <2>1. CASE currentUser[e] = Nobody
    BY <2>1, NobodyReady DEF Ready
  <2>2. CASE currentUser[e] # Nobody
    <3>1. currentUser[e] \in Account \ {u}
      BY <2>2, PhoneFacts DEF Alone
    <3> QED
      BY <3>1, SameReady DEF OthersWell
  <2> QED
    BY <2>1, <2>2
<1> QED
  BY <1>1, <1>2 DEF OthersWell

LEMMA SameOthersAll ==
  ASSUME NEW d \in Device, NEW u \in Account, OthersWell(d, u),
         UNCHANGED <<accounts, userInfo>>,
         \A e \in Device \ {d} : /\ currentUser'[e] = currentUser[e]
                                 /\ currentEmail'[e] = currentEmail[e] /\ info'[e] = info[e]
  PROVE  OthersWell(d, u)'
BY SameRecorded, SameReady DEF OthersWell

LEMMA SameWell ==
  AllWell /\ UNCHANGED <<accounts, userInfo, phoneVars>> => AllWell'
BY SameRecorded, SameReady DEF AllWell, phoneVars

LEMMA SameNoWrites == NoWrites /\ writes' = writes => NoWrites'
BY DEF NoWrites

LEMMA WellBut ==
  ASSUME AllWell, NEW d \in Device, NEW u \in Account
  PROVE  OthersWell(d, u)
BY DEF AllWell, OthersWell

\* What a phone sees of the documents: what is stored, or what will be.
LEMMA SeenNow ==
  ASSUME Typed, NEW d \in Device, writes[d][currentUser[d]] = <<>>
  PROVE  Seen(d) = userInfo
<1> DEFINE queue == writes[d][currentUser[d]]
           deciding(u, f) == {i \in DOMAIN queue : Decides(queue[i], u, f)}
           seen(u, f) == IF deciding(u, f) = {} THEN userInfo[u][f]
                         ELSE queue[Max(deciding(u, f))].form[f]
<1>1. DOMAIN <<>> = {}
  OBVIOUS
<1>2. \A u \in Account, f \in Field : seen(u, f) = userInfo[u][f]
  BY <1>1
<1>3. Seen(d) = [u \in Account |-> [f \in Field |-> seen(u, f)]]
  BY DEF Seen
<1> HIDE DEF seen
<1>4. Seen(d) \in [Account -> GoodForms] /\ userInfo \in [Account -> GoodForms]
  BY SeenGood DEF Typed
<1>5. ASSUME NEW u \in Account PROVE Seen(d)[u] = userInfo[u]
  <2>1. Seen(d)[u] \in GoodForms /\ userInfo[u] \in GoodForms /\ \A f \in Field : Seen(d)[u][f] = userInfo[u][f]
    BY <1>2, <1>3, <1>4
  <2> QED
    BY <2>1 DEF GoodForms, Forms
<1> QED
  BY <1>4, <1>5

LEMMA SeenNext ==
  ASSUME Typed, NEW d \in Device, NEW u \in Account, NEW w \in GoodWrites,
         writes[d][currentUser[d]] = <<w>>, w.doc = u, ~w.erase
  PROVE  /\ \A f \in Field : Seen(d)[u][f] = Merge(userInfo[u], w.form)[f]
         /\ \A v \in Account \ {u}, f \in Field : Seen(d)[v][f] = userInfo[v][f]
<1> DEFINE queue == writes[d][currentUser[d]]
           deciding(v, f) == {i \in DOMAIN queue : Decides(queue[i], v, f)}
           seen(v, f) == IF deciding(v, f) = {} THEN userInfo[v][f]
                         ELSE queue[Max(deciding(v, f))].form[f]
<1>1. DOMAIN queue = {1} /\ queue[1] = w
  OBVIOUS
<1>2. Seen(d) = [v \in Account |-> [f \in Field |-> seen(v, f)]]
  BY DEF Seen
<1> HIDE DEF queue
<1>3. \A v \in Account, f \in Field :
        deciding(v, f) = IF v = u /\ w.form[f] # Absent THEN {1} ELSE {}
  BY <1>1 DEF Decides
<1>4. Max({1}) = 1
  BY MaxOf
<1>5. \A v \in Account, f \in Field :
        seen(v, f) = IF v = u /\ w.form[f] # Absent THEN w.form[f] ELSE userInfo[v][f]
  BY <1>1, <1>3, <1>4
<1> HIDE DEF seen
<1>6. \A f \in Field : Merge(userInfo[u], w.form)[f] = IF w.form[f] = Absent THEN userInfo[u][f] ELSE w.form[f]
  BY MergeIs, DocumentFacts DEF GoodWrites
<1> QED
  BY <1>2, <1>5, <1>6

-----------------------------------------------------------------------------
(* Patient histories: steps *)

LEMMA LoadedRests ==
  ASSUME NEW d \in Device, NEW u \in Account, Loading(d, u), queries = {}
  PROVE  AtRest
<1>1. /\ Ahead(d, u) /\ Recorded(u) /\ NoWrites /\ calls = {} /\ OthersWell(d, u)
      /\ info[d] = ShownOf(u) /\ accounts[u] # NoAccount
  BY DEF Loading, Shown, Ahead, ShownOf
<1>2. Ready(d)
  BY <1>1 DEF Ready, Ahead
<1> QED
  BY <1>1, <1>2 DEF AtRest, AllWell, OthersWell

\* When everything is settled no request is on its way.
LEMMA SettledRests ==
  ASSUME InPhase, Settled
  PROVE  AtRest
<1>1. calls = {} /\ queries = {}
  BY DEF Settled
<1>2. ASSUME NEW d \in Device, NEW u \in Account, Writing(d, u) PROVE FALSE
  <2>1. PICK w : writes[d][u] = <<w>>
    BY <1>2 DEF Writing
  <2>2. <<w>> # <<>>
    OBVIOUS
  <2>3. accounts[u] = NoAccount
    BY <2>1, <2>2 DEF Settled
  <2> QED
    BY <1>2, <2>3 DEF Writing, Ahead
<1> QED
  BY <1>1, <1>2, LoadedRests DEF InPhase, Calling, Called, Looking

\* A call to Auth goes out.
LEMMA CallClicked ==
  ASSUME AtRest, UNCHANGED <<authVars, phoneVars, userInfo, queries, writes>>,
         NEW d \in Device, NEW kind, NEW form, Call(d, kind, form),
         \/ /\ kind \in {"create", "signIn"} /\ currentUser[d] = Nobody
            /\ \A f \in Credential : form[f] \in TextOf[f]
            /\ form["username"] = Absent <=> kind = "signIn"
         \/ /\ kind \in Credential /\ currentUser[d] # Nobody
            /\ \A f \in Field : IF f = kind THEN form[f] \in TextOf[f] ELSE form[f] = Absent
  PROVE  Calling'
<1> DEFINE k == [n |-> clicks, dev |-> d, kind |-> kind, form |-> form, answer |-> "none",
                 account |-> currentUser[d], old |-> currentEmail[d]]
<1>1. /\ calls' = {k} /\ k.dev = d /\ k.kind = kind /\ k.form = form /\ k.answer = "none"
      /\ k.account = currentUser[d] /\ k.old = currentEmail[d]
  BY DEF AtRest, Call
<1> HIDE DEF k
<1>2. ASSUME NEW c, c = k PROVE Asked(c)'
  BY <1>1, <1>2 DEF Asked, phoneVars
<1>3. \E c \in calls' : calls' = {c} /\ c.answer # "ok" /\ Asked(c)'
  BY <1>1, <1>2
<1>4. queries' = {} /\ NoWrites' /\ AllWell'
  BY SameNoWrites, SameWell DEF AtRest, authVars
<1> QED
  BY <1>3, <1>4 DEF Calling

\* The forms of calls and edits.
LEMMA FormsAre ==
  /\ \A e, p, n :
       LET form == Form([email |-> e, password |-> p, username |-> n])
       IN  form["email"] = e /\ form["password"] = p /\ form["username"] = n
  /\ \A e, p :
       LET form == Form([email |-> e, password |-> p])
       IN  form["email"] = e /\ form["password"] = p /\ form["username"] = Absent
  /\ \A n :
       LET form == Form([username |-> n])
       IN  form["email"] = Absent /\ form["password"] = Absent /\ form["username"] = n
BY DEF Form, Field

\* The map appears, or comes back: getUserInfo.
LEMMA MapClicked ==
  ASSUME Typed, Apart, AtRest, NEW d \in Device, MapAppears(d)
  PROVE  \E u \in Account : Loading(d, u)'
<1>1. PICK u \in Account : u = currentUser[d] /\ u # Nobody /\ accounts[u] # NoAccount
  BY PhoneFacts DEF MapAppears, AtRest, AllWell, Ready
<1>2. /\ UNCHANGED <<accounts, userInfo, currentUser, currentEmail, calls, writes>>
      /\ \A e \in Device \ {d} : info'[e] = info[e]
      /\ queries' = {LoadQuery(d, currentEmail[d])}
  BY PhoneFacts DEF MapAppears, AtRest, authVars
<1> DEFINE k == LoadQuery(d, currentEmail[d])
<1>3. /\ queries' = {k} /\ k.dev = d /\ k.kind = "load" /\ k.email = accounts[u]["email"] /\ ~k.answered
      /\ currentEmail[d] = accounts[u]["email"]
  BY <1>1, <1>2 DEF LoadQuery, Query, AtRest, AllWell, Ready
<1> HIDE DEF k
<1>4. OthersWell(d, u)' /\ Recorded(u)'
  BY <1>2, WellBut, SameOthersAll, SameRecorded DEF AtRest, AllWell
<1>5. Shown(d, u, userInfo[u])'
  BY <1>2, <1>3 DEF Shown
<1>6. Ahead(d, u)' /\ NoWrites'
  BY <1>1, <1>2, <1>3, <1>4, SameNoWrites DEF Ahead, AtRest
<1> QED
  BY <1>4, <1>5, <1>6 DEF Loading

\* A username is edited: the user's document is looked up.
LEMMA NameClicked ==
  ASSUME Typed, Apart, AtRest, NEW d \in Device, UpdateNameClicked(d)
  PROVE  \E u \in Account : Looking(d, u)'
<1>1. PICK u \in Account : u = currentUser[d] /\ u # Nobody /\ accounts[u] # NoAccount
  BY PhoneFacts DEF UpdateNameClicked, AtRest, AllWell, Ready
<1>2. UNCHANGED <<accounts, userInfo, currentUser, currentEmail, info, calls, writes>>
  BY DEF UpdateNameClicked, authVars, phoneVars
<1>3. PICK text \in Username \cup {Empty} :
        queries' = {Query(d, "username", currentEmail[d], Form([username |-> text]))}
  BY DEF UpdateNameClicked, AtRest
<1> DEFINE form == Form([username |-> text])
           k == Query(d, "username", currentEmail[d], form)
<1>4. /\ form \in GoodForms
      /\ form["email"] = Absent /\ form["password"] = Absent /\ form["username"] = text
      /\ text # Absent
  <2>1. form["email"] = Absent /\ form["password"] = Absent /\ form["username"] = text
    BY FormsAre
  <2>2. \A f \in Field : form[f] \in Holds(f)
    BY <2>1, Fields, FieldTexts
  <2>3. form \in Forms
    BY <2>2, FieldTexts DEF Form, Forms
  <2> QED
    BY <2>1, <2>2, <2>3, Constants DEF GoodForms
<1> HIDE DEF form
<1>5. /\ queries' = {k} /\ k.dev = d /\ k.kind = "username" /\ k.email = currentEmail[d]
      /\ ~k.answered /\ k.form = form
  BY <1>3 DEF Query, form
<1> HIDE DEF k
<1>6. /\ currentEmail[d] = accounts[u]["email"] /\ info[d] = ShownOf(u)
      /\ userInfo[u]["email"] = accounts[u]["email"] /\ userInfo[u] # NoDocument
      /\ Agrees(userInfo[u], u)
  BY <1>1, RecordedEmail DEF AtRest, AllWell, Ready
<1>7. Agrees(Merge(userInfo[u], form), u)
  <2>1. \A f \in Field : Merge(userInfo[u], form)[f] = IF form[f] = Absent THEN userInfo[u][f] ELSE form[f]
    BY <1>4, MergeIs, DocumentFacts
  <2> QED
    BY <1>4, <1>6, <2>1, Fields DEF Agrees
<1>8. Agrees(Merge(userInfo[u], form), u)'
  BY <1>2, <1>7, form' = form DEF Agrees, Merge
<1>9. /\ queries' = {k} /\ k.dev = d /\ k.kind \in Field /\ k.email = userInfo'[u]["email"]
      /\ k.answered => k.found = {u}
      /\ k.form["username"] # Absent <=> k.kind = "username"
  BY <1>2, <1>4, <1>5, <1>6, Fields
<1>10. Ahead(d, u)' /\ NoWrites'
  <2>1. OthersWell(d, u)'
    BY <1>2, WellBut, SameOthersAll DEF AtRest
  <2> QED
    BY <1>1, <1>2, <1>6, <2>1, SameNoWrites DEF Ahead, AtRest
<1>11. info'[d] = [email |-> accounts'[u]["email"], username |-> userInfo'[u]["username"]]
  BY <1>2, <1>6 DEF ShownOf
<1> QED
  BY <1>2, <1>5, <1>6, <1>8, <1>9, <1>10, <1>11 DEF Looking

LEMMA PatientClicked ==
  ASSUME Typed, PatientInv, PatientClick
  PROVE  Apart' /\ InPhase'
<1>1. AtRest
  BY SettledRests DEF PatientClick, PatientInv
<1>2. PICK d \in Device : ClickStep(d) \/ LogOutClicked(d)
  BY DEF PatientClick
<1>3. Apart'
  BY <1>2, SameApart DEF PatientInv, ClickStep, SignUpClicked, LogInClicked, MapAppears,
     UpdateClicked, UpdateNameClicked, LogOutClicked, authVars
<1>4. CASE SignUpClicked(d)
  <2>1. PICK e \in Email, p \in Password, n \in Username :
          Call(d, "create", Form([email |-> e, password |-> p, username |-> n]))
    BY <1>4 DEF SignUpClicked
  <2> DEFINE form == Form([email |-> e, password |-> p, username |-> n])
  <2>2. form["email"] = e /\ form["password"] = p /\ form["username"] = n
    BY FormsAre
  <2> HIDE DEF form
  <2>3. (\A f \in Credential : form[f] \in TextOf[f]) /\ form["username"] # Absent
    BY <2>2, Fields, FieldTexts, Constants
  <2>4. Calling'
    BY <1>1, <1>4, <2>1, <2>3, CallClicked DEF SignUpClicked, form
  <2> QED
    BY <1>3, <2>4 DEF InPhase
<1>5. CASE LogInClicked(d)
  <2>1. PICK e \in Email, p \in Password : Call(d, "signIn", Form([email |-> e, password |-> p]))
    BY <1>5 DEF LogInClicked
  <2> DEFINE form == Form([email |-> e, password |-> p])
  <2>2. form["email"] = e /\ form["password"] = p /\ form["username"] = Absent
    BY FormsAre
  <2> HIDE DEF form
  <2>3. \A f \in Credential : form[f] \in TextOf[f]
    BY <2>2, Fields, FieldTexts
  <2>4. Calling'
    BY <1>1, <1>5, <2>1, <2>2, <2>3, CallClicked DEF LogInClicked, form
  <2> QED
    BY <1>3, <2>4 DEF InPhase
<1>6. CASE UpdateClicked(d)
  <2>1. PICK f \in Credential : \E text \in TextOf[f] : Call(d, f, Form([g \in {f} |-> text]))
    BY <1>6 DEF UpdateClicked
  <2>2. PICK text \in TextOf[f] : Call(d, f, Form([g \in {f} |-> text]))
    BY <2>1
  <2> DEFINE form == Form([g \in {f} |-> text])
  <2>3. \A g \in Field : form[g] = IF g = f THEN text ELSE Absent
    BY Fields DEF Form
  <2> HIDE DEF form
  <2>4. \A g \in Field : IF g = f THEN form[g] \in TextOf[g] ELSE form[g] = Absent
    BY <2>3
  <2>5. Calling'
    BY <1>1, <1>6, <2>2, <2>4, CallClicked DEF UpdateClicked, form
  <2> QED
    BY <1>3, <2>5 DEF InPhase
<1>7. CASE MapAppears(d)
  BY <1>1, <1>3, <1>7, MapClicked DEF InPhase, PatientInv
<1>8. CASE UpdateNameClicked(d)
  BY <1>1, <1>3, <1>8, NameClicked DEF InPhase, PatientInv
<1>9. CASE LogOutClicked(d)
  <2>1. /\ UNCHANGED <<accounts, userInfo, currentEmail, info, calls, queries, writes>>
        /\ \A e \in Device : currentUser'[e] = IF e = d THEN Nobody ELSE currentUser[e]
    BY <1>9, PhoneFacts DEF LogOutClicked, authVars
  <2>2. ASSUME NEW e \in Device PROVE Ready(e)'
    <3>1. CASE e = d
      BY <2>1, <3>1 DEF Ready
    <3>2. CASE e # d
      BY <1>1, <2>1, <3>2, SameReady DEF AtRest, AllWell
    <3> QED
      BY <3>1, <3>2
  <2>3. AtRest'
    BY <1>1, <2>1, <2>2, SameRecorded, SameNoWrites DEF AtRest, AllWell
  <2> QED
    BY <1>3, <2>3 DEF InPhase
<1> QED
  BY <1>2, <1>4, <1>5, <1>6, <1>7, <1>8, <1>9 DEF ClickStep

\* A call that has no answer is the only thing under way.
LEMMA CallIs ==
  ASSUME Typed, InPhase, NEW c \in calls
  PROVE  /\ c \in GoodCalls /\ c.dev \in Device
         /\ \/ Calling /\ calls = {c} /\ c.answer # "ok" /\ Asked(c)
            \/ /\ calls = {c} /\ c.account \in Account /\ c.answer = "ok" /\ Called(c.dev, c.account)
               /\ queries = {} /\ NoWrites
<1>1. c \in GoodCalls /\ c.dev \in Device
  BY DEF Typed, GoodCalls, CallRecord
<1>2. CASE Calling
  BY <1>1, <1>2 DEF Calling
<1>3. ASSUME NEW d \in Device, NEW u \in Account, Called(d, u)
      PROVE  /\ calls = {c} /\ c.dev = d /\ c.account = u /\ c.answer = "ok"
             /\ queries = {} /\ NoWrites
  BY <1>3 DEF Called
<1>4. CASE \E d \in Device, u \in Account : Called(d, u)
  BY <1>1, <1>3, <1>4
<1> QED
  BY <1>1, <1>2, <1>4 DEF InPhase, AtRest, Looking, Loading, Writing, Ahead

LEMMA PatientRefused ==
  ASSUME Typed, PatientInv, NEW c \in calls, AuthRefuses(c)
  PROVE  Apart' /\ InPhase'
<1>1. calls = {c} /\ Asked(c) /\ c \in GoodCalls /\ queries = {} /\ NoWrites /\ AllWell
  BY CallIs DEF AuthRefuses, PatientInv, Calling
<1>2. UNCHANGED <<accounts, created, userInfo, phoneVars, queries, writes>>
  BY DEF AuthRefuses, authVars
<1> DEFINE k == [c EXCEPT !.answer = "error"]
<1>3. /\ calls' = {k} /\ k.dev = c.dev /\ k.kind = c.kind /\ k.form = c.form
      /\ k.account = c.account /\ k.old = c.old /\ k.answer = "error"
  BY <1>1 DEF AuthRefuses, GoodCalls, CallRecord
<1> HIDE DEF k
<1>4. ASSUME NEW j, j = k PROVE Asked(j)'
  BY <1>1, <1>2, <1>3, <1>4 DEF Asked, phoneVars
<1>5. \E j \in calls' : calls' = {j} /\ j.answer # "ok" /\ Asked(j)'
  BY <1>3, <1>4
<1>6. Calling'
  BY <1>1, <1>2, <1>5, SameWell, SameNoWrites DEF Calling
<1>7. Apart'
  BY <1>2, SameApart DEF PatientInv
<1> QED
  BY <1>6, <1>7 DEF InPhase

\* What an accepted call makes of the account.
LEMMA PatientAccepted ==
  ASSUME Typed, PatientInv, NEW c \in calls, AuthAccepts(c), \A k \in calls' : k.answer = "ok"
  PROVE  Apart' /\ InPhase'
<1>1. /\ calls = {c} /\ Asked(c) /\ c \in GoodCalls /\ queries = {} /\ NoWrites /\ AllWell
      /\ c.kind \in {"create", "signIn", "email", "password"} /\ c.form \in GoodForms /\ Apart
      /\ c.dev \in Device
  BY CallIs DEF AuthAccepts, PatientInv, Calling, Asked, Credential, GoodCalls
<1>2. PICK u \in Account, answer \in {"ok", "error"} :
        /\ Accepts(c, u)
        /\ accounts' = [accounts EXCEPT ![u] = Merge(@, c.form)]
        /\ created' = IF c.kind = "create" THEN u ELSE created
        /\ calls' = (calls \ {c}) \cup {[c EXCEPT !.answer = answer, !.account = u]}
  BY <1>1 DEF AuthAccepts
<1> DEFINE d == c.dev
           k == [c EXCEPT !.answer = answer, !.account = u]
<1>3. /\ calls' = {k} /\ k.dev = d /\ k.kind = c.kind /\ k.form = c.form
      /\ k.account = u /\ k.old = c.old /\ k.answer = "ok"
  BY <1>1, <1>2 DEF GoodCalls, CallRecord
<1> HIDE DEF k
<1>4. /\ UNCHANGED <<userInfo, currentUser, currentEmail, info, queries, writes>>
      /\ \A v \in Account \ {u} : accounts'[v] = accounts[v]
      /\ DOMAIN accounts'[u] = Credential
      /\ \A f \in Credential :
           accounts'[u][f] = IF c.form[f] = Absent THEN accounts[u][f] ELSE c.form[f]
  BY <1>2, DocumentFacts DEF AuthAccepts, phoneVars, Merge
<1>5. /\ Recorded(u) /\ Ready(d) /\ queries' = {} /\ NoWrites'
      /\ \A f \in Field : Merge(userInfo[u], c.form)[f] =
           IF c.form[f] = Absent THEN userInfo[u][f] ELSE c.form[f]
  BY <1>1, <1>4, MergeIs, DocumentFacts, SameNoWrites DEF AllWell
<1>6. ASSUME Alone(d, u) PROVE OthersWell(d, u)'
  BY <1>1, <1>4, <1>6, WellBut, SameOthers
<1>7. ASSUME accounts'[u]["email"] \in Email,
             \A v \in Account \ {u} : accounts'[u]["email"] # accounts[v]["email"],
             created' >= created, u <= created'
      PROVE  Apart' /\ accounts'[u] # NoAccount
  <2>1. accounts'[u] # NoAccount
    BY <1>7, NothingIs, Fields, Constants
  <2>2. created \in Int /\ created' \in Int /\ Account \subseteq Int
    BY <1>2, Constants DEF Typed, AuthTyped
  <2> QED
    BY <1>1, <1>4, <1>7, <2>1, <2>2 DEF Apart
<1>8. ASSUME accounts'[u] # NoAccount, OthersWell(d, u)',
             Agrees(Merge(userInfo[u], c.form), u)',
             \/ c.kind = "create" /\ userInfo[u] = NoDocument /\ currentUser[d] = Nobody
             \/ c.kind = "signIn" /\ Recorded(u)' /\ currentUser[d] = Nobody
             \/ /\ c.kind \in Credential /\ Behind(d, u)'
                /\ \A f \in Field : c.form[f] # Absent <=> f = c.kind
                /\ c.old = userInfo[u]["email"]
      PROVE  InPhase'
  <2>1. \E j \in calls' :
          /\ calls' = {j} /\ j.dev = d /\ j.account = u /\ j.answer = "ok"
          /\ Agrees(Merge(userInfo[u], j.form), u)'
          /\ \/ j.kind = "create" /\ userInfo'[u] = NoDocument /\ currentUser'[d] = Nobody
             \/ j.kind = "signIn" /\ Recorded(u)' /\ currentUser'[d] = Nobody
             \/ /\ j.kind \in Credential /\ Behind(d, u)'
                /\ \A f \in Field : j.form[f] # Absent <=> f = j.kind
                /\ j.old = userInfo'[u]["email"]
    <3>1. Agrees(Merge(userInfo[u], k.form), u)'
      BY <1>3, <1>4, <1>8 DEF Agrees, Merge
    <3> QED
      BY <1>3, <1>4, <1>8, <3>1
  <2>2. Called(d, u)'
    BY <1>5, <1>8, <2>1 DEF Called
  <2> QED
    BY <1>1, <2>2 DEF InPhase
<1>9. CASE c.kind = "create"
  <2>1. /\ u = created + 1 /\ Unused(c.form["email"]) /\ created \in Int
        /\ currentUser[d] = Nobody /\ \A f \in Field : c.form[f] # Absent
        /\ c.form["email"] \in Email
    BY <1>1, <1>2, <1>9, Fields, FieldTexts, Constants
       DEF Accepts, Asked, Typed, AuthTyped, Credential
  <2>2. accounts[u] = NoAccount /\ userInfo[u] = NoDocument
    BY <1>1, <1>5, <2>1 DEF Apart, Recorded
  <2>3. \A f \in Credential : accounts'[u][f] = c.form[f]
    BY <1>4, <2>1, Fields
  <2>4. Apart' /\ accounts'[u] # NoAccount
    BY <1>2, <1>7, <1>9, <2>1, <2>3, Fields DEF Unused
  <2>5. Agrees(Merge(userInfo[u], c.form), u)'
    BY <1>4, <1>5, <2>1, <2>3, Fields, c.form' = c.form DEF Agrees, Merge
  <2>6. Alone(d, u)
    BY <1>1, <2>2, Constants DEF Alone, AllWell, Ready
  <2> QED
    BY <1>6, <1>8, <1>9, <2>1, <2>2, <2>4, <2>5, <2>6
<1>10. CASE c.kind = "signIn"
  <2>1. /\ accounts[u] = [f \in Credential |-> c.form[f]] /\ currentUser[d] = Nobody
        /\ c.form["email"] \in Email /\ c.form["username"] = Absent
    BY <1>1, <1>2, <1>10, Fields, FieldTexts, Constants DEF Accepts, Asked, Credential
  <2>2. \A f \in Credential : accounts[u][f] = c.form[f] /\ accounts'[u][f] = accounts[u][f]
    BY <1>4, <2>1
  <2>3. accounts'[u] = accounts[u] /\ accounts[u] # NoAccount
    <3>1. accounts'[u] = [f \in Credential |-> IF c.form[f] = Absent THEN accounts[u][f] ELSE c.form[f]]
      BY <1>2, DocumentFacts DEF Merge
    <3>2. accounts'[u] = accounts[u]
      BY <2>1, <2>2, <3>1
    <3>3. accounts[u]["email"] # NoAccount["email"]
      BY <2>1, <2>2, NothingIs, Fields, Constants
    <3> QED
      BY <3>2, <3>3
  <2>4. accounts' = accounts /\ created' = created
    BY <1>2, <1>10, <2>3, DocumentFacts
  <2>5. Apart' /\ OthersWell(d, u)' /\ Recorded(u)'
    BY <1>1, <1>4, <1>5, <2>4, SameApart, SameRecorded, WellBut, SameOthersAll
  <2>6. Agrees(userInfo[u], u)
    BY <1>5, <2>3 DEF Recorded
  <2>7. Agrees(Merge(userInfo[u], c.form), u)
    BY <1>5, <2>1, <2>2, <2>6, Fields DEF Agrees
  <2>8. Agrees(Merge(userInfo[u], c.form), u)'
    BY <1>4, <2>4, <2>7, c.form' = c.form DEF Agrees, Merge
  <2> QED
    BY <1>8, <1>10, <2>1, <2>3, <2>5, <2>8
<1>11. CASE c.kind \in Credential
  <2>1. /\ u = c.account /\ accounts[u] # NoAccount /\ currentUser[d] = u /\ u # Nobody
        /\ c.kind = "email" => Unused(c.form["email"])
        /\ \A f \in Field : IF f = c.kind THEN c.form[f] \in TextOf[f] ELSE c.form[f] = Absent
        /\ c.old = currentEmail[d]
    BY <1>1, <1>2, <1>11 DEF Accepts, Asked, Credential
  <2>2. /\ userInfo[u]["email"] = accounts[u]["email"] /\ Agrees(userInfo[u], u)
        /\ accounts[u]["email"] \in Email
    BY <1>1, <1>5, <2>1, RecordedEmail DEF Apart
  <2>3. currentEmail[d] = userInfo[u]["email"] /\ info[d] = ShownOf(u)
    BY <1>5, <2>1, <2>2 DEF Ready
  <2>4. \A f \in Field : c.form[f] # Absent <=> f = c.kind
    BY <2>1, Fields, FieldTexts, Constants
  <2>5. /\ accounts'[u]["email"] \in Email
        /\ \A v \in Account \ {u} : accounts'[u]["email"] # accounts[v]["email"]
    <3>1. CASE c.kind = "email"
      BY <1>4, <2>1, <3>1, Fields, FieldTexts, Constants DEF Unused
    <3>2. CASE c.kind = "password"
      BY <1>1, <1>4, <2>1, <2>2, <3>2, Fields DEF Apart
    <3> QED
      BY <1>11, <3>1, <3>2, Fields
  <2>6. Apart' /\ accounts'[u] # NoAccount
    <3>1. created' = created /\ created \in Int /\ u <= created
      BY <1>1, <1>2, <1>11, <2>1 DEF Typed, AuthTyped, Apart, Credential
    <3> QED
      BY <1>7, <2>5, <3>1
  <2>7. Agrees(Merge(userInfo[u], c.form), u)'
    <3>1. \A f \in Credential : accounts'[u][f] = Merge(userInfo[u], c.form)[f]
      BY <1>4, <1>5, <2>2, Fields DEF Agrees
    <3>2. Merge(userInfo[u], c.form)["username"] # Absent
      BY <1>5, <2>2, Fields DEF Agrees
    <3>3. Merge(userInfo'[u], c.form) = Merge(userInfo[u], c.form)
      BY <1>4
    <3> QED
      BY <3>1, <3>2, <3>3, c.form' = c.form DEF Agrees
  <2>8. Behind(d, u)'
    BY <1>4, <2>1, <2>3, <2>6, d' = d DEF Behind, ShownOf
  <2>9. OthersWell(d, u)'
    BY <1>1, <1>6, <2>1, AheadAlone DEF PatientInv
  <2> QED
    BY <1>8, <1>11, <2>2, <2>3, <2>1, <2>4, <2>6, <2>7, <2>8, <2>9
<1> QED
  BY <1>1, <1>9, <1>10, <1>11, Fields

\* The callback of an accepted call, where the text fields are left alone.
LEMMA PatientReturns ==
  ASSUME LeftAlone, Typed, PatientInv, NEW c \in calls, CallReturns(c)
  PROVE  Apart' /\ InPhase'
<1>1. /\ UNCHANGED <<accounts, created, userInfo>> /\ calls' = {}
      /\ c \in GoodCalls /\ c.form \in GoodForms /\ c.dev \in Device
  BY CallIs DEF CallReturns, authVars, GoodCalls, PatientInv
<1>2. Apart /\ Apart'
  BY <1>1, SameApart DEF PatientInv
<1>3. CASE Calling /\ c.answer # "ok"
  <2>1. UNCHANGED <<phoneVars, queries, writes>>
    BY <1>3 DEF CallReturns, Alerted
  <2>2. AtRest'
    BY <1>1, <1>3, <2>1, SameWell, SameNoWrites DEF AtRest, Calling
  <2> QED
    BY <1>2, <2>2 DEF InPhase
<1>4. ASSUME NEW d \in Device, d = c.dev, NEW u \in Account, u = c.account, Called(d, u),
             calls = {c}, c.answer = "ok"
      PROVE  InPhase'
  <2>1. /\ Agrees(Merge(userInfo[u], c.form), u)
        /\ \/ c.kind = "create" /\ userInfo[u] = NoDocument /\ currentUser[d] = Nobody
           \/ c.kind = "signIn" /\ Recorded(u) /\ currentUser[d] = Nobody
           \/ /\ c.kind \in Credential /\ Behind(d, u)
              /\ \A f \in Field : c.form[f] # Absent <=> f = c.kind
              /\ c.old = userInfo[u]["email"]
        /\ accounts[u] # NoAccount /\ queries = {} /\ NoWrites /\ OthersWell(d, u)
    BY <1>4 DEF Called
  <2>2. /\ \A f \in Field : Merge(userInfo[u], c.form)[f] =
             IF c.form[f] = Absent THEN userInfo[u][f] ELSE c.form[f]
        /\ c.kind \in {"create", "signIn", "email"} =>
             c.form["email"] = accounts[u]["email"] /\ c.form["email"] \in Email
    BY <1>1, <2>1, MergeIs, DocumentFacts, Fields, Constants DEF GoodCalls, Agrees
  <2>3. /\ c.answer = "ok" => SignedUp(c) \/ LoggedIn(c) \/ EmailUpdated(c)
                              \/ PasswordUpdated(c) \/ AccountDeleted(c)
        /\ c.kind # "delete"
    BY <1>4, <2>1, Fields DEF CallReturns, Alerted
  <2>4. \A kind \in {"create", "email", "password"} :
          \A form \in Reread(kind, c.form) : form = c.form
    <3>1. \A kind \in {"create", "email", "password"} : kind \notin Retypes
      BY DEF LeftAlone
    <3> QED
      BY <1>1, <3>1, RereadGood
  <2>5. ASSUME NEW e \in Email, e = accounts[u]["email"], Enter(d, u, e)
        PROVE  /\ Ahead(d, u)'
               /\ \E q \in queries' : /\ queries' = {q} /\ q.dev = d /\ q.kind = "load" /\ q.email = e
                                      /\ ~q.answered
    <3>1. /\ currentUser'[d] = u /\ currentEmail'[d] = e
          /\ \A x \in Device \ {d} : /\ currentUser'[x] = currentUser[x]
                                     /\ currentEmail'[x] = currentEmail[x] /\ info'[x] = info[x]
          /\ queries' = {LoadQuery(d, e)}
      BY <2>1, <2>5, PhoneFacts DEF Enter
    <3>2. OthersWell(d, u)'
      BY <1>1, <2>1, <3>1, SameOthersAll
    <3> DEFINE k == LoadQuery(d, e)
    <3>3. queries' = {k} /\ k.dev = d /\ k.kind = "load" /\ k.email = e /\ ~k.answered
      BY <3>1 DEF LoadQuery, Query
    <3> HIDE DEF k
    <3>4. \E q \in queries' : /\ queries' = {q} /\ q.dev = d /\ q.kind = "load" /\ q.email = e
                              /\ ~q.answered
      BY <3>3
    <3>5. Ahead(d, u)'
      BY <1>1, <2>1, <2>5, <3>1, <3>2 DEF Ahead
    <3> QED
      BY <3>4, <3>5
  <2>6. CASE c.kind = "create"
    <3>1. Enter(d, u, c.form["email"]) /\ Enqueue(d, u, <<SetData(u, c.form, FALSE)>>)
      BY <1>4, <2>3, <2>4, <2>6 DEF SignedUp, LoggedIn, EmailUpdated, PasswordUpdated, AccountDeleted
    <3> DEFINE w == SetData(u, c.form, FALSE)
    <3>2. w.doc = u /\ ~w.erase /\ ~w.attached /\ w.form = c.form
      BY DEF SetData
    <3>3. w \in WriteRecord
      BY <1>1 DEF SetData, WriteRecord, GoodForms
    <3> HIDE DEF w
    <3>4. \A e \in Device, v \in Account \cup {Nobody} :
            writes'[e][v] = IF e = d /\ v = u THEN <<w>> ELSE <<>>
      <4>1. writes \in Queues /\ writes[d][u] = <<>> /\ <<>> \o <<w>> = <<w>>
        BY <2>1 DEF Typed, NoWrites
      <4>2. \A e \in Device, v \in Account \cup {Nobody} :
              writes'[e][v] = IF e = d /\ v = u THEN <<w>> ELSE writes[e][v]
        BY <3>1, <4>1 DEF Enqueue, Queues, w
      <4> QED
        BY <2>1, <4>2 DEF NoWrites
    <3>5. /\ Ahead(d, u)'
          /\ \E q \in queries' : /\ queries' = {q} /\ q.dev = d /\ q.kind = "load"
                                 /\ q.email = accounts'[u]["email"] /\ ~q.answered
      BY <1>1, <2>2, <2>5, <2>6, <3>1
    <3>6. Agrees(Merge(userInfo[u], w.form), u)'
      BY <1>1, <2>1, <3>2 DEF Agrees, Merge
    <3>7. Shown(d, u, Merge(userInfo[u], w.form))'
      BY <3>5 DEF Shown
    <3>8. Writing(d, u)'
      BY <3>2, <3>3, <3>4, <3>5, <3>6, <3>7 DEF Writing, WriteRecord
    <3> QED
      BY <3>8 DEF InPhase
  <2>7. CASE c.kind = "signIn"
    <3>1. Enter(d, u, c.form["email"]) /\ writes' = writes
      BY <1>4, <2>3, <2>7 DEF SignedUp, LoggedIn, EmailUpdated, PasswordUpdated, AccountDeleted
    <3>2. /\ Ahead(d, u)'
          /\ \E q \in queries' : /\ queries' = {q} /\ q.dev = d /\ q.kind = "load"
                                 /\ q.email = accounts'[u]["email"] /\ ~q.answered
      BY <1>1, <2>2, <2>5, <2>7, <3>1
    <3>3. NoWrites' /\ Recorded(u)'
      BY <1>1, <2>1, <2>7, <3>1, SameNoWrites, SameRecorded DEF Credential
    <3>4. Shown(d, u, userInfo[u])'
      BY <3>2 DEF Shown
    <3>5. Loading(d, u)'
      BY <3>2, <3>3, <3>4 DEF Loading
    <3> QED
      BY <3>5 DEF InPhase
  <2>8. ASSUME c.kind \in Credential, NEW form, form = c.form, NEW e,
               e = userInfo[u]["email"], queries' = queries \cup {Query(d, c.kind, e, form)},
               UNCHANGED <<currentUser, writes>>,
               \A x \in Device \ {d} : currentEmail'[x] = currentEmail[x] /\ info'[x] = info[x],
               currentEmail'[d] = accounts[u]["email"],
               info'[d] = [email |-> accounts[u]["email"], username |-> userInfo[u]["username"]]
        PROVE  InPhase'
    <3> DEFINE k == Query(d, c.kind, e, form)
    <3>1. /\ queries' = {k} /\ k.dev = d /\ k.kind = c.kind /\ k.email = e /\ ~k.answered
          /\ k.form = c.form
      BY <2>1, <2>8 DEF Query
    <3> HIDE DEF k
    <3>2. Behind(d, u) /\ \A f \in Field : c.form[f] # Absent <=> f = c.kind
      BY <2>1, <2>8 DEF Credential
    <3>3. userInfo[u] # NoDocument
      BY <2>1, <2>2, <2>8, <3>2, Fields, NothingIs DEF Agrees, Credential
    <3>4. OthersWell(d, u)'
      BY <1>1, <2>1, <2>8, SameOthersAll
    <3>5. Ahead(d, u)'
      BY <1>1, <2>8, <3>2, <3>4 DEF Ahead, Behind
    <3>6. ASSUME NEW j, j = k PROVE Agrees(Merge(userInfo[u], j.form), u)'
      BY <1>1, <2>1, <3>1, <3>6 DEF Agrees, Merge
    <3>7. NoWrites'
      BY <2>1, <2>8, SameNoWrites
    <3>8. /\ k.kind \in Field /\ k.email = userInfo'[u]["email"]
          /\ k.form["username"] # Absent <=> k.kind = "username"
      BY <1>1, <2>8, <3>1, <3>2, Fields
    <3>9. info'[d] = [email |-> accounts'[u]["email"], username |-> userInfo'[u]["username"]]
      BY <1>1, <2>8
    <3>10. \E q \in queries' :
             /\ queries' = {q} /\ q.dev = d /\ q.kind \in Field /\ q.email = userInfo'[u]["email"]
             /\ q.answered => q.found = {u}
             /\ Agrees(Merge(userInfo[u], q.form), u)'
             /\ q.form["username"] # Absent <=> q.kind = "username"
      BY <3>1, <3>6, <3>8
    <3>11. Looking(d, u)'
      BY <1>1, <3>3, <3>5, <3>7, <3>9, <3>10 DEF Looking
    <3> QED
      BY <3>11 DEF InPhase
  <2>9. CASE c.kind = "email"
    <3>1. EmailUpdated(c) /\ Behind(d, u) /\ c.old = userInfo[u]["email"]
      BY <1>4, <2>1, <2>3, <2>9 DEF SignedUp, LoggedIn, PasswordUpdated, AccountDeleted
    <3>2. /\ currentEmail' = [currentEmail EXCEPT ![d] = c.form["email"]]
          /\ info' = [info EXCEPT ![d].email = c.form["email"]]
          /\ queries' = queries \cup {Query(d, "email", c.old, c.form)}
          /\ UNCHANGED <<currentUser, writes>>
      BY <1>4, <2>4, <2>9, <3>1 DEF EmailUpdated, Behind
    <3>3. info[d] = ShownOf(u)
      BY <3>1 DEF Behind
    <3>4. /\ currentEmail'[d] = accounts[u]["email"]
          /\ info'[d] = [email |-> accounts[u]["email"], username |-> userInfo[u]["username"]]
          /\ \A x \in Device \ {d} : currentEmail'[x] = currentEmail[x] /\ info'[x] = info[x]
      BY <2>2, <2>9, <3>2, <3>3, PhoneFacts DEF ShownOf
    <3> QED
      BY <2>8, <2>9, <3>1, <3>2, <3>4, Fields
  <2>10. CASE c.kind = "password"
    <3>1. /\ PasswordUpdated(c) /\ Behind(d, u)
          /\ \A f \in Field : c.form[f] # Absent <=> f = c.kind
      BY <1>4, <2>1, <2>3, <2>10 DEF SignedUp, LoggedIn, EmailUpdated, AccountDeleted
    <3>2. /\ UNCHANGED <<currentUser, currentEmail, info, writes>>
          /\ queries' = queries \cup {Query(d, "password", currentEmail[d], c.form)}
      BY <1>4, <2>4, <2>10, <3>1 DEF PasswordUpdated
    <3>3. userInfo[u]["email"] = accounts[u]["email"]
      BY <2>1, <2>2, <2>10, <3>1, Fields DEF Agrees
    <3>4. /\ currentEmail'[d] = accounts[u]["email"]
          /\ info'[d] = [email |-> accounts[u]["email"], username |-> userInfo[u]["username"]]
          /\ currentEmail[d] = userInfo[u]["email"]
      BY <3>1, <3>2, <3>3 DEF Behind, ShownOf
    <3> QED
      BY <2>8, <2>10, <3>2, <3>4, Fields
  <2> QED
    BY <2>1, <2>6, <2>7, <2>9, <2>10, Fields
<1> QED
  BY <1>2, <1>3, <1>4, CallIs DEF PatientInv

\* A query is the only thing under way but for the write of its phone's user.
LEMMA QueryIs ==
  ASSUME Typed, InPhase, NEW q \in queries
  PROVE  \E d \in Device, u \in Account :
           /\ Looking(d, u) \/ Loading(d, u) \/ Writing(d, u)
           /\ queries = {q} /\ q.dev = d /\ q \in GoodQueries
<1>1. q \in GoodQueries
  BY DEF Typed
<1>2. ASSUME NEW d \in Device, NEW u \in Account, Looking(d, u) \/ Loading(d, u) \/ Writing(d, u)
      PROVE  queries = {q} /\ q.dev = d
  <2>1. ASSUME NEW doc, Shown(d, u, doc) PROVE queries = {q} /\ q.dev = d
    BY <2>1 DEF Shown
  <2>2. CASE Looking(d, u)
    BY <2>2 DEF Looking
  <2>3. CASE Loading(d, u)
    BY <2>1, <2>3 DEF Loading
  <2>4. CASE Writing(d, u)
    BY <2>1, <2>4 DEF Writing
  <2> QED
    BY <1>2, <2>2, <2>3, <2>4
<1> QED
  BY <1>1, <1>2 DEF InPhase, AtRest, Calling, Called

\* The one document with the email of a user whose texts are doc's.
LEMMA OneFound ==
  ASSUME Typed, Apart, NEW d \in Device, NEW u \in Account, Ahead(d, u), NEW doc, Agrees(doc, u),
         \A f \in Field : Seen(d)[u][f] = doc[f],
         \A v \in Account \ {u}, f \in Field : Seen(d)[v][f] = userInfo[v][f]
  PROVE  {v \in Account : Seen(d)[v]["email"] = accounts[u]["email"]} = {u}
<1>1. Seen(d)[u]["email"] = accounts[u]["email"] /\ accounts[u]["email"] \in Email
  BY Fields DEF Agrees, Ahead, Apart
<1>2. ASSUME NEW v \in Account \ {u} PROVE Seen(d)[v]["email"] # accounts[u]["email"]
  <2>1. Seen(d)[v]["email"] = userInfo[v]["email"] /\ Recorded(v)
    BY Fields DEF Ahead, OthersWell
  <2>2. CASE accounts[v] = NoAccount
    BY <1>1, <2>1, <2>2, NothingIs, Fields, Constants DEF Recorded
  <2>3. CASE accounts[v] # NoAccount
    BY <2>1, <2>3, RecordedEmail DEF Apart
  <2> QED
    BY <2>2, <2>3
<1> QED
  BY <1>1, <1>2

\* getUserInfo is answered with the name that the document has, or will have.
LEMMA NameFound ==
  ASSUME Typed, Apart, NEW d \in Device, NEW u \in Account, Ahead(d, u), NEW doc, Agrees(doc, u),
         \A f \in Field : Seen(d)[u][f] = doc[f],
         \A v \in Account \ {u}, f \in Field : Seen(d)[v][f] = userInfo[v][f],
         NEW q \in queries, queries = {q}, q.dev = d, q.kind = "load", q.email = accounts[u]["email"],
         AnswerQuery(q)
  PROVE  \E k \in queries' :
           /\ queries' = {k} /\ k.dev = d /\ k.kind = "load" /\ k.email = accounts[u]["email"]
           /\ k.name = doc["username"]
<1> DEFINE found == {v \in Account : Seen(q.dev)[v]["email"] = q.email}
           names == {Seen(q.dev)[v]["username"] : v \in found} \ {Absent}
<1>1. found = {u} /\ q \in QueryRecord
  BY OneFound DEF Typed, GoodQueries
<1>2. names = {doc["username"]}
  BY <1>1, Fields DEF Agrees
<1>3. \E name \in IF names = {} THEN {Absent} ELSE names :
        queries' = (queries \ {q}) \cup {[q EXCEPT !.answered = TRUE, !.found = found, !.name = name]}
  BY DEF AnswerQuery
<1> HIDE DEF names
<1>4. queries' = {[q EXCEPT !.answered = TRUE, !.found = found, !.name = doc["username"]]}
  BY <1>2, <1>3
<1> HIDE DEF found
<1> QED
  BY <1>1, <1>4 DEF QueryRecord

LEMMA PatientAnswered ==
  ASSUME Typed, PatientInv, NEW q \in queries, AnswerQuery(q)
  PROVE  Apart' /\ InPhase'
<1>1. PICK d \in Device, u \in Account :
        /\ Looking(d, u) \/ Loading(d, u) \/ Writing(d, u)
        /\ queries = {q} /\ q.dev = d /\ q \in GoodQueries
  BY QueryIs DEF PatientInv
<1>2. UNCHANGED <<accounts, created, userInfo, currentUser, currentEmail, info, calls, writes>>
  BY DEF AnswerQuery, authVars, phoneVars
<1>3. Apart /\ Apart' /\ userInfo[u] \in GoodForms
  BY <1>2, SameApart, DocumentFacts DEF PatientInv
<1>4. ASSUME Ahead(d, u) PROVE Ahead(d, u)'
  <2>1. OthersWell(d, u)'
    BY <1>2, <1>4, SameOthersAll DEF Ahead
  <2> QED
    BY <1>2, <1>4, <2>1 DEF Ahead
<1>5. ASSUME NoWrites PROVE Seen(d) = userInfo
  BY <1>5, PhoneFacts, SeenNow DEF NoWrites
<1>6. CASE Looking(d, u)
  <2> DEFINE found == {v \in Account : Seen(q.dev)[v]["email"] = q.email}
  <2>1. found = {u}
    <3>1. userInfo[u] # NoDocument /\ q.email = userInfo[u]["email"] /\ Seen(q.dev) = userInfo
      BY <1>1, <1>5, <1>6 DEF Looking
    <3> QED
      BY <1>3, <3>1 DEF Apart
  <2>2. PICK name : queries' = (queries \ {q}) \cup
                      {[q EXCEPT !.answered = TRUE, !.found = found, !.name = name]}
    BY DEF AnswerQuery
  <2> HIDE DEF found
  <2>3. PICK k : /\ queries' = {k} /\ k.dev = d /\ k.kind = q.kind /\ k.email = q.email
                 /\ k.found = {u} /\ k.form = q.form
    <3> DEFINE j == [q EXCEPT !.answered = TRUE, !.found = {u}, !.name = name]
    <3>1. /\ queries' = {j} /\ j.dev = d /\ j.kind = q.kind /\ j.email = q.email
          /\ j.found = {u} /\ j.form = q.form
      BY <1>1, <2>1, <2>2 DEF GoodQueries, QueryRecord
    <3> HIDE DEF j
    <3> QED
      BY <3>1
  <2>4. /\ q.kind \in Field /\ q.email = userInfo[u]["email"]
        /\ Agrees(Merge(userInfo[u], q.form), u)
        /\ q.form["username"] # Absent <=> q.kind = "username"
        /\ info[d] = [email |-> accounts[u]["email"], username |-> userInfo[u]["username"]]
        /\ userInfo[u] # NoDocument /\ Ahead(d, u) /\ NoWrites
    BY <1>1, <1>6 DEF Looking
  <2>5. ASSUME NEW j, j = k PROVE Agrees(Merge(userInfo[u], j.form), u)'
    BY <1>2, <2>3, <2>4, <2>5 DEF Agrees, Merge
  <2>6. \E j \in queries' :
          /\ queries' = {j} /\ j.dev = d /\ j.kind \in Field /\ j.email = userInfo'[u]["email"]
          /\ j.answered => j.found = {u}
          /\ Agrees(Merge(userInfo[u], j.form), u)'
          /\ j.form["username"] # Absent <=> j.kind = "username"
    BY <1>2, <2>3, <2>4, <2>5
  <2>7. /\ info'[d] = [email |-> accounts'[u]["email"], username |-> userInfo'[u]["username"]]
        /\ userInfo'[u] # NoDocument /\ Ahead(d, u)' /\ NoWrites'
    BY <1>2, <1>4, <2>4, SameNoWrites
  <2>8. Looking(d, u)'
    BY <2>6, <2>7 DEF Looking
  <2> QED
    BY <1>3, <2>8 DEF InPhase
<1>7. CASE Loading(d, u)
  <2>1. /\ Ahead(d, u) /\ NoWrites /\ Recorded(u) /\ q.kind = "load" /\ q.email = accounts[u]["email"]
    BY <1>1, <1>7 DEF Loading, Shown
  <2>2. Agrees(userInfo[u], u)
    BY <2>1 DEF Recorded, Ahead
  <2>3. \E k \in queries' :
           /\ queries' = {k} /\ k.dev = d /\ k.kind = "load" /\ k.email = accounts[u]["email"]
           /\ k.name = userInfo[u]["username"]
    BY <1>1, <1>3, <1>5, <2>1, <2>2, NameFound
  <2>4. Shown(d, u, userInfo[u])'
    BY <1>2, <2>3 DEF Shown
  <2>5. Loading(d, u)'
    BY <1>2, <1>4, <2>1, <2>4, SameNoWrites, SameRecorded DEF Loading
  <2> QED
    BY <1>3, <2>5 DEF InPhase
<1>8. CASE Writing(d, u)
  <2>1. Ahead(d, u) /\ currentUser[d] = u
    BY <1>8 DEF Writing, Ahead
  <2>2. PICK w \in WriteRecord :
          /\ \A e \in Device, v \in Account \cup {Nobody} :
               writes[e][v] = IF e = d /\ v = u THEN <<w>> ELSE <<>>
          /\ w.doc = u /\ ~w.erase /\ Agrees(Merge(userInfo[u], w.form), u)
          /\ ~w.attached /\ Shown(d, u, Merge(userInfo[u], w.form))
    BY <1>1, <1>8 DEF Writing
  <2>3. w \in GoodWrites /\ writes[d][u] = <<w>>
    <3>1. writes[d][u] \in Seq(GoodWrites) /\ writes[d][u] = <<w>>
      BY <2>2 DEF Typed, Queues
    <3> QED
      BY <3>1
  <2>4. /\ \A f \in Field : Seen(d)[u][f] = Merge(userInfo[u], w.form)[f]
        /\ \A v \in Account \ {u}, f \in Field : Seen(d)[v][f] = userInfo[v][f]
    BY <2>1, <2>2, <2>3, SeenNext
  <2>5. q.kind = "load" /\ q.email = accounts[u]["email"]
    BY <1>1, <2>2 DEF Shown
  <2> DEFINE doc == Merge(userInfo[u], w.form)
  <2>6. Agrees(doc, u) /\ (\A f \in Field : Seen(d)[u][f] = doc[f]) /\ doc' = doc
    BY <1>2, <2>2, <2>4
  <2> HIDE DEF doc
  <2>7. \E k \in queries' :
           /\ queries' = {k} /\ k.dev = d /\ k.kind = "load" /\ k.email = accounts[u]["email"]
           /\ k.name = doc["username"]
    BY <1>1, <1>3, <2>1, <2>4, <2>5, <2>6, NameFound
  <2>8. Shown(d, u, doc)' /\ Agrees(doc, u)'
    BY <1>2, <2>6, <2>7 DEF Shown, Agrees
  <2>9. Writing(d, u)'
    BY <1>2, <1>4, <2>1, <2>2, <2>8 DEF Writing, doc, WriteRecord
  <2> QED
    BY <1>3, <2>9 DEF InPhase
<1> QED
  BY <1>1, <1>6, <1>7, <1>8

\* The callback of a lookup queues the edit, and that of getUserInfo fills in.
LEMMA PatientFound ==
  ASSUME Typed, PatientInv, NEW q \in queries, QueryReturns(q),
         q.kind = "username" =>
           \A d \in Device, u \in Account :
             writes'[d][u] # writes[d][u] => Last(writes'[d][u]).form = q.form
  PROVE  Apart' /\ InPhase'
<1>1. PICK d \in Device, u \in Account :
        /\ Looking(d, u) \/ Loading(d, u) \/ Writing(d, u)
        /\ queries = {q} /\ q.dev = d /\ q \in GoodQueries
  BY QueryIs DEF PatientInv
<1>2. /\ UNCHANGED <<accounts, created, userInfo, currentUser, currentEmail, calls>>
      /\ queries' = {} /\ q.answered
  BY <1>1 DEF QueryReturns, LoadReturns, EditReturns, EraseReturns, authVars
<1>3. Apart /\ Apart' /\ userInfo[u] \in GoodForms
  BY <1>2, SameApart, DocumentFacts DEF PatientInv
<1>4. ASSUME Ahead(d, u), \A e \in Device \ {d} : info'[e] = info[e] PROVE Ahead(d, u)'
  <2>1. OthersWell(d, u)'
    BY <1>2, <1>4, SameOthersAll DEF Ahead
  <2> QED
    BY <1>2, <1>4, <2>1 DEF Ahead
<1>5. CASE Looking(d, u)
  <2>1. /\ q.kind \in Field /\ q.found = {u} /\ Agrees(Merge(userInfo[u], q.form), u)
        /\ q.form["username"] # Absent <=> q.kind = "username"
        /\ info[d] = [email |-> accounts[u]["email"], username |-> userInfo[u]["username"]]
        /\ Ahead(d, u) /\ NoWrites /\ currentUser[d] = u /\ q.form \in GoodForms
    BY <1>1, <1>2, <1>5 DEF Looking, Ahead, GoodQueries
  <2>2. EditReturns(q)
    BY <2>1 DEF QueryReturns, LoadReturns, EraseReturns, Field
  <2>3. Cardinality(q.found) = 1 /\ (CHOOSE v \in q.found : TRUE) = u
    BY <2>1, FS_Singleton
  <2> DEFINE attached == q.kind = "username"
  <2>4. PICK form \in IF q.kind = "username" THEN Reread(q.kind, q.form) ELSE {q.form} :
          Enqueue(d, u, <<SetData(u, form, attached)>>)
    BY <1>1, <2>1, <2>2, <2>3 DEF EditReturns
  <2>5. info' = info
    BY <2>2 DEF EditReturns
  <2> HIDE DEF attached
  <2>6. \A e \in Device, v \in Account \cup {Nobody} :
          writes'[e][v] = IF e = d /\ v = u THEN <<SetData(u, form, attached)>> ELSE <<>>
    <3>1. /\ writes \in Queues /\ writes[d][u] = <<>>
          /\ \A w : <<>> \o <<w>> = <<w>>
      BY <2>1 DEF Typed, NoWrites
    <3>2. \A e \in Device, v \in Account \cup {Nobody} :
            writes'[e][v] = IF e = d /\ v = u THEN <<SetData(u, form, attached)>> ELSE writes[e][v]
      BY <2>4, <3>1 DEF Enqueue, Queues
    <3> QED
      BY <2>1, <3>2 DEF NoWrites
  <2>7. form = q.form
    <3>1. CASE q.kind # "username"
      BY <2>4, <3>1
    <3>2. CASE q.kind = "username"
      <4>1. writes'[d][u] = <<SetData(u, form, attached)>> /\ writes[d][u] = <<>>
        BY <2>1, <2>6 DEF NoWrites
      <4>2. \A w : <<w>> # <<>> /\ Last(<<w>>) = w
        BY DEF Last
      <4>3. Last(writes'[d][u]).form = q.form
        BY <3>2, <4>1, <4>2
      <4>4. SetData(u, form, attached).form = form
        BY DEF SetData
      <4> QED
        BY <4>1, <4>2, <4>3, <4>4
    <3> QED
      BY <3>1, <3>2
  <2> DEFINE w == SetData(u, q.form, attached)
  <2>8. /\ w.doc = u /\ ~w.erase /\ w.form = q.form /\ w.attached = (q.kind = "username")
        /\ w \in WriteRecord
    BY <2>1 DEF SetData, WriteRecord, GoodForms, attached
  <2>9. \A e \in Device, v \in Account \cup {Nobody} :
          writes'[e][v] = IF e = d /\ v = u THEN <<w>> ELSE <<>>
    BY <2>6, <2>7
  <2> HIDE DEF w
  <2>10. ASSUME NEW x, x = w PROVE Agrees(Merge(userInfo[u], x.form), u)'
    BY <1>2, <2>1, <2>8, <2>10 DEF Agrees, Merge
  <2>11. /\ Merge(userInfo[u], q.form)["email"] = accounts[u]["email"]
         /\ q.kind # "username" => Merge(userInfo[u], q.form)["username"] = userInfo[u]["username"]
    BY <1>3, <2>1, MergeIs, Fields DEF Agrees
  <2>12. ASSUME NEW x, x = w
         PROVE  IF x.attached
                  THEN queries' = {} /\ info'[d].email = accounts'[u]["email"] /\ x.form["username"] # Absent
                  ELSE Shown(d, u, Merge(userInfo[u], x.form))'
    <3>1. CASE x.attached
      <4>1. x.form = q.form /\ q.kind = "username"
        BY <2>8, <2>12, <3>1
      <4>2. info[d].email = accounts[u]["email"]
        BY <2>1
      <4>3. queries' = {} /\ info'[d].email = accounts'[u]["email"] /\ x.form["username"] # Absent
        BY <1>2, <2>1, <2>5, <4>1, <4>2
      <4> QED
        BY <3>1, <4>3
    <3>2. CASE ~x.attached
      <4>1. /\ queries' = {}
            /\ info'[d] = [email |-> Merge(userInfo'[u], x.form)["email"],
                           username |-> Merge(userInfo'[u], x.form)["username"]]
        BY <1>2, <2>1, <2>5, <2>8, <2>11, <2>12, <3>2
      <4>2. Shown(d, u, Merge(userInfo[u], x.form))'
        BY <4>1 DEF Shown
      <4> QED
        BY <3>2, <4>2
    <3> QED
      BY <3>1, <3>2
  <2>13. Ahead(d, u)'
    BY <1>4, <2>1, <2>5
  <2>14. ASSUME NEW x, x = w PROVE Writing(d, u)'
    BY <2>8, <2>9, <2>10, <2>12, <2>13, <2>14 DEF Writing, WriteRecord
  <2> QED
    BY <1>3, <2>14 DEF InPhase
<1>6. ASSUME NEW doc, Ahead(d, u), Agrees(doc, u), Shown(d, u, doc)
      PROVE  /\ writes' = writes /\ Ahead(d, u)'
             /\ info'[d] = [email |-> doc["email"], username |-> doc["username"]]
  <2>1. q.kind = "load" /\ q.email = accounts[u]["email"] /\ q.name = doc["username"]
    BY <1>1, <1>2, <1>6 DEF Shown
  <2>2. LoadReturns(q) /\ q.name # Absent /\ q.email = doc["email"]
    BY <1>6, <2>1, Fields DEF QueryReturns, EditReturns, EraseReturns, Field, Agrees
  <2>3. /\ info' = [info EXCEPT ![d] = [email |-> doc["email"], username |-> doc["username"]]]
        /\ writes' = writes
    BY <1>1, <2>1, <2>2 DEF LoadReturns
  <2>4. /\ info'[d] = [email |-> doc["email"], username |-> doc["username"]]
        /\ \A e \in Device \ {d} : info'[e] = info[e]
    BY <2>3, PhoneFacts
  <2> QED
    BY <1>4, <1>6, <2>3, <2>4
<1>7. CASE Loading(d, u)
  <2>1. Ahead(d, u) /\ Recorded(u) /\ NoWrites /\ Agrees(userInfo[u], u) /\ Shown(d, u, userInfo[u])
    BY <1>7 DEF Loading, Recorded, Ahead
  <2>2. /\ writes' = writes /\ Ahead(d, u)'
        /\ info'[d] = [email |-> userInfo[u]["email"], username |-> userInfo[u]["username"]]
    BY <1>6, <2>1
  <2>3. Shown(d, u, userInfo[u])'
    BY <1>2, <2>2 DEF Shown
  <2>4. Loading(d, u)'
    BY <1>2, <2>1, <2>2, <2>3, SameNoWrites, SameRecorded DEF Loading
  <2> QED
    BY <1>3, <2>4 DEF InPhase
<1>8. CASE Writing(d, u)
  <2>1. Ahead(d, u)
    BY <1>8 DEF Writing
  <2>2. PICK w \in WriteRecord :
          /\ \A e \in Device, v \in Account \cup {Nobody} :
               writes[e][v] = IF e = d /\ v = u THEN <<w>> ELSE <<>>
          /\ w.doc = u /\ ~w.erase /\ Agrees(Merge(userInfo[u], w.form), u)
          /\ ~w.attached /\ Shown(d, u, Merge(userInfo[u], w.form))
    BY <1>1, <1>8 DEF Writing
  <2> DEFINE doc == Merge(userInfo[u], w.form)
  <2>3. Agrees(doc, u) /\ Shown(d, u, doc) /\ doc' = doc
    BY <1>2, <2>2
  <2> HIDE DEF doc
  <2>4. /\ writes' = writes /\ Ahead(d, u)'
        /\ info'[d] = [email |-> doc["email"], username |-> doc["username"]]
    BY <1>6, <2>1, <2>3
  <2>5. Shown(d, u, doc)' /\ Agrees(doc, u)'
    BY <1>2, <2>3, <2>4 DEF Shown, Agrees
  <2>6. Writing(d, u)'
    BY <2>2, <2>4, <2>5 DEF Writing, doc, WriteRecord
  <2> QED
    BY <1>3, <2>6 DEF InPhase
<1> QED
  BY <1>1, <1>5, <1>7, <1>8

\* A write that stays queued, or that leaves the queue.
LEMMA PatientWritten ==
  ASSUME Typed, PatientInv, NEW d \in Device, CommitTyped(d)
  PROVE  Apart' /\ InPhase'
<1>1. writes[d][currentUser[d]] # <<>> /\ currentUser[d] \in Account \cup {Nobody}
  BY PhoneFacts DEF CommitTyped, CommitWrite
<1>2. PICK e \in Device, u \in Account : Writing(e, u)
  <2>1. ~NoWrites
    BY <1>1 DEF NoWrites
  <2> QED
    BY <2>1 DEF PatientInv, InPhase, AtRest, Calling, Called, Looking, Loading
<1>3. PICK w \in WriteRecord :
        /\ \A x \in Device, v \in Account \cup {Nobody} :
             writes[x][v] = IF x = e /\ v = u THEN <<w>> ELSE <<>>
        /\ w.doc = u /\ ~w.erase /\ Agrees(Merge(userInfo[u], w.form), u)
        /\ IF w.attached
             THEN queries = {} /\ info[e].email = accounts[u]["email"] /\ w.form["username"] # Absent
             ELSE Shown(e, u, Merge(userInfo[u], w.form))
  BY <1>2 DEF Writing
<1>4. e = d /\ currentUser[d] = u /\ writes[d][u] = <<w>>
  BY <1>1, <1>3
<1>5. w \in GoodWrites /\ w.form \in GoodForms
  <2>1. writes[d][u] \in Seq(GoodWrites)
    BY DEF Typed, Queues
  <2> QED
    BY <1>4, <2>1 DEF GoodWrites
<1>6. Head(<<w>>) = w /\ Tail(<<w>>) = <<>>
  OBVIOUS
<1>7. /\ userInfo' = [userInfo EXCEPT ![u] = Merge(userInfo[u], w.form)]
      /\ UNCHANGED <<accounts, created, currentUser, currentEmail, calls, queries>>
      /\ \/ /\ writes' = [writes EXCEPT ![d][u] = <<>>]
            /\ IF w.attached
                 THEN \E form : info' = [info EXCEPT ![d].username = form["username"]]
                 ELSE info' = info
         \/ UNCHANGED <<writes, info>>
      /\ w.attached /\ writes' # writes => info'[d].username = w.form["username"]
  <2>1. writes' = [writes EXCEPT ![d][u] = Tail(@)] => writes' = [writes EXCEPT ![d][u] = <<>>]
    BY <1>4, <1>6 DEF Typed, Queues
  <2> QED
    BY <1>3, <1>4, <1>6, <2>1 DEF CommitTyped, CommitWrite, Apply, authVars
<1> DEFINE doc == Merge(userInfo[u], w.form)
<1>8. /\ userInfo'[u] = doc /\ \A v \in Account \ {u} : userInfo'[v] = userInfo[v]
      /\ doc \in GoodForms /\ Agrees(doc, u) /\ Merge(doc, w.form) = doc
      /\ w.attached => doc["username"] = w.form["username"]
      /\ doc["email"] = accounts[u]["email"]
  BY <1>3, <1>5, <1>7, MergeIs, DocumentFacts, Fields DEF Agrees
<1>9. \A x \in Device \ {d} : info'[x] = info[x]
  BY <1>7, PhoneFacts
<1> HIDE DEF doc
<1>10. Ahead(d, u) /\ Alone(d, u)
  BY <1>2, <1>4, AheadAlone DEF PatientInv, Writing
<1>11. OthersWell(d, u)'
  BY <1>7, <1>8, <1>9, <1>10, SameOthers DEF Ahead
<1>12. Ahead(d, u)' /\ Recorded(u)'
  BY <1>7, <1>8, <1>10, <1>11 DEF Ahead, Recorded, Agrees
<1>13. Apart'
  <2>1. \A v \in Account : Recorded(v)'
    BY <1>11, <1>12 DEF OthersWell
  <2>2. Apart /\ \A v \in Account : accounts[v] # NoAccount => accounts[v]["email"] \in Email
    BY DEF PatientInv, Apart
  <2>3. ASSUME NEW v \in Account, userInfo'[v] # NoDocument
        PROVE  accounts[v] # NoAccount /\ userInfo'[v]["email"] = accounts[v]["email"]
    BY <1>7, <2>1, <2>3, Fields DEF Recorded, Agrees
  <2>4. ASSUME NEW v \in Account, accounts[v] = NoAccount PROVE userInfo'[v]["email"] = Absent
    BY <1>7, <2>1, <2>4, NothingIs, Fields DEF Recorded
  <2>5. ASSUME NEW v \in Account, NEW x \in Account, v # x, userInfo'[v] # NoDocument
        PROVE  userInfo'[v]["email"] # userInfo'[x]["email"]
    <3>1. CASE accounts[x] = NoAccount
      BY <2>2, <2>3, <2>4, <2>5, <3>1, Constants
    <3>2. CASE accounts[x] # NoAccount
      <4>1. userInfo'[x]["email"] = accounts[x]["email"]
        BY <1>7, <2>1, <3>2, Fields DEF Recorded, Agrees
      <4> QED
        BY <2>2, <2>3, <2>5, <4>1 DEF Apart
    <3> QED
      BY <3>1, <3>2
  <2> QED
    BY <1>7, <2>2, <2>5 DEF Apart
<1>14. CASE UNCHANGED <<writes, info>>
  <2>1. Agrees(Merge(userInfo[u], w.form), u)'
    BY <1>7, <1>8 DEF Agrees
  <2>2. IF w.attached
          THEN queries' = {} /\ info'[d].email = accounts'[u]["email"] /\ w.form["username"] # Absent
          ELSE Shown(d, u, Merge(userInfo[u], w.form))'
    <3>1. CASE w.attached
      BY <1>3, <1>4, <1>7, <1>14, <3>1
    <3>2. CASE ~w.attached
      <4>1. Shown(d, u, doc)
        BY <1>3, <1>4, <3>2 DEF doc
      <4>2. Merge(userInfo'[u], w.form) = doc
        BY <1>8
      <4>3. Shown(d, u, Merge(userInfo[u], w.form))'
        BY <1>7, <1>14, <4>1, <4>2 DEF Shown
      <4> QED
        BY <3>2, <4>3
    <3> QED
      BY <3>1, <3>2
  <2>3. \A x \in Device, v \in Account \cup {Nobody} :
          writes'[x][v] = IF x = d /\ v = u THEN <<w>> ELSE <<>>
    BY <1>3, <1>4, <1>14
  <2>4. Writing(d, u)'
    BY <1>3, <1>12, <2>1, <2>2, <2>3 DEF Writing, WriteRecord
  <2> QED
    BY <1>13, <2>4 DEF InPhase
<1>15. CASE /\ writes' = [writes EXCEPT ![d][u] = <<>>]
            /\ IF w.attached
                 THEN \E form : info' = [info EXCEPT ![d].username = form["username"]]
                 ELSE info' = info
  <2>1. NoWrites'
    <3>1. \A x \in Device, v \in Account \cup {Nobody} :
            writes'[x][v] = IF x = d /\ v = u THEN <<>> ELSE writes[x][v]
      BY <1>15 DEF Typed, Queues
    <3> QED
      BY <1>3, <1>4, <3>1 DEF NoWrites
  <2>2. writes' # writes
    <3>1. writes'[d][u] = <<>> /\ <<w>> # <<>>
      BY <2>1 DEF NoWrites
    <3> QED
      BY <1>4, <3>1
  <2>3. Shown(d, u, userInfo[u])'
    <3>1. CASE w.attached
      <4>1. queries' = {} /\ info[d].email = doc["email"] /\ info'[d].username = doc["username"]
        BY <1>3, <1>4, <1>7, <1>8, <2>2, <3>1
      <4>2. PICK form : info' = [info EXCEPT ![d].username = form["username"]]
        BY <1>15, <3>1
      <4>3. info'[d] = [email |-> doc["email"], username |-> doc["username"]]
        BY <4>1, <4>2, PhoneFacts
      <4> QED
        BY <1>8, <4>1, <4>3 DEF Shown
    <3>2. CASE ~w.attached
      <4>1. Shown(d, u, doc)
        BY <1>3, <1>4, <3>2 DEF doc
      <4> QED
        BY <1>7, <1>8, <1>15, <3>2, <4>1 DEF Shown
    <3> QED
      BY <3>1, <3>2
  <2>4. Loading(d, u)'
    BY <1>12, <2>1, <2>3 DEF Loading
  <2> QED
    BY <1>13, <2>4 DEF InPhase
<1> QED
  BY <1>7, <1>14, <1>15

\* Nothing happens.
LEMMA PatientStutter == PatientInv /\ UNCHANGED vars => PatientInv'
<1> SUFFICES ASSUME PatientInv, UNCHANGED vars PROVE PatientInv'
  OBVIOUS
<1>1. /\ UNCHANGED <<accounts, created, userInfo, currentUser, currentEmail, info>>
      /\ UNCHANGED <<calls, queries, writes>>
  BY DEF vars, authVars, phoneVars
<1>2. OnePhoneEach' /\ Apart'
  BY <1>1, SameApart DEF PatientInv, OnePhoneEach
<1>3. AllWell => AllWell'
  BY <1>1, SameWell DEF phoneVars
<1>4. NoWrites => NoWrites'
  BY <1>1, SameNoWrites
<1>5. \A d \in Device, u \in Account : OthersWell(d, u) => OthersWell(d, u)'
  BY <1>1, SameOthersAll
<1>6. \A u \in Account : Recorded(u) => Recorded(u)'
  BY <1>1, SameRecorded
<1>7. CASE AtRest
  BY <1>1, <1>2, <1>3, <1>4, <1>7 DEF AtRest, PatientInv, InPhase
<1>8. CASE Calling
  <2>1. \A c : Asked(c) => Asked(c)'
    BY <1>1 DEF Asked
  <2>2. Calling'
    BY <1>1, <1>3, <1>4, <1>8, <2>1 DEF Calling
  <2> QED
    BY <1>2, <2>2 DEF PatientInv, InPhase
<1>9. ASSUME NEW d \in Device, NEW u \in Account, Called(d, u) PROVE PatientInv'
  <2>1. Behind(d, u) => Behind(d, u)'
    BY <1>1 DEF Behind, ShownOf
  <2>2. \A c : Agrees(Merge(userInfo[u], c.form), u) => Agrees(Merge(userInfo[u], c.form), u)'
    BY <1>1 DEF Agrees, Merge
  <2>3. Called(d, u)'
    BY <1>1, <1>4, <1>5, <1>6, <1>9, <2>1, <2>2 DEF Called
  <2> QED
    BY <1>2, <2>3 DEF PatientInv, InPhase
<1>10. \A d \in Device, u \in Account : Ahead(d, u) => Ahead(d, u)'
  BY <1>1, <1>5 DEF Ahead
<1>11. ASSUME NEW d \in Device, NEW u \in Account, Looking(d, u) PROVE PatientInv'
  <2>1. \A q : Agrees(Merge(userInfo[u], q.form), u) => Agrees(Merge(userInfo[u], q.form), u)'
    BY <1>1 DEF Agrees, Merge
  <2>2. Looking(d, u)'
    BY <1>1, <1>4, <1>10, <1>11, <2>1 DEF Looking
  <2> QED
    BY <1>2, <2>2 DEF PatientInv, InPhase
<1>12. ASSUME NEW d \in Device, NEW u \in Account, Loading(d, u) PROVE PatientInv'
  <2>1. Shown(d, u, userInfo[u])'
    BY <1>1, <1>12 DEF Loading, Shown
  <2>2. Loading(d, u)'
    BY <1>4, <1>6, <1>10, <1>12, <2>1 DEF Loading
  <2> QED
    BY <1>2, <2>2 DEF PatientInv, InPhase
<1>13. ASSUME NEW d \in Device, NEW u \in Account, Writing(d, u) PROVE PatientInv'
  <2>1. PICK w \in WriteRecord :
          /\ \A e \in Device, v \in Account \cup {Nobody} :
               writes[e][v] = IF e = d /\ v = u THEN <<w>> ELSE <<>>
          /\ w.doc = u /\ ~w.erase /\ Agrees(Merge(userInfo[u], w.form), u)
          /\ IF w.attached
               THEN queries = {} /\ info[d].email = accounts[u]["email"] /\ w.form["username"] # Absent
               ELSE Shown(d, u, Merge(userInfo[u], w.form))
    BY <1>13 DEF Writing
  <2>2. Agrees(Merge(userInfo[u], w.form), u)'
    BY <1>1, <2>1 DEF Agrees, Merge
  <2>3. IF w.attached
          THEN queries' = {} /\ info'[d].email = accounts'[u]["email"] /\ w.form["username"] # Absent
          ELSE Shown(d, u, Merge(userInfo[u], w.form))'
    <3>1. CASE w.attached
      BY <1>1, <2>1, <3>1
    <3>2. CASE ~w.attached
      <4>1. Shown(d, u, Merge(userInfo[u], w.form))
        BY <2>1, <3>2
      <4>2. Shown(d, u, Merge(userInfo[u], w.form))'
        BY <1>1, <4>1, Merge(userInfo[u], w.form)' = Merge(userInfo[u], w.form) DEF Shown, Merge
      <4> QED
        BY <3>2, <4>2
    <3> QED
      BY <3>1, <3>2
  <2>4. Ahead(d, u)'
    BY <1>10, <1>13 DEF Writing
  <2>5. Writing(d, u)'
    BY <1>1, <2>1, <2>2, <2>3, <2>4 DEF Writing, WriteRecord
  <2> QED
    BY <1>2, <2>5 DEF PatientInv, InPhase
<1> QED
  BY <1>7, <1>8, <1>9, <1>11, <1>12, <1>13 DEF PatientInv, InPhase

LEMMA PatientNext ==
  ASSUME LeftAlone, Typed, PatientInv, PatientStep
  PROVE  PatientInv'
<1>1. OnePhoneEach'
  BY DEF PatientStep
<1>2. ASSUME NEW d \in Device, CommitTyped(d) PROVE Apart' /\ InPhase'
  BY <1>2, PatientWritten
<1>3. ASSUME NEW c \in calls, AuthStep(c) PROVE Apart' /\ InPhase'
  <2>1. CASE AuthAccepts(c) /\ \A k \in calls' : k.answer = "ok"
    BY <2>1, PatientAccepted
  <2>2. CASE AuthRefuses(c)
    BY <2>2, PatientRefused
  <2>3. CASE CallReturns(c)
    BY <2>3, PatientReturns
  <2> QED
    BY <1>3, <2>1, <2>2, <2>3 DEF AuthStep
<1>4. ASSUME NEW q \in queries, QueryStep(q) PROVE Apart' /\ InPhase'
  BY <1>4, PatientAnswered, PatientFound DEF QueryStep
<1>5. PatientClick => Apart' /\ InPhase'
  BY PatientClicked
<1> QED
  BY <1>1, <1>2, <1>3, <1>4, <1>5 DEF PatientStep, PatientInv

LEMMA PatientInit == Init => PatientInv
<1> SUFFICES ASSUME Init PROVE PatientInv
  OBVIOUS
<1>1. /\ \A u \in Account : accounts[u] = NoAccount /\ userInfo[u] = NoDocument
      /\ \A d \in Device : currentUser[d] = Nobody
      /\ calls = {} /\ queries = {}
      /\ \A d \in Device, u \in Account \cup {Nobody} : writes[d][u] = <<>>
  BY DEF Init
<1>2. OnePhoneEach /\ Apart
  BY <1>1 DEF OnePhoneEach, Apart
<1>3. AtRest
  BY <1>1 DEF AtRest, NoWrites, AllWell, Recorded, Ready
<1> QED
  BY <1>2, <1>3 DEF PatientInv, InPhase

LEMMA PatientAlways == ASSUME LeftAlone PROVE Histories => [](patient => PatientInv)
<1>1. EitherInit => (patient => PatientInv)
  BY PatientInit DEF EitherInit
<1>2. Typed /\ (patient => PatientInv) /\ [Step]_<<vars, patient>> => (patient => PatientInv)'
  <2>1. PatientInv /\ UNCHANGED <<vars, patient>> => (patient => PatientInv)'
    BY PatientStutter
  <2>2. ASSUME Typed, patient => PatientInv, Step, patient' PROVE PatientInv'
    <3>1. patient /\ PatientStep
      BY <2>2 DEF Step
    <3> QED
      BY <2>2, <3>1, PatientNext
  <2> QED
    BY <2>1, <2>2
<1> QED
  BY <1>1, <1>2, HistoryTypes, PTL DEF Histories

-----------------------------------------------------------------------------
(* Auth, the documents and the screens agree *)

\* Where callbacks find the text fields as they were, Auth and the document of
\* every account have the same email and password whenever everything is settled
\* in a patient history, whatever was clicked before, whether requests were
\* refused or writes applied twice (signUpVC, editAccountVC.updateClicked).
THEOREM AuthIsMatched == ASSUME LeftAlone PROVE Histories => []MatchesAuth
<1>1. (patient => PatientInv) => MatchesAuth
  <2> SUFFICES ASSUME PatientInv, Settled, NEW u \in Account, accounts[u] # NoAccount
               PROVE  \A f \in Credential : userInfo[u][f] = accounts[u][f]
    BY DEF MatchesAuth
  <2>1. AtRest
    BY SettledRests DEF PatientInv
  <2> QED
    BY <2>1 DEF AtRest, AllWell, Recorded, Agrees
<1> QED
  BY <1>1, PatientAlways, PTL

\* There the singleton of every phone with a user has the email and username of
\* the user's document whenever everything is settled in a patient history, also
\* after others have used the phone (mapVC.getUserInfo, editAccountVC.updateClicked).
THEOREM SingletonsMatch == ASSUME LeftAlone PROVE Histories => []SingletonMatches
<1>1. (patient => PatientInv) => SingletonMatches
  <2> SUFFICES ASSUME PatientInv, Settled, NEW d \in Device, currentUser[d] # Nobody
               PROVE  info[d] = ShownOf(currentUser[d])
    BY DEF SingletonMatches, ShownOf
  <2>1. AtRest
    BY SettledRests DEF PatientInv
  <2> QED
    BY <2>1 DEF AtRest, AllWell, Ready
<1> QED
  BY <1>1, PatientAlways, PTL
=============================================================================
