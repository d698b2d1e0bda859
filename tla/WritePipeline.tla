---------------------------- MODULE WritePipeline ----------------------------
(***************************************************************************)
(* How the Firestore client carries the app's writes to the backend.       *)
(*                                                                         *)
(* A write becomes a batch in the current account's mutation queue, which  *)
(* is on disk.  RemoteStore keeps the first batches of the queue in its    *)
(* write pipeline and sends them, in order, over the write stream, once    *)
(* the stream is open and the handshake is done.  A response names no      *)
(* batch: it belongs to the front of the pipeline because of its position. *)
(* A stream that fails is opened again and sends the whole pipeline again; *)
(* a stream that the backend ends with a permanent error costs the front   *)
(* batch.  A change of the signed-in account swaps the queue and restarts  *)
(* the stream.                                                             *)
(*                                                                         *)
(* The client works on one thread.  Its worker queue keeps the order in    *)
(* which the app and Firebase Auth put operations there (tasks); what gRPC *)
(* and timers enqueue may come at any point between them and is an action  *)
(* of its own.  No handler is interrupted, so each is one action.          *)
(***************************************************************************)
EXTENDS Integers, SequencesExt, FiniteSetsExt

CONSTANTS
  User,              \* accounts (being signed out counts as one)
  FirstUser,         \* the one signed in at the start
  Nobody,            \* the caller of no gRPC call
  MaxPendingWrites,  \* kMaxPendingWrites
  MaxWrites,         \* bound on writes of the app
  MaxUpsets          \* bound on notifications of Firebase Auth, failures of
                     \* calls and token requests, and restarts, all together

ASSUME PipelineAssumption ==
  /\ FirstUser \in User
  /\ Nobody \notin User
  /\ IsFiniteSet(User)
  /\ MaxPendingWrites \in Nat \ {0}
  /\ {MaxWrites, MaxUpsets} \subseteq Nat

VARIABLES
  auth,          \* account the credentials provider reports
  tokenCounter,  \* its notifications so far
  tasks,         \* operations on the worker queue
  user,          \* SyncEngine's current user
  queue,         \* mutation queue of each account, on disk
  nextId,        \* next_batch_id_ of the open queue
  callbacks,     \* mutation_callbacks_
  remote,        \* RemoteStore, its write stream and the stream's gRPC call
  log,           \* writes the backend has applied, and as whom
  issuer,        \* history: the account signed in when write w was issued
  ends,          \* history: how batches left the queues
  refused,       \* history: writes the backend has refused
  lost,          \* history: writes lost with the worker queue
  failures,
  restarts

authVars  == <<auth, tokenCounter>>
storeVars == <<user, queue, nextId, callbacks>>
history   == <<issuer, lost, failures, restarts>>
vars      == <<authVars, tasks, storeVars, remote, log, ends, refused, history>>

Write == 1..MaxWrites

Upsets == tokenCounter + failures + restarts

\* First message of a call in either direction; batches are numbered from 1.
Handshake == [id |-> 0, w |-> 0]

-----------------------------------------------------------------------------
(* RemoteStore and the write stream *)

Closed == [pipeline |-> <<>>, state |-> "Initial", handshake |-> FALSE, idle |-> FALSE,
           closes |-> 0, asked |-> {},
           caller |-> Nobody, out |-> <<>>, in |-> <<>>, status |-> "None"]

IsStarted(r) == r.state \in {"Starting", "Backoff", "Open"}

\* After an error the stream backs off first; else it asks for credentials.
Start(r) ==
  IF r.state = "Error"
    THEN [r EXCEPT !.state = "Backoff"]
    ELSE [r EXCEPT !.state = "Starting",
                   !.asked = @ \cup {[closes |-> r.closes, counter |-> tokenCounter,
                                      user |-> auth]}]

StartIfNeeded(r) == IF ~IsStarted(r) /\ r.pipeline # <<>> THEN Start(r) ELSE r

\* Mutant: responses of the old call stay around.
CloseKeepsResponses(r, graceful) ==
  [Closed EXCEPT !.state = IF graceful THEN "Initial" ELSE "Error", !.in = r.in,
                 !.pipeline = r.pipeline, !.asked = r.asked, !.closes = r.closes + 1]

\* Mutant: closing is not counted.
CloseUncounted(r, graceful) ==
  [Closed EXCEPT !.state = IF graceful THEN "Initial" ELSE "Error",
                 !.pipeline = r.pipeline, !.asked = r.asked, !.closes = r.closes]

\* The call is dropped with everything in flight in both directions.
Close(r, graceful) ==
  [Closed EXCEPT !.state = IF graceful THEN "Initial" ELSE "Error",
                 !.pipeline = r.pipeline, !.asked = r.asked, !.closes = r.closes + 1]

Stop(r) == IF IsStarted(r) THEN Close(r, TRUE) ELSE r

\* Mutant: writing does not cancel the idle timer.
SendAndStayIdle(r, batches) == [r EXCEPT !.out = @ \o batches]

Send(r, batches) ==
  IF batches = <<>> THEN r ELSE [r EXCEPT !.out = @ \o batches, !.idle = FALSE]

\* Batches of queue q that are not in the pipeline yet: ids only grow.
Waiting(r, q) ==
  LET last == IF r.pipeline = <<>> THEN 0 ELSE Last(r.pipeline).id
  IN  SubSeq(q, Cardinality({i \in DOMAIN q : q[i].id <= last}) + 1, Len(q))

AtMost(n, s) == SubSeq(s, 1, IF n < Len(s) THEN n ELSE Len(s))

\* Mutant: one batch too many.
RoomAndOne(r) == MaxPendingWrites - Len(r.pipeline) + 1

Room(r) == MaxPendingWrites - Len(r.pipeline)

\* Mutant: a new batch does not wait for the handshake.
FillEagerly(r, q) ==
  LET new  == AtMost(Room(r), Waiting(r, q))
      full == [r EXCEPT !.pipeline = @ \o new]
      sent == IF r.state = "Open" THEN Send(full, new) ELSE full
  IN  StartIfNeeded([sent EXCEPT !.idle = @ \/ (r.state = "Open" /\ full.pipeline = <<>>)])

\* Batches enter the pipeline while there is room and leave at once if they can.
FillWritePipeline(r, q) ==
  LET new  == AtMost(Room(r), Waiting(r, q))
      full == [r EXCEPT !.pipeline = @ \o new]
      sent == IF r.state = "Open" /\ r.handshake THEN Send(full, new) ELSE full
  IN  StartIfNeeded([sent EXCEPT !.idle = @ \/ (r.state = "Open" /\ full.pipeline = <<>>)])

-----------------------------------------------------------------------------
(* Batches *)

HighestId == Max({0} \cup UNION {{b.id : b \in ToSet(queue[u])} : u \in User})

Without(q, b) ==
  LET at == {i \in DOMAIN q : q[i].id = b.id}
  IN  IF at = {} THEN q ELSE RemoveAt(q, CHOOSE i \in at : TRUE)

\* Mutant: the batch stays on disk.
CompleteOnlyInMemory(b, ok) ==
  LET mine == {c \in callbacks[user] : c.id = b.id}
  IN  /\ callbacks' = [callbacks EXCEPT ![user] = @ \ mine]
      /\ ends' = ends \cup {[w |-> b.w, ok |-> ok, told |-> {c.w : c \in mine}]}
      /\ UNCHANGED queue

\* Mutant: the closure is called and kept.
CompleteKeepsClosure(b, ok) ==
  LET mine == {c \in callbacks[user] : c.id = b.id}
  IN  /\ queue' = [queue EXCEPT ![user] = Without(@, b)]
      /\ ends' = ends \cup {[w |-> b.w, ok |-> ok, told |-> {c.w : c \in mine}]}
      /\ UNCHANGED callbacks

\* NotifyUser, and the batch leaves the queue of the current user.
Complete(b, ok) ==
  LET mine == {c \in callbacks[user] : c.id = b.id}
  IN  /\ callbacks' = [callbacks EXCEPT ![user] = @ \ mine]
      /\ queue' = [queue EXCEPT ![user] = Without(@, b)]
      /\ ends' = ends \cup {[w |-> b.w, ok |-> ok, told |-> {c.w : c \in mine}]}

Init ==
  /\ auth = FirstUser /\ tokenCounter = 0
  /\ tasks = <<>>
  /\ user = FirstUser
  /\ queue = [u \in User |-> <<>>]
  /\ nextId = 1
  /\ callbacks = [u \in User |-> {}]
  /\ remote = Closed
  /\ log = <<>>
  /\ issuer = <<>> /\ ends = {} /\ refused = {} /\ lost = {}
  /\ failures = 0 /\ restarts = 0

-----------------------------------------------------------------------------
(* The app, Firebase Auth, and the end of the process *)

\* The app writes: setData, updateData, addDocument or delete.
Issue ==
  /\ Len(issuer) < MaxWrites
  /\ issuer' = Append(issuer, auth)
  /\ tasks' = Append(tasks, [kind |-> "write", w |-> Len(issuer) + 1])
  /\ UNCHANGED <<authVars, storeVars, remote, log, ends, refused, lost, failures, restarts>>

\* Signing in or out, and a refreshed token of the same account.
AuthChanges(u) ==
  /\ Upsets < MaxUpsets
  /\ auth' = u
  /\ tokenCounter' = tokenCounter + 1
  /\ tasks' = Append(tasks, [kind |-> "credential", user |-> u])
  /\ UNCHANGED <<storeVars, remote, log, ends, refused, history>>

\* A token request that a notification has overtaken is made again.
TokenAnswered(a) ==
  /\ IF a.counter = tokenCounter
       THEN /\ tasks' = Append(tasks, [kind |-> "token", closes |-> a.closes,
                                       user |-> a.user, ok |-> TRUE])
            /\ remote' = [remote EXCEPT !.asked = @ \ {a}]
       ELSE /\ remote' = [remote EXCEPT !.asked = (@ \ {a}) \cup
                            {[a EXCEPT !.counter = tokenCounter, !.user = auth]}]
            /\ UNCHANGED tasks
  /\ UNCHANGED <<authVars, storeVars, log, ends, refused, history>>

TokenRefused(a) ==
  /\ a.counter = tokenCounter
  /\ Upsets < MaxUpsets
  /\ failures' = failures + 1
  /\ tasks' = Append(tasks, [kind |-> "token", closes |-> a.closes,
                             user |-> a.user, ok |-> FALSE])
  /\ remote' = [remote EXCEPT !.asked = @ \ {a}]
  /\ UNCHANGED <<authVars, storeVars, log, ends, refused, issuer, lost, restarts>>

\* The app is killed and started again.
Restart ==
  /\ Upsets < MaxUpsets
  /\ restarts' = restarts + 1
  /\ tasks' = <<>>
  /\ lost' = lost \cup {t.w : t \in {s \in ToSet(tasks) : s.kind = "write"}}
  /\ user' = auth
  /\ nextId' = HighestId + 1
  /\ callbacks' = [u \in User |-> {}]
  /\ remote' = FillWritePipeline(Closed, queue[auth])
  /\ UNCHANGED <<authVars, queue, log, ends, refused, issuer, failures>>

-----------------------------------------------------------------------------
(* Operations of the worker queue *)

IsNext(kind) == tasks # <<>> /\ Head(tasks).kind = kind

\* Mutant: the batch goes to the account that is signed in by now.
RunWriteForAuth ==
  /\ IsNext("write")
  /\ LET b == [id |-> nextId, w |-> Head(tasks).w]
     IN  /\ queue' = [queue EXCEPT ![auth] = Append(@, b)]
         /\ callbacks' = [callbacks EXCEPT ![auth] = @ \cup {b}]
         /\ remote' = FillWritePipeline(remote, queue'[user])
  /\ nextId' = nextId + 1
  /\ tasks' = Tail(tasks)
  /\ UNCHANGED <<authVars, user, log, ends, refused, history>>

\* SyncEngine::WriteMutations: the batch is stored and its closure kept.
RunWrite ==
  /\ IsNext("write")
  /\ LET b     == [id |-> nextId, w |-> Head(tasks).w]
         known == {c \in callbacks[user] : c.id = nextId}
         q     == Append(queue[user], b)
     IN  /\ queue' = [queue EXCEPT ![user] = q]
         /\ callbacks' = [callbacks EXCEPT ![user] = IF known = {} THEN @ \cup {b} ELSE @]
         /\ remote' = FillWritePipeline(remote, q)
  /\ nextId' = nextId + 1
  /\ tasks' = Tail(tasks)
  /\ UNCHANGED <<authVars, user, log, ends, refused, history>>

\* Mutant: the stream restarts before the new account's queue is opened.
RunCredentialTooEarly ==
  /\ IsNext("credential")
  /\ user' = Head(tasks).user
  /\ nextId' = IF user' = user THEN nextId ELSE HighestId + 1
  /\ remote' = FillWritePipeline([Stop(remote) EXCEPT !.pipeline = <<>>], queue[user])
  /\ tasks' = Tail(tasks)
  /\ UNCHANGED <<authVars, queue, callbacks, log, ends, refused, history>>

\* SyncEngine::HandleCredentialChange: a new account's queue is opened; the
\* stream restarts in any case.
RunCredential ==
  /\ IsNext("credential")
  /\ user' = Head(tasks).user
  /\ nextId' = IF user' = user THEN nextId ELSE HighestId + 1
  /\ remote' = FillWritePipeline([Stop(remote) EXCEPT !.pipeline = <<>>], queue[user'])
  /\ tasks' = Tail(tasks)
  /\ UNCHANGED <<authVars, queue, callbacks, log, ends, refused, history>>

\* The stream's answer to credentials it is still waiting for: the call opens
\* with the handshake, or the stream backs off.
RunToken ==
  /\ IsNext("token")
  /\ LET t == Head(tasks)
     IN  remote' = IF t.closes # remote.closes THEN remote
                   ELSE IF t.ok
                     THEN [remote EXCEPT !.state = "Open", !.caller = t.user,
                                         !.out = <<Handshake>>]
                     ELSE StartIfNeeded(Close(remote, FALSE))
  /\ tasks' = Tail(tasks)
  /\ UNCHANGED <<authVars, storeVars, log, ends, refused, history>>

RunTask == RunWrite \/ RunCredential \/ RunToken

-----------------------------------------------------------------------------
(* The write stream *)

RemoteOnly == UNCHANGED <<authVars, tasks, storeVars, log, ends, refused, history>>

BackoffElapses ==
  /\ remote.state = "Backoff"
  /\ remote' = Start([remote EXCEPT !.state = "Initial"])
  /\ RemoteOnly

IdleTimerFires ==
  /\ remote.idle
  /\ remote' = Stop(remote)
  /\ RemoteOnly

\* The first response completes the handshake; the pipeline is sent.
ReadHandshake ==
  /\ remote.in # <<>> /\ ~remote.handshake
  /\ remote' = Send([remote EXCEPT !.handshake = TRUE, !.in = Tail(@)], remote.pipeline)
  /\ RemoteOnly

\* Mutant: the response is taken for the newest batch.
ReadNewest ==
  /\ remote.in # <<>> /\ remote.handshake
  /\ Complete(Last(remote.pipeline), TRUE)
  /\ remote' = FillWritePipeline([remote EXCEPT !.in = Tail(@), !.pipeline = Front(@)],
                                 queue'[user])
  /\ UNCHANGED <<authVars, tasks, user, nextId, log, refused, history>>

\* Any other response acknowledges the front of the pipeline.
ReadResult ==
  /\ remote.in # <<>> /\ remote.handshake
  /\ Complete(Head(remote.pipeline), TRUE)
  /\ remote' = FillWritePipeline([remote EXCEPT !.in = Tail(@), !.pipeline = Tail(@)],
                                 queue'[user])
  /\ UNCHANGED <<authVars, tasks, user, nextId, log, refused, history>>

\* The call is over: a read finds no further response, or a write fails, and
\* then responses that have not been read are dropped.
CallOver == remote.status # "None" /\ (remote.in = <<>> \/ remote.out # <<>>)

FrontToBlame ==
  remote.status = "Permanent" /\ remote.handshake /\ remote.pipeline # <<>>

\* Mutant: nothing tries again.
StreamFailsForGood ==
  /\ CallOver /\ ~FrontToBlame
  /\ remote' = Close(remote, FALSE)
  /\ RemoteOnly

\* A transient error, one before the handshake, or nothing to send: try again
\* while there is something to send.
StreamFails ==
  /\ CallOver /\ ~FrontToBlame
  /\ remote' = StartIfNeeded(Close(remote, FALSE))
  /\ RemoteOnly

\* A permanent error is held against the front of the pipeline.
WriteRejected ==
  /\ CallOver /\ FrontToBlame
  /\ Complete(Head(remote.pipeline), FALSE)
  /\ remote' = FillWritePipeline(
                 [Close(remote, FALSE) EXCEPT !.state = "Initial", !.pipeline = Tail(@)],
                 queue'[user])
  /\ UNCHANGED <<authVars, tasks, user, nextId, log, refused, history>>

-----------------------------------------------------------------------------
(* gRPC and the backend *)

Arrived == remote.status = "None" /\ remote.out # <<>>

\* The backend takes the next message: it applies a batch and answers ...
Serve ==
  /\ Arrived
  /\ remote' = [remote EXCEPT !.out = Tail(@), !.in = Append(@, Head(remote.out))]
  /\ log' = IF Head(remote.out) = Handshake THEN log
            ELSE Append(log, [w |-> Head(remote.out).w, as |-> remote.caller])
  /\ UNCHANGED <<authVars, tasks, storeVars, ends, refused, history>>

\* ... or refuses it, which ends the call with a permanent error.
Refuse ==
  /\ Arrived /\ Head(remote.out) # Handshake
  /\ remote' = [remote EXCEPT !.out = Tail(@), !.status = "Permanent"]
  /\ refused' = refused \cup {Head(remote.out).w}
  /\ UNCHANGED <<authVars, tasks, storeVars, log, ends, history>>

\* The connection fails, or the backend refuses the handshake.
CallBreaks ==
  /\ remote.state = "Open" /\ remote.status = "None"
  /\ Upsets < MaxUpsets
  /\ failures' = failures + 1
  /\ \/ remote' = [remote EXCEPT !.status = "Transient"]
     \/ /\ remote.out # <<>> /\ Head(remote.out) = Handshake
        /\ remote' = [remote EXCEPT !.out = Tail(@), !.status = "Permanent"]
  /\ UNCHANGED <<authVars, tasks, storeVars, log, ends, refused, issuer, lost, restarts>>

Next ==
  \/ Issue \/ Restart
  \/ \E u \in User : AuthChanges(u)
  \/ \E a \in remote.asked : TokenAnswered(a) \/ TokenRefused(a)
  \/ RunTask
  \/ BackoffElapses \/ IdleTimerFires
  \/ ReadHandshake \/ ReadResult \/ StreamFails \/ WriteRejected
  \/ Serve \/ Refuse \/ CallBreaks

Spec == Init /\ [][Next]_vars

\* The worker queue runs what it is given, requests for tokens and calls end,
\* and a backend that has a message answers or refuses it.
Fairness ==
  /\ WF_vars(RunTask)
  /\ WF_vars(\E a \in remote.asked : TokenAnswered(a))
  /\ WF_vars(BackoffElapses)
  /\ WF_vars(ReadHandshake \/ ReadResult)
  /\ WF_vars(StreamFails \/ WriteRejected)
  /\ WF_vars(Serve \/ Refuse)

FairSpec == Spec /\ Fairness

-----------------------------------------------------------------------------
(* Properties *)

Batch == [id : Nat, w : Write]
Task  == [kind : {"write"}, w : Write] \cup [kind : {"credential"}, user : User]
         \cup [kind : {"token"}, closes : Nat, user : User, ok : BOOLEAN]

\* What a remote record looks like whose batches are all in S.
Remote(S) ==
  [pipeline : Seq(S), state : {"Initial", "Starting", "Open", "Error", "Backoff"},
   handshake : BOOLEAN, idle : BOOLEAN, closes : Nat,
   asked : SUBSET [closes : Nat, counter : Nat, user : User],
   caller : User \cup {Nobody},
   out : Seq(S \cup {Handshake}), in : Seq(S \cup {Handshake}),
   status : {"None", "Transient", "Permanent"}]

TypeOK ==
  /\ auth \in User /\ tokenCounter \in Nat
  /\ tasks \in Seq(Task)
  /\ user \in User
  /\ queue \in [User -> Seq(Batch)]
  /\ nextId \in Nat
  /\ callbacks \in [User -> SUBSET Batch]
  /\ remote \in Remote(Batch) /\ Len(remote.pipeline) <= MaxPendingWrites
  /\ log \in Seq([w : Write, as : User])
  /\ issuer \in Seq(User) /\ Len(issuer) <= MaxWrites
  /\ ends \subseteq [w : Write, ok : BOOLEAN, told : SUBSET Write]
  /\ refused \subseteq Write /\ lost \subseteq Write
  /\ failures \in Nat /\ restarts \in Nat /\ Upsets <= MaxUpsets

\* What the backend has not answered yet and what it has answered is together
\* the pipeline, in its order, whatever entered or left it in the meantime:
\* responses carry no batch id, so everything rests on this.
RepliesMatchPipeline ==
  /\ remote.handshake => /\ IsPrefix(remote.in, remote.pipeline)
                         /\ remote.status = "None" => remote.in \o remote.out = remote.pipeline
  /\ remote.state = "Open" /\ ~remote.handshake /\ remote.status = "None"
       => remote.in \o remote.out = <<Handshake>> /\ remote.pipeline # <<>>

\* The backend applies a write in the name of the account it was issued under,
\* however sign-ins, token requests and restarts of the stream interleave.
RightAccount == \A i \in DOMAIN log : log[i].as = issuer[log[i].w]

\* Once a write is acknowledged, the backend has applied it and does not apply
\* an older write of its account again: a pipeline is sent again from its
\* front, even after its later batches have been applied.
AcknowledgedIsLatest ==
  \A e \in ends : e.ok =>
    \E i \in DOMAIN log :
      /\ log[i].w = e.w
      /\ \A j \in DOMAIN log : j > i /\ issuer[log[j].w] = issuer[e.w] => log[j].w >= e.w

\* Once nothing of an account is pending, what the backend applied last for it,
\* and so what its document holds, is a write whose outcome has been decided,
\* and no write that was acknowledged is newer: it is the newest acknowledged
\* one, or a later one that was reported as rejected after it had been applied.
SettledIsKnown ==
  \A u \in User, i \in DOMAIN log :
    /\ queue[u] = <<>>
    /\ issuer[log[i].w] = u
    /\ \A j \in DOMAIN log : j > i => issuer[log[j].w] # u
    => \E e \in ends :
         /\ e.w = log[i].w
         /\ \A f \in ends : f.ok /\ issuer[f.w] = u => f.w <= e.w

\* A write the app has issued is on the worker queue, in the queue of the
\* account it was issued under, or done with; only a restart loses one, and
\* only from the worker queue.
NoWriteForgotten ==
  \A w \in DOMAIN issuer :
    LET places == <<{t.w : t \in {s \in ToSet(tasks) : s.kind = "write"}},
                    {b.w : b \in ToSet(queue[issuer[w]])}, {e.w : e \in ends}, lost>>
    IN  Cardinality({k \in DOMAIN places : w \in places[k]}) = 1

\* A closure is told the outcome of its own write, once, although batch ids are
\* used again after a change of account; without a restart every one is told.
CompletionsAreRight ==
  \A e \in ends :
    /\ e.told \subseteq {e.w}
    /\ restarts = 0 => e.told = {e.w}
    /\ \A f \in ends : f.w = e.w => f = e

\* The idle timer never stops a stream that is still needed
\* (remote_store.cc asserts it when the stream has been stopped).
IdleOnlyWhenDone == remote.idle => remote.state = "Open" /\ remote.pipeline = <<>>

\* Credentials that arrive for the stream find it waiting for them, however
\* often it has been closed and started again since they were asked for
\* (stream.cc asserts it before it opens the call).
CredentialsAreAwaited ==
  \A t \in ToSet(tasks) :
    t.kind = "token" /\ t.closes = remote.closes => remote.state = "Starting"

\* No write of an account is applied before an older one of the same queue.
AppliedInOrder ==
  \A u \in User : \A j \in DOMAIN queue[u] : \A i \in 1..(j - 1) :
    queue[u][j].w \in {e.w : e \in ToSet(log)} => queue[u][i].w \in {e.w : e \in ToSet(log)}

\* Everything the current account has written reaches its end.
Drains == <>[](tasks = <<>> /\ queue[user] = <<>>)

\* A rejected write is one that the backend has refused.
RejectedWasRefused == \A e \in ends : ~e.ok => e.w \in refused

\* The client keeps the promise of PendingWrites, with the queues on disk as
\* what is pending.
Promise == INSTANCE PendingWrites WITH
  pending <- [u \in User |-> [i \in DOMAIN queue[u] |-> queue[u][i].w]],
  applied <- log,
  results <- {[w |-> e.w, ok |-> e.ok] : e \in ends}

KeepsPromise == Promise!Spec

-----------------------------------------------------------------------------
(* Inductive strengthenings, for the proofs *)

\* What holds of RemoteStore and its stream when account u is the current one
\* and S has the batches of its queue.
RemoteInv(r, u, S) ==
  LET n == Len(r.pipeline)
  IN  /\ r \in Remote(S)
      /\ n <= MaxPendingWrites
      /\ r.state = "Open" => r.caller = u
      /\ r.state # "Open" => /\ r.in = <<>> /\ r.out = <<>> /\ r.status = "None"
                             /\ ~r.handshake /\ ~r.idle
      /\ r.state \in {"Starting", "Backoff"} => n > 0
      /\ r.state = "Open" /\ ~r.handshake =>
           /\ n > 0
           /\ r.in = <<>> \/ r.in = <<Handshake>>
           /\ r.status = "None" => \/ r.in = <<>> /\ r.out = <<Handshake>>
                                   \/ r.in = <<Handshake>> /\ r.out = <<>>
      /\ r.idle => r.state = "Open" /\ n = 0
      /\ r.handshake =>
           /\ Len(r.in) <= n /\ \A i \in 1..Len(r.in) : r.in[i] = r.pipeline[i]
           /\ r.status = "None" => r.in \o r.out = r.pipeline

\* Batches of writes that account u issued, if by has the issuers.
Of(u, by) == {b \in Batch : b.w \in DOMAIN by /\ by[b.w] = u}

\* Account u is the current one once the first k - 1 operations of ts have run,
\* if it is account me before them.
NoneOf(ts, i, j) == \A k \in i..j : ts[k].kind # "credential"

UserAt(ts, me, k, u) ==
  \/ NoneOf(ts, 1, k - 1) /\ u = me
  \/ \E j \in 1..(k - 1) : /\ ts[j].kind = "credential" /\ ts[j].user = u
                           /\ NoneOf(ts, j + 1, k - 1)

\* A write runs, and a token arrives, under the account they are for.
TasksInv(ts, me, by) ==
  \A k \in DOMAIN ts :
    /\ ts[k].kind = "write" => /\ ts[k].w \in DOMAIN by
                               /\ UserAt(ts, me, k, by[ts[k].w])
    /\ ts[k].kind = "token" => UserAt(ts, me, k, ts[k].user)

AskedInv(asked) ==
  \A a \in asked : /\ a.counter <= tokenCounter
                   /\ a.counter = tokenCounter => a.user = auth

\* At most one answer is due, if the stream r waits for credentials; all others
\* are for streams closed before.
AnswersInv(r, ts) ==
  LET due   == {k \in DOMAIN ts : ts[k].kind = "token" /\ ts[k].closes >= r.closes}
      asked == {a \in r.asked : a.closes >= r.closes}
  IN  /\ \A k \in due : ts[k].closes = r.closes
      /\ \A a \in asked : a.closes = r.closes
      /\ r.state # "Starting" => due = {} /\ asked = {}
      /\ \A k, l \in due : k = l
      /\ \A a, b \in asked : a = b
      /\ due = {} \/ asked = {}

IInv ==
  /\ TypeOK
  /\ RemoteInv(remote, user, Of(user, issuer))
  /\ \A u \in User : queue[u] \in Seq(Of(u, issuer))
  /\ TasksInv(tasks, user, issuer)
  /\ UserAt(tasks, user, Len(tasks) + 1, auth)
  /\ AskedInv(remote.asked) /\ AnswersInv(remote, tasks)
  /\ \A i \in DOMAIN log : log[i].w \in DOMAIN issuer
  /\ RightAccount

\* Sequence p is what queue q begins with.
Begins(p, q) == Len(p) <= Len(q) /\ \A i \in 1..Len(p) : p[i] = q[i]

\* The writes in a queue, and what has become of the others.
Queued(u)  == {b.w : b \in ToSet(queue[u])}
Writes(ts) == {t.w : t \in {s \in ToSet(ts) : s.kind = "write"}}
Applied    == {e.w : e \in ToSet(log)}
Ended      == {e.w : e \in ends}
Past       == (UNION {Queued(u) : u \in User}) \cup Applied \cup Ended \cup lost

\* A queue is in the order of its batch ids and of its writes, the next id is
\* new to all of them, and who waits for a batch waits for one in the queue.
Ascending(q) == \A i, j \in DOMAIN q : i < j => q[i].id < q[j].id /\ q[i].w < q[j].w

QueueInv ==
  /\ \A u \in User :
       /\ Ascending(queue[u])
       /\ \A b \in ToSet(queue[u]) : b.id \in 1..(nextId - 1)
       /\ callbacks[u] \subseteq ToSet(queue[u])
       /\ restarts = 0 => callbacks[u] = ToSet(queue[u])
  /\ nextId > 0
  /\ Begins(remote.pipeline, queue[user])

\* Writes run in the order they are issued, an account's end in that order, and
\* each is in one place.
InOrder(ts) ==
  \A k, l \in DOMAIN ts :
    ts[k].kind = "write" /\ ts[l].kind = "write" /\ k < l => ts[k].w < ts[l].w

OrderInv ==
  /\ InOrder(tasks)
  /\ Past \subseteq DOMAIN issuer
  /\ \A w \in Writes(tasks), x \in Past : x < w
  /\ \A e \in ends : \A w \in Queued(issuer[e.w]) : e.w < w
  /\ \A w \in lost : w \notin Ended /\ \A u \in User : w \notin Queued(u)
  /\ \A w \in DOMAIN issuer : w \in Writes(tasks) \cup Queued(issuer[w]) \cup Ended \cup lost

\* The last that has been applied for the account of w is w or a later write.
Latest(w) ==
  \E i \in DOMAIN log :
    /\ log[i].w = w
    /\ \A j \in DOMAIN log : j > i /\ issuer[log[j].w] = issuer[w] => log[j].w >= w

AppliedInv ==
  /\ AppliedInOrder
  /\ remote.handshake => \A i \in 1..Len(remote.in) : Latest(remote.pipeline[i].w)
  /\ AcknowledgedIsLatest

\* A write that was lost before it had a queue never reaches the backend.
LostInv == lost \cap Applied = {}

HistoryInv == QueueInv /\ OrderInv /\ AppliedInv /\ CompletionsAreRight
=============================================================================
