----------------------------- MODULE OneShotGets -----------------------------
(***************************************************************************)
(* How the Firestore client answers the app's queries.                     *)
(*                                                                         *)
(* Every getDocuments of the app listens to its query until the first      *)
(* snapshot is good enough, gives that to the callback and stops           *)
(* listening.  Gets of the same query share a view.  A snapshot is good    *)
(* enough when its view is current, which the backend says over the watch  *)
(* stream, or when the client takes itself to be offline: a connection     *)
(* attempt has failed, or the online state timer has fired.                *)
(*                                                                         *)
(* A query keeps its target id from one listen to the next, and with it    *)
(* a resume token; answers to an earlier listen may still be on their way  *)
(* when the next is sent, and the watch change aggregator tells them apart *)
(* by counting the requests that have not been acknowledged.               *)
(*                                                                         *)
(* The client works on one thread, as in WritePipeline: tasks has what the *)
(* app's calls put on the worker queue, in order; what gRPC, credentials   *)
(* and timers enqueue may come between them and is an action of its own.   *)
(* What the app's own writes do to a view, limbo documents, existence      *)
(* filters and refused listens are left out.                               *)
(***************************************************************************)
EXTENDS Integers, SequencesExt, FiniteSetsExt

CONSTANTS
  Query,       \* the app's queries
  MaxGets,     \* bound on calls of getDocuments
  MaxCommits,  \* bound on changes of the data on the backend
  MaxUpsets,   \* bound on failures of calls and of token requests, changes of
               \* credentials and restarts, all together
  Window       \* bound on responses of the backend on their way

ASSUME GetsAssumption ==
  /\ IsFiniteSet(Query)
  /\ {MaxGets, MaxCommits, MaxUpsets} \subseteq Nat
  /\ Window \in Nat \ {0}

VARIABLES
  version,       \* changes of the data so far; each concerns every query
  asked,         \* the query of each get
  floor,         \* history: the version a get may not be older than
  tasks,         \* operations on the worker queue
  listeners,     \* gets that listen to each query
  view,          \* view of each query that has listeners
  events,        \* snapshots on their way to the callback of each get
  answers,       \* snapshots each get's callback was given
  cache,         \* changes in the local copy of each query's documents
  token,         \* resume token of each query's target, on disk
  lastSnapshot,  \* version of the last global snapshot, on disk
  online,        \* OnlineStateTracker
  stream,        \* RemoteStore, its watch stream and the stream's gRPC call
  upsets,
  hasty,         \* history: gets whose target was watched again before the
                 \* backend had acknowledged that it is no longer watched
  gone           \* history: gets lost in a restart

appVars  == <<asked, floor>>
diskVars == <<cache, token, lastSnapshot>>
userVars == <<listeners, view, events>>
vars == <<version, appVars, tasks, userVars, answers, diskVars, online, stream,
          upsets, hasty, gone>>

Get    == 1..MaxGets
Commit == 1..MaxCommits

Active(q) == listeners[q] # {}
AnyActive == \E q \in Query : Active(q)

-----------------------------------------------------------------------------
(* OnlineStateTracker *)

\* HandleWatchStreamStart: no timer after a failed attempt.
StreamStarted(o) == IF o.failed THEN o ELSE [o EXCEPT !.state = "Unknown", !.timer = TRUE]

\* HandleWatchStreamFailure: kMaxWatchStreamFailures is one.
StreamFailed(o) ==
  IF o.state = "Online" THEN [o EXCEPT !.state = "Unknown"]
                        ELSE [state |-> "Offline", failed |-> TRUE, timer |-> FALSE]

UpdateState(new) == [state |-> new, failed |-> FALSE, timer |-> FALSE]

-----------------------------------------------------------------------------
(* Views and listeners *)

NoView == [current |-> FALSE, data |-> {}]

\* raised_initial_event_: the first event is on its way or has been given.
Raised(g) == events[g] # <<>> \/ answers[g] # <<>>

Event(v) == [synced |-> v.current, data |-> v.data]

\* ShouldRaiseInitialEvent, with wait_for_sync_when_online.
GoodEnough(v, o) == v.current \/ o.state = "Offline"

\* OnViewSnapshots and HandleOnlineStateChange: the views become vs and the
\* state o; a listener that has raised an event raises one for every new
\* snapshot, others once the snapshot is good enough.
Publish(vs, o) ==
  /\ view' = vs
  /\ online' = o
  /\ events' = [g \in Get |->
       LET mine == {q \in Query : g \in listeners[q]}
       IN  IF \E q \in mine : IF Raised(g) THEN vs[q] # view[q] ELSE GoodEnough(vs[q], o)
             THEN Append(events[g], Event(vs[asked[g]]))
             ELSE events[g]]

\* Going offline makes no view current any more (View::ApplyOnlineStateChange).
SetOnline(o) ==
  Publish(IF o.state = "Offline" THEN [q \in Query |-> [view[q] EXCEPT !.current = FALSE]]
                                 ELSE view, o)

-----------------------------------------------------------------------------
(* RemoteStore, the watch stream and the WatchChangeAggregator *)

NoTarget == [pending |-> 0, current |-> FALSE, dirty |-> TRUE, token |-> 0]
Unserved == [phase |-> "None", sent |-> 0, since |-> 0]

\* Targets and docs are the aggregator's; held has the resume tokens in memory;
\* served, due and at are the backend's side of the call.
Closed ==
  [state |-> "Initial", idle |-> FALSE,
   targets |-> [q \in Query |-> NoTarget], docs |-> [q \in Query |-> {}],
   held |-> [q \in Query |-> 0],
   out |-> <<>>, in |-> <<>>, broken |-> FALSE,
   served |-> [q \in Query |-> Unserved], due |-> FALSE, at |-> 0]

IsStarted(s) == s.state \in {"Starting", "Backoff", "Open"}

\* After an error the stream backs off first; else it asks for credentials.
Start(s) == [s EXCEPT !.state = IF @ = "Error" THEN "Backoff" ELSE "Starting"]

\* Mutant: the aggregator of the last call is used for the next.
CloseKeepsTargets(s, graceful) ==
  [Closed EXCEPT !.state = IF graceful THEN "Initial" ELSE "Error", !.held = s.held,
                 !.targets = s.targets]

\* The call is dropped with everything in flight and what was not raised yet.
Close(s, graceful) ==
  [Closed EXCEPT !.state = IF graceful THEN "Initial" ELSE "Error", !.held = s.held]

\* Mutant: a request that takes a listen back is not waited for.
SendUnwatchUncounted(s, q) ==
  [s EXCEPT !.idle = FALSE, !.out = Append(@, [kind |-> "unwatch", q |-> q])]

SendUnwatch(s, q) ==
  [s EXCEPT !.targets[q].pending = @ + 1, !.idle = FALSE,
            !.out = Append(@, [kind |-> "unwatch", q |-> q])]

SendWatch(s, q) ==
  [s EXCEPT !.targets[q].pending = @ + 1, !.idle = FALSE,
            !.out = Append(@, [kind |-> "watch", q |-> q, token |-> s.held[q]])]

\* OnWatchStreamOpen: every target is watched again, in the order of a hash map.
Open(s, order) ==
  [s EXCEPT !.state = "Open",
            !.targets = [q \in Query |-> IF Active(q) THEN [s.targets[q] EXCEPT !.pending = @ + 1]
                                                     ELSE s.targets[q]],
            !.out = [i \in DOMAIN order |->
                       [kind |-> "watch", q |-> order[i], token |-> s.held[order[i]]]]]

Init ==
  /\ version = 0
  /\ asked = <<>> /\ floor = <<>>
  /\ tasks = <<>>
  /\ listeners = [q \in Query |-> {}]
  /\ view = [q \in Query |-> NoView]
  /\ events = [g \in Get |-> <<>>] /\ answers = [g \in Get |-> <<>>]
  /\ cache = [q \in Query |-> {}] /\ token = [q \in Query |-> 0]
  /\ lastSnapshot = 0
  /\ online = UpdateState("Unknown")
  /\ stream = Closed
  /\ upsets = 0
  /\ hasty = {} /\ gone = {}

-----------------------------------------------------------------------------
(* The app, Firebase Auth, and the end of the process *)

Unanswered == {g \in DOMAIN asked : answers[g] = <<>> /\ g \notin gone}

\* getDocuments.  A get that finds another of its query unanswered may be
\* given what that one is given.
Ask(q) ==
  LET others == {g \in Unanswered : asked[g] = q}
  IN  /\ Len(asked) < MaxGets
      /\ asked' = Append(asked, q)
      /\ floor' = Append(floor, IF others = {} THEN version ELSE floor[Min(others)])
      /\ tasks' = Append(tasks, [kind |-> "listen", g |-> Len(asked) + 1])
      /\ UNCHANGED <<version, userVars, answers, diskVars, online, stream, upsets,
                     hasty, gone>>

\* Mutant: the listener is not muted before the callback runs.
DeliverUnmuted(g) ==
  /\ events[g] # <<>>
  /\ events' = [events EXCEPT ![g] = Tail(@)]
  /\ answers' = [answers EXCEPT ![g] = Append(@, Head(events[g]))]
  /\ tasks' = IF answers[g] = <<>> THEN Append(tasks, [kind |-> "unlisten", g |-> g]) ELSE tasks
  /\ UNCHANGED <<version, appVars, listeners, view, diskVars, online, stream, upsets,
                 hasty, gone>>

\* The main queue: the first event removes the listener, which mutes it, and
\* runs the callback; later ones are dropped.
Deliver(g) ==
  /\ events[g] # <<>>
  /\ events' = [events EXCEPT ![g] = Tail(@)]
  /\ IF answers[g] = <<>>
       THEN /\ answers' = [answers EXCEPT ![g] = <<Head(events[g])>>]
            /\ tasks' = Append(tasks, [kind |-> "unlisten", g |-> g])
       ELSE UNCHANGED <<answers, tasks>>
  /\ UNCHANGED <<version, appVars, listeners, view, diskVars, online, stream, upsets,
                 hasty, gone>>

Upset == upsets < MaxUpsets /\ upsets' = upsets + 1

\* Firebase Auth reports an account or a refreshed token.
CredentialChanges ==
  /\ Upset
  /\ tasks' = Append(tasks, [kind |-> "credential"])
  /\ UNCHANGED <<version, appVars, userVars, answers, diskVars, online, stream, hasty, gone>>

\* The app is killed and started again: documents and tokens are on disk.
Restart ==
  /\ Upset
  /\ tasks' = <<>>
  /\ gone' = gone \cup Unanswered
  /\ listeners' = [q \in Query |-> {}] /\ view' = [q \in Query |-> NoView]
  /\ events' = [g \in Get |-> <<>>]
  /\ online' = UpdateState("Unknown")
  /\ stream' = Closed
  /\ UNCHANGED <<version, appVars, answers, diskVars, hasty>>

\* Somebody changes the data.
Commits ==
  /\ version < MaxCommits
  /\ version' = version + 1
  /\ UNCHANGED <<appVars, tasks, userVars, answers, diskVars, online, stream, upsets,
                 hasty, gone>>

-----------------------------------------------------------------------------
(* Operations of the worker queue *)

IsNext(kind) == tasks # <<>> /\ Head(tasks).kind = kind

\* RemoteStore::Listen for query q, whose target was allocated with its token.
Listen(q) ==
  LET s == [stream EXCEPT !.held[q] = token[q]]
  IN  CASE ~IsStarted(s)     -> Start(s)
        [] s.state = "Open"  -> SendWatch(s, q)
        [] OTHER             -> s

\* EventManager::AddQueryListener.
RunListen ==
  /\ IsNext("listen")
  /\ LET g  == Head(tasks).g
         q  == asked[g]
         v  == IF Active(q) THEN view[q] ELSE [current |-> FALSE, data |-> cache[q]]
     IN  /\ listeners' = [listeners EXCEPT ![q] = @ \cup {g}]
         /\ view' = [view EXCEPT ![q] = v]
         /\ events' = IF GoodEnough(v, online)
                        THEN [events EXCEPT ![g] = Append(@, Event(v))] ELSE events
         /\ IF Active(q) THEN UNCHANGED <<stream, online>>
            ELSE /\ stream' = Listen(q)
                 /\ online' = IF IsStarted(stream) THEN online ELSE StreamStarted(online)
         /\ hasty' = IF listeners[q] \cap hasty # {} \/ (~Active(q) /\ stream.targets[q].pending > 0)
                       THEN hasty \cup {g} ELSE hasty
  /\ tasks' = Tail(tasks)
  /\ UNCHANGED <<version, appVars, answers, diskVars, upsets, gone>>

\* RemoteStore::StopListening; left is whether there are other targets.
StopListening(s, q, left) ==
  IF s.state # "Open" THEN s
  ELSE [SendUnwatch(s, q) EXCEPT !.idle = ~left]

\* EventManager::RemoveQueryListener.
RunUnlisten ==
  /\ IsNext("unlisten")
  /\ LET g    == Head(tasks).g
         q    == asked[g]
         last == listeners[q] = {g}
         left == \E p \in Query \ {q} : Active(p)
     IN  /\ listeners' = [listeners EXCEPT ![q] = @ \ {g}]
         /\ IF last
              THEN /\ view' = [view EXCEPT ![q] = NoView]
                   /\ token' = [token EXCEPT ![q] = stream.held[q]]
                   /\ stream' = StopListening(stream, q, left)
                   /\ online' = IF left \/ stream.state = "Open" THEN online
                                ELSE UpdateState("Unknown")
              ELSE UNCHANGED <<view, token, stream, online>>
  /\ tasks' = Tail(tasks)
  /\ UNCHANGED <<version, appVars, events, answers, cache, lastSnapshot, upsets, hasty, gone>>

\* RemoteStore::HandleCredentialChange: the stream restarts.
RunCredential ==
  /\ IsNext("credential")
  /\ LET s == IF IsStarted(stream) THEN Close(stream, TRUE) ELSE stream
         o == UpdateState("Unknown")
     IN  /\ stream' = IF AnyActive THEN Start(s) ELSE s
         /\ SetOnline(IF AnyActive THEN StreamStarted(o) ELSE o)
  /\ tasks' = Tail(tasks)
  /\ UNCHANGED <<version, appVars, listeners, answers, diskVars, upsets, hasty, gone>>

RunTask == RunListen \/ RunUnlisten \/ RunCredential

-----------------------------------------------------------------------------
(* The watch stream *)

RemoteOnly == UNCHANGED <<version, appVars, tasks, listeners, answers, diskVars, hasty, gone>>

\* Mutant: the stream is not started again.
FailForGood ==
  /\ stream' = Close(stream, FALSE)
  /\ SetOnline(IF AnyActive THEN StreamFailed(online) ELSE UpdateState("Unknown"))

\* OnWatchStreamClose after an error: try again while there is a listener.
Fail ==
  LET s == Close(stream, FALSE)
  IN  /\ stream' = IF AnyActive THEN Start(s) ELSE s
      /\ SetOnline(IF AnyActive THEN StreamStarted(StreamFailed(online))
                   ELSE UpdateState("Unknown"))

\* Credentials arrive and the call opens; it need not reach the backend yet.
TokenArrives ==
  /\ stream.state = "Starting"
  /\ \E order \in SetToSeqs({q \in Query : Active(q)}) : stream' = Open(stream, order)
  /\ UNCHANGED <<version, appVars, tasks, userVars, answers, diskVars, online, upsets,
                 hasty, gone>>

TokenFails ==
  /\ stream.state = "Starting"
  /\ Upset
  /\ Fail
  /\ RemoteOnly

BackoffElapses ==
  /\ stream.state = "Backoff"
  /\ stream' = [stream EXCEPT !.state = "Starting"]
  /\ UNCHANGED <<version, appVars, tasks, userVars, answers, diskVars, online, upsets,
                 hasty, gone>>

\* The stream was not needed for a minute.
IdleTimerFires ==
  /\ stream.idle
  /\ stream' = Close(stream, TRUE)
  /\ SetOnline(UpdateState("Unknown"))
  /\ UNCHANGED upsets
  /\ RemoteOnly

\* Ten seconds without an answer.
OnlineTimerFires ==
  /\ online.timer
  /\ SetOnline([online EXCEPT !.state = "Offline", !.timer = FALSE])
  /\ UNCHANGED <<stream, upsets>>
  /\ RemoteOnly

\* The call is over: a read finds no further response, or a write fails, and
\* then responses that have not been read are dropped.
StreamFails ==
  /\ stream.broken /\ (stream.in = <<>> \/ stream.out # <<>>)
  /\ Fail
  /\ UNCHANGED upsets
  /\ RemoteOnly

\* IsActiveTarget: listened to, and no request is waiting to be acknowledged.
IsActiveTarget(q) == Active(q) /\ stream.targets[q].pending = 0

\* Mutant: responses are not counted.
AfterAckUncounted(t, removed) == IF removed THEN NoTarget ELSE [t EXCEPT !.dirty = FALSE]

\* A target whose request has been acknowledged.
AfterAck(t, removed) ==
  LET u == [t EXCEPT !.pending = @ - 1]
  IN  IF u.pending # 0 THEN u
      ELSE IF removed THEN NoTarget
      ELSE [u EXCEPT !.dirty = FALSE]

\* Any response means that the client is online.
Read(kind) ==
  /\ stream.in # <<>> /\ Head(stream.in).kind = kind
  /\ UNCHANGED <<version, appVars, tasks, listeners, answers, upsets, hasty, gone>>

ReadAck ==
  /\ Read("ack")
  /\ LET m == Head(stream.in)
     IN  stream' = [stream EXCEPT !.in = Tail(@), !.targets[m.q] = AfterAck(@, m.removed)]
  /\ SetOnline(UpdateState("Online"))
  /\ UNCHANGED diskVars

\* Documents wait in the aggregator for the next global snapshot.
ReadDocs ==
  /\ Read("docs")
  /\ LET m == Head(stream.in)
     IN  stream' = IF IsActiveTarget(m.q)
                     THEN [stream EXCEPT !.in = Tail(@), !.docs[m.q] = @ \cup m.changes,
                                         !.targets[m.q].dirty = TRUE]
                     ELSE [stream EXCEPT !.in = Tail(@)]
  /\ SetOnline(UpdateState("Online"))
  /\ UNCHANGED diskVars

ReadCurrent ==
  /\ Read("current")
  /\ LET m == Head(stream.in)
     IN  stream' = IF IsActiveTarget(m.q)
                     THEN [stream EXCEPT !.in = Tail(@),
                             !.targets[m.q] = [@ EXCEPT !.current = TRUE, !.dirty = TRUE,
                                                        !.token = m.token]]
                     ELSE [stream EXCEPT !.in = Tail(@)]
  /\ SetOnline(UpdateState("Online"))
  /\ UNCHANGED diskVars

\* A snapshot's token is for every active target.
WithToken(r) ==
  [q \in Query |-> IF IsActiveTarget(q) THEN [stream.targets[q] EXCEPT !.token = r, !.dirty = TRUE]
                                       ELSE stream.targets[q]]

\* Those of the targets ts that are part of the remote event.
ToRaise(ts) == {q \in Query : IsActiveTarget(q) /\ ts[q].dirty}

\* ShouldPersistTargetData: a token that comes without documents is stored only
\* if there was none, or if the last one is old.
MustPersist(q) == stream.docs[q] # {} \/ token[q] = 0

\* LocalStore::ApplyRemoteEvent, with the targets in new, at version r.
ApplyRemoteEvent(ts, new, r) ==
  /\ cache' = [q \in Query |-> cache[q] \cup stream.docs[q]]
  /\ \E kept \in SUBSET new :
       /\ \A q \in new : MustPersist(q) => q \in kept
       /\ token' = [q \in Query |-> IF q \in kept THEN ts[q].token ELSE token[q]]
  /\ lastSnapshot' = r

\* The new views: a target's change makes its view current, or not.
NewViews(ts, new) ==
  [q \in Query |->
     [current |-> IF q \in new THEN ts[q].current ELSE view[q].current,
      data    |-> IF Active(q) THEN view[q].data \cup stream.docs[q] ELSE {}]]

\* A global snapshot.  If it is not older than the last, the documents received
\* since are stored, tokens go to the targets, and the views follow.
ReadSnapshot ==
  /\ Read("snapshot")
  /\ LET r   == Head(stream.in).at
         ts  == WithToken(r)
         new == ToRaise(ts)
     IN  IF r < lastSnapshot
           THEN /\ stream' = [stream EXCEPT !.in = Tail(@), !.targets = ts]
                /\ SetOnline(UpdateState("Online"))
                /\ UNCHANGED diskVars
           ELSE /\ stream' = [stream EXCEPT !.in = Tail(@),
                     !.targets = [q \in Query |-> IF q \in new THEN [ts[q] EXCEPT !.dirty = FALSE]
                                                               ELSE ts[q]],
                     !.docs = [q \in Query |-> {}],
                     !.held = [q \in Query |-> IF q \in new THEN ts[q].token ELSE @[q]]]
                /\ ApplyRemoteEvent(ts, new, r)
                /\ Publish(NewViews(ts, new), UpdateState("Online"))

ReadResponse == ReadAck \/ ReadDocs \/ ReadCurrent \/ ReadSnapshot

-----------------------------------------------------------------------------
(* gRPC and the backend *)

BackendOnly == UNCHANGED <<version, appVars, tasks, userVars, answers, diskVars, online,
                           upsets, hasty, gone>>

Answers(m) == [stream EXCEPT !.in = Append(@, m), !.due = TRUE]

Connected == stream.state = "Open" /\ ~stream.broken /\ Len(stream.in) < Window

\* The backend takes the next request and acknowledges it.
Serve ==
  /\ Connected /\ stream.out # <<>>
  /\ LET m       == Head(stream.out)
         removed == m.kind = "unwatch"
         target  == IF removed THEN Unserved
                    ELSE [phase |-> "Added", sent |-> m.token, since |-> version]
     IN  stream' = [Answers([kind |-> "ack", q |-> m.q, removed |-> removed]) EXCEPT
                      !.out = Tail(@), !.served[m.q] = target]
  /\ BackendOnly

\* It sends changes of a target's documents, up to some version ...
SendDocs(q) ==
  /\ Connected /\ stream.served[q].phase # "None"
  /\ \E v \in (stream.served[q].sent + 1)..version :
       stream' = [Answers([kind |-> "docs", q |-> q, changes |-> (stream.served[q].sent + 1)..v])
                    EXCEPT !.served[q].sent = v]
  /\ BackendOnly

\* ... says that they are up to the time at which the target was added ...
SendCurrent(q) ==
  /\ Connected /\ stream.served[q].phase = "Added"
  /\ stream.served[q].sent >= stream.served[q].since
  /\ stream' = [Answers([kind |-> "current", q |-> q, token |-> stream.served[q].sent])
                  EXCEPT !.served[q].phase = "Current"]
  /\ BackendOnly

\* ... and that the targets are consistent with one another at some version.
SendSnapshot ==
  LET sent == {stream.served[q].sent : q \in {p \in Query : stream.served[p].phase # "None"}}
  IN  /\ Connected /\ stream.due
      /\ \E r \in sent : /\ sent = {r} /\ r >= stream.at
                         /\ stream' = [Answers([kind |-> "snapshot", at |-> r])
                                         EXCEPT !.due = FALSE, !.at = r]
      /\ BackendOnly

Respond == Serve \/ SendSnapshot \/ \E q \in Query : SendDocs(q) \/ SendCurrent(q)

CallBreaks ==
  /\ stream.state = "Open" /\ ~stream.broken
  /\ Upset
  /\ stream' = [stream EXCEPT !.broken = TRUE]
  /\ UNCHANGED <<version, appVars, tasks, userVars, answers, diskVars, online, hasty, gone>>

-----------------------------------------------------------------------------
Next ==
  \/ \E q \in Query : Ask(q)
  \/ \E g \in Get : Deliver(g)
  \/ CredentialChanges \/ Restart \/ Commits
  \/ RunTask
  \/ TokenArrives \/ TokenFails \/ BackoffElapses \/ IdleTimerFires \/ OnlineTimerFires
  \/ StreamFails \/ ReadResponse
  \/ Respond \/ CallBreaks

Spec == Init /\ [][Next]_vars

-----------------------------------------------------------------------------
(* Properties *)

Snapshot == [synced : BOOLEAN, data : SUBSET Commit]
Version  == 0..MaxCommits

Task == [kind : {"listen", "unlisten"}, g : Get] \cup [kind : {"credential"}]

TargetState == [pending : Nat, current : BOOLEAN, dirty : BOOLEAN, token : Version]

Request == [kind : {"watch"}, q : Query, token : Version] \cup [kind : {"unwatch"}, q : Query]

Response ==
  [kind : {"ack"}, q : Query, removed : BOOLEAN]
    \cup [kind : {"docs"}, q : Query, changes : SUBSET Commit]
    \cup [kind : {"current"}, q : Query, token : Version]
    \cup [kind : {"snapshot"}, at : Version]

Stream ==
  [state : {"Initial", "Starting", "Backoff", "Open", "Error"}, idle : BOOLEAN,
   targets : [Query -> TargetState], docs : [Query -> SUBSET Commit],
   held : [Query -> Version], out : Seq(Request), in : Seq(Response), broken : BOOLEAN,
   served : [Query -> [phase : {"None", "Added", "Current"}, sent : Version, since : Version]],
   due : BOOLEAN, at : Version]

\* The shape of the state.  No target ever has fewer than no request pending:
\* a response that nobody waits for would make it so.
TypeOK ==
  /\ version \in Version
  /\ asked \in Seq(Query) /\ floor \in Seq(Version) /\ Len(asked) = Len(floor)
  /\ tasks \in Seq(Task)
  /\ listeners \in [Query -> SUBSET Get]
  /\ view \in [Query -> [current : BOOLEAN, data : SUBSET Commit]]
  /\ events \in [Get -> Seq(Snapshot)] /\ answers \in [Get -> Seq(Snapshot)]
  /\ cache \in [Query -> SUBSET Commit]
  /\ token \in [Query -> Version] /\ lastSnapshot \in Version
  /\ online \in [state : {"Unknown", "Online", "Offline"}, failed : BOOLEAN, timer : BOOLEAN]
  /\ stream \in Stream
  /\ upsets \in 0..MaxUpsets
  /\ hasty \subseteq Get /\ gone \subseteq Get

\* "Synchronously mutes the listener and raises no further events"
\* (AsyncEventListener::Mute): no callback runs twice, although a listener that
\* has raised its first event goes on raising events until the worker queue gets
\* to its removal, some of them posted before it was muted (Query::GetDocuments).
AnsweredOnce == \A g \in Get : Len(answers[g]) <= 1

Prefix == {1..n : n \in Version}

\* What a callback is given is the data as it was at some time, never a mix of
\* older and newer changes, whatever was cached, missed, sent again or cut off
\* by a restart.  And what it is given as synchronised is not older than the
\* call, unless the listen followed an unwatch of the same target that was
\* still unacknowledged (see FreshAnswer).  It rests on the resume tokens:
\* one that is ahead of the documents makes the backend leave some out
\* (remote_event.cc, local_store.cc).
AnswersAreRight ==
  \A g \in Get : \A i \in DOMAIN answers[g] :
    LET e == answers[g][i]
    IN  /\ e.data \in Prefix
        /\ e.synced /\ g \notin hasty => 1..floor[g] \subseteq e.data

\* snapshot_metadata.h: a snapshot that is not from the cache is "guaranteed
\* up-to-date server data", and remote_event.h: current "implies that the Watch
\* backend has sent us all changes up to the point at which the target was
\* added".  No get is given, as synchronised, data from before it was asked.
\* It is not so: a target that is watched again before the backend has
\* acknowledged that it is no longer watched keeps its current flag, and the
\* next global snapshot makes the new view current, however old it is.
FreshAnswer ==
  \A g \in Get : \A i \in DOMAIN answers[g] :
    answers[g][i].synced => 1..floor[g] \subseteq answers[g][i].data

\* What the code asserts: the timer runs only in the Unknown state, failures are
\* forgotten once Online (OnlineStateTracker), the stream idles only without
\* targets (OnWatchStreamClose).  And what it relies on: a target's pending
\* requests are exactly those whose acknowledgement has not been read, across
\* failed calls, changes of credentials and repeated listens (TargetState).
AssertionsHold ==
  /\ online.timer => online.state = "Unknown" /\ IsStarted(stream)
  /\ online.state = "Online" => ~online.failed
  /\ stream.idle => stream.state = "Open" /\ ~AnyActive
  /\ \A q \in Query :
       stream.targets[q].pending =
         Cardinality({i \in DOMAIN stream.out : stream.out[i].q = q})
           + Cardinality({i \in DOMAIN stream.in : stream.in[i].kind = "ack" /\ stream.in[i].q = q})

\* What must happen next: the worker queue and the main queue run what they were
\* given, a connection attempt ends, a response is read, the backend responds.
\* The timers owe nothing.
MustGoOn ==
  \/ RunTask
  \/ \E g \in Get : Deliver(g)
  \/ TokenArrives \/ BackoffElapses \/ StreamFails
  \/ ReadResponse
  \/ Respond

\* No get is left waiting for nothing, neither by failures, restarted streams and
\* changes of credentials, nor by another get of its query that stops listening:
\* until all have been answered, the client or the backend has something to do
\* (RemoteStore::OnWatchStreamClose, OnWatchStreamOpen, StopListening).
NoneForgotten == Unanswered # {} => ENABLED MustGoOn
=============================================================================
