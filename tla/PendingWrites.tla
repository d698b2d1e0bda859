---------------------------- MODULE PendingWrites ----------------------------
(***************************************************************************)
(* What the Firestore client promises about an account's writes: they are  *)
(* pending until they are acknowledged or rejected, oldest first; the      *)
(* backend applies them in that order, in the name of their account and    *)
(* never one that is no longer pending; and it has applied a write when    *)
(* that is acknowledged.  It may apply pending writes again, from any that *)
(* it has already reached.                                                 *)
(***************************************************************************)
EXTENDS Integers, Sequences

CONSTANTS User, Write

VARIABLES
  pending,  \* writes of each account that have no outcome yet, in order
  applied,  \* what the backend has applied, and for whom
  results   \* outcomes

vars == <<pending, applied, results>>

Init ==
  /\ pending = [u \in User |-> <<>>]
  /\ applied = <<>>
  /\ results = {}

HasBeenApplied(w) == \E i \in DOMAIN applied : applied[i].w = w

IsPending(w) == \E u \in User : \E i \in DOMAIN pending[u] : pending[u][i] = w

HasResult(w) == \E r \in results : r.w = w

Put(u, w) ==
  /\ ~IsPending(w) /\ ~HasResult(w)
  /\ pending' = [pending EXCEPT ![u] = Append(@, w)]
  /\ UNCHANGED <<applied, results>>

Apply(u, i) ==
  /\ \A j \in 1..(i - 1) : HasBeenApplied(pending[u][j])
  /\ applied' = Append(applied, [w |-> pending[u][i], as |-> u])
  /\ UNCHANGED <<pending, results>>

Resolve(u, ok) ==
  /\ pending[u] # <<>>
  /\ ok => HasBeenApplied(Head(pending[u]))
  /\ pending' = [pending EXCEPT ![u] = Tail(@)]
  /\ results' = results \cup {[w |-> Head(pending[u]), ok |-> ok]}
  /\ UNCHANGED applied

Next ==
  \E u \in User :
    \/ \E w \in Write : Put(u, w)
    \/ \E i \in DOMAIN pending[u] : Apply(u, i)
    \/ \E ok \in BOOLEAN : Resolve(u, ok)

Spec == Init /\ [][Next]_vars
=============================================================================
