----------------------------- MODULE WriteQueue -----------------------------
(* The Firestore client's pending writes of one document field: a sequence *)
(* of records with the written value and whether the closure waiting for   *)
(* the acknowledgement still exists.                                       *)
EXTENDS Integers, Sequences

\* A document field as the phone sees it: its last pending write, else the server's.
Overlay(queue, value) == IF queue = <<>> THEN value ELSE queue[Len(queue)].val

\* Pending writes survive a restart of the app; the closures do not.
Detached(queue) == [i \in DOMAIN queue |-> [queue[i] EXCEPT !.attached = FALSE]]

\* The pending writes whose closure still exists, by their place, of queues
\* kept per phone, account and document.
WriteAt(d, a, p, i) == <<d, a, p, i>>

Awaited(queues, phones, accounts, docs) ==
  UNION {{WriteAt(d, a, p, i) : i \in {j \in DOMAIN queues[d][a][p] : queues[d][a][p][j].attached}} :
           d \in phones, a \in accounts, p \in docs}
=============================================================================
