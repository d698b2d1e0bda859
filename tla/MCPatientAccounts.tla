-------------------------- MODULE MCPatientAccounts --------------------------
(* Instances of PatientAccounts for TLC. *)
EXTENDS PatientAccounts

CONSTANTS d1, d2, e1, e2, e3, w1, w2, n1, n2

\* Bound: histories that are not patient have two emails, one password and one
\* username.
Few == {e1, e2, w1, n1, Empty, Absent}

Small ==
  \/ patient
  \/ /\ \A r \in calls \cup queries : \A f \in Field : r.form[f] \in Few
     /\ \A d \in Device :
          /\ info[d].username \in Few
          /\ \A u \in Account, f \in Field :
               \A i \in DOMAIN writes[d][u] : writes[d][u][i].form[f] \in Few

Interchangeable == Permutations({d1, d2}) \cup Permutations({e1, e2})
=============================================================================
