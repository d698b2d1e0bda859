------------------------- MODULE MCPatientCreating -------------------------
(* An instance of PatientCreating for TLC: three users, two of whom share a phone. *)
EXTENDS PatientCreating, TLC

CONSTANTS d1, d2, u1, u2, u3

Phones == [u \in User |-> IF u = u3 THEN d2 ELSE d1]

\* Bound: histories that are not patient have two clicks, two loads and the
\* first two users.
Small == patient \/ /\ clicks <= 2
                    /\ appeared <= 2
                    /\ \A d \in Device : auth[d] # u3
=============================================================================
