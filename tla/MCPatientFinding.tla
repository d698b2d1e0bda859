-------------------------- MODULE MCPatientFinding --------------------------
(* An instance of PatientFinding for TLC: three users, two of whom share a phone. *)
EXTENDS PatientFinding

CONSTANTS d1, d2, u1, u2, u3, p1, p2, loc1, loc2

TwoSpots == [p \in Playlist |-> IF p = p1 THEN loc1 ELSE loc2]
Phones   == [u \in User |-> IF u = u3 THEN d2 ELSE d1]

\* Bound: histories that are not patient have taps on the second spot by the
\* first two users.  Their phones and users are interchangeable:
\* the first to sign in is the first user, on the first phone.
Small == patient \/ /\ \A d \in Device : auth[d] # u3
                    /\ \A c \in checks : c.loc = loc2
                    /\ appeared = 1 => auth[d1] \in {u1, Nobody} /\ auth[d2] = Nobody
=============================================================================
