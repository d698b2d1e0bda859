---------------------------- MODULE FindRegister ----------------------------
(***************************************************************************)
(* What finding playlists promises: a register of who has found what, and  *)
(* how many of a user's finds are counted.  No find is forgotten, and each *)
(* is counted once, before the user's next one.                            *)
(***************************************************************************)
EXTENDS Integers, FiniteSets

CONSTANTS User, Playlist

VARIABLES
  found,   \* the playlists each user has found
  counted  \* how many of them are counted

vars == <<found, counted>>

RegisterInit ==
  /\ found = [u \in User |-> {}]
  /\ counted = [u \in User |-> 0]

Find(u, p) ==
  /\ p \notin found[u]
  /\ counted[u] = Cardinality(found[u])
  /\ found' = [found EXCEPT ![u] = @ \cup {p}]
  /\ UNCHANGED counted

Count(u) ==
  /\ counted[u] < Cardinality(found[u])
  /\ counted' = [counted EXCEPT ![u] = @ + 1]
  /\ UNCHANGED found

RegisterNext == \E u \in User : Count(u) \/ \E p \in Playlist : Find(u, p)

RegisterSpec == RegisterInit /\ [][RegisterNext]_vars
=============================================================================
