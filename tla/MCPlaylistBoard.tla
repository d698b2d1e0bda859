-------------------------- MODULE MCPlaylistBoard --------------------------
(* Instances of PlaylistBoard for TLC: the master playlist is out of every *)
(* radius, the user playlist within the initial one only.                  *)
EXTENDS PlaylistBoard, TLC

CONSTANTS m1, p1

Distances == [place \in Place |-> [p \in Playlist |-> IF p = m1 THEN 40 ELSE 20]]

Interchangeable == Permutations(Device) \cup Permutations(User)

\* The radius matters to the phone it is edited on: edits are explored with no
\* other phone in use.
EditsAlone ==
  (\E u \in User : mapRadius[u] # NotSet \/ \E d \in Device : radii[d][u][u] # <<>>)
  \/ edits # {}
    => \A d1, d2 \in Device : view[d1] # 0 /\ view[d2] # 0 => d1 = d2
=============================================================================
