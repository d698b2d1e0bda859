-------------------------- MODULE MCPlaylistsFound --------------------------
(* Instances of PlaylistsFound for TLC. *)
EXTENDS PlaylistsFound, TLC

CONSTANTS p1, p2, loc1, loc2

OneSpot  == [p \in Playlist |-> loc1]
TwoSpots == [p \in Playlist |-> IF p = p1 THEN loc1 ELSE loc2]

Interchangeable == Permutations(Device) \cup Permutations(User)
=============================================================================
