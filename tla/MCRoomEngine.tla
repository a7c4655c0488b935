---------------------------- MODULE MCRoomEngine ----------------------------
(* Small instances of RoomEngine: values for the constants of the .cfg files. *)
EXTENDS RoomEngine, TLC
CONSTANTS p1, p2, p3, c1, c2, c3, k1
TwoPlayers       == {p1, p2}
ThreePlayers     == {p1, p2, p3}
TwoConnections   == {c1, c2}
ThreeConnections == {c1, c2, c3}
OneKey           == {k1}
\* No definition chooses among players or connections.
Symmetry         == Permutations(Players) \cup Permutations(Connections)
=============================================================================
