----------------------------- MODULE MCRoomAlarms -----------------------------
(* Small instances of RoomAlarms. *)
EXTENDS RoomAlarms

CONSTANTS a, b, t1, t2

TwoPlayers == {a, b}
TwoTasks   == {t1, t2}
=============================================================================
