------------------------------ MODULE MatchLedger ------------------------------
(***************************************************************************)
(* What RelayPlay's rooms promise of a match, without sockets, sessions,   *)
(* sweeps or a storage (260717WebGameP2PFramework/docs/architecture.md,    *)
(* "Room lifecycle"): it begins once, with the players then in the room;   *)
(* each of them is placed once, after those placed before; and it is over  *)
(* with the last of them.                                                  *)
(***************************************************************************)
EXTENDS Integers, FiniteSets

CONSTANT Players

VARIABLES phase,      \* "open", "on" or "over"
          entrants,   \* the players who began
          results     \* pairs of a player and its placement

vars == <<phase, entrants, results>>

Placed == {r[1] : r \in results}

Init == phase = "open" /\ entrants = {} /\ results = {}

Begin ==
  /\ phase = "open" /\ phase' = "on"
  /\ entrants' \in SUBSET Players /\ entrants' # {}
  /\ UNCHANGED results

Place(p) ==
  /\ phase = "on"
  /\ p \in entrants \ Placed
  /\ results' = results \cup {<<p, Cardinality(Placed) + 1>>}
  /\ phase' = IF entrants \subseteq Placed \cup {p} THEN "over" ELSE "on"
  /\ UNCHANGED entrants

Next == Begin \/ \E p \in Players : Place(p)

Spec == Init /\ [][Next]_vars
=============================================================================
