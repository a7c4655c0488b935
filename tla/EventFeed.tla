------------------------------- MODULE EventFeed -------------------------------
(***************************************************************************)
(* What RelayPlay promises a game about canonical events, without sockets: *)
(* the room's log grows, and within a session the game is given its events *)
(* from the first on, each once, in order (docs/protocol.md:120-121).      *)
(***************************************************************************)
EXTENDS Integers, Sequences

VARIABLES log,    \* number of events committed
          seen    \* sequence numbers given to the game, in order

Init == log = 0 /\ seen = <<>>

Commit == log' = log + 1 /\ UNCHANGED seen

\* One or more of the next events.
Deliver ==
  \E n \in Len(seen) + 1 .. log :
    /\ seen' = [s \in 1 .. n |-> s]
    /\ UNCHANGED log

\* A fresh session, or one the game makes the client forget, begins at the start
\* of the log again.
StartOver == seen' = <<>> /\ UNCHANGED log

Spec == Init /\ [][Commit \/ Deliver \/ StartOver]_<<log, seen>>
=============================================================================
