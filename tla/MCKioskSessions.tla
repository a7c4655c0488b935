---------------------------- MODULE MCKioskSessions ----------------------------
(* A small instance of KioskSessions: values for the constants of the .cfg file. *)
EXTENDS KioskSessions, TLC
CONSTANTS c1, c2, r1, nothing, rice, p1, p2
TwoCalls    == {c1, c2}
OneRequest  == {r1}
TwoCarts    == {nothing, rice}
TwoPrices   == {p1, p2}
\* No definition chooses among calls or prices.
Symmetry    == Permutations(Calls) \cup Permutations(Prices)
=============================================================================
