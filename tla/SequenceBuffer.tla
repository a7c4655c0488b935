---------------------------- MODULE SequenceBuffer ----------------------------
(***************************************************************************)
(* The client's CanonicalSequenceBuffer (packages/client/src/              *)
(* sequence-buffer.ts of 260717WebGameP2PFramework): it makes an           *)
(* out-of-order transport look like one contiguous log.  An event is its   *)
(* sequence number; a buffer is the last sequence given to the game and    *)
(* the numbers that wait behind a gap.                                     *)
(*                                                                         *)
(* A definition placed right before the one it varies (and used by no      *)
(* other) is a plausible mistake for the mutation runs.                    *)
(***************************************************************************)
EXTENDS Integers, FiniteSets

CONSTANT MaxBufferedEvents   \* maxBufferedEvents

ASSUME BufferAssumption == MaxBufferedEvents \in Nat \ {0}

Buffers == [last : Nat, waiting : SUBSET (Nat \ {0})]

EmptyAt(n) == [last |-> n, waiting |-> {}]

Highest(S) == CHOOSE n \in S : \A m \in S : m <= n

IsDuplicate(buf, n) == n <= buf.last \/ n \in buf.waiting

IsAnyLater(buf, n) == n > buf.last
IsNext(buf, n) == n = buf.last + 1

\* A full buffer keeps the lower sequences.
KeptAll(S, n) == S \cup {n}
Kept(S, n) ==
  IF Cardinality(S) < MaxBufferedEvents THEN S \cup {n}
  ELSE IF n >= Highest(S) THEN S
  ELSE (S \ {Highest(S)}) \cup {n}

\* Where the run that starts after n ends: n, n + 1, ... as far as S has them.
RunEnd(S, n) == Highest({m \in S \cup {n} : m >= n /\ (n + 1) .. m \subseteq S})

\* ingest: what the buffer becomes.
Ingest(buf, n) ==
  IF IsDuplicate(buf, n) THEN buf
  ELSE IF IsNext(buf, n)
  THEN LET end == RunEnd(buf.waiting, n) IN
         [last |-> end, waiting |-> {m \in buf.waiting : m > end}]
  ELSE [last |-> buf.last, waiting |-> Kept(buf.waiting, n)]

\* The events ingest returns as accepted, in order.
Accepted(buf, n) ==
  IF ~IsDuplicate(buf, n) /\ IsNext(buf, n)
  THEN [i \in 1 .. RunEnd(buf.waiting, n) - n + 1 |-> n + i - 1] ELSE <<>>
=============================================================================
