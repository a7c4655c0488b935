------------------------------ MODULE FileTenancy ------------------------------
(***************************************************************************)
(* What hugekeeperd promises of its memory files, without connections,     *)
(* leases or a daemon: the pages of a file are populated, given to at most *)
(* one process, and wiped before anybody can be given them again           *)
(* (261027hugePage/src/daemon.c, "An old FD must never refer to the next   *)
(* tenant's pages").                                                       *)
(***************************************************************************)
CONSTANTS Files, Processes

VARIABLES stage,    \* file -> "empty", "clean", "granted" to one process, "used"
          holders   \* file -> processes that reach its pages by a descriptor or mapping

vars == <<stage, holders>>

Init == /\ stage = [n \in Files |-> "empty"]
        /\ holders = [n \in Files |-> {}]

Fewer(n) == holders'[n] \subseteq holders[n]

\* New pages, in a file nobody has.
Populate(n) == stage[n] = "empty" /\ stage'[n] = "clean" /\ holders'[n] = {}

Grant(n) == stage[n] = "clean" /\ stage'[n] = "granted" /\ holders'[n] = {}

\* The process receives the descriptor, or never will.
Deliver(n) == /\ stage[n] = "granted" /\ stage'[n] = "used"
              /\ holders[n] = {}
              /\ holders'[n] = {} \/ \E p \in Processes : holders'[n] = {p}

Wipe(n) == stage'[n] = "empty" /\ Fewer(n)

\* Processes give up what they hold at any time.
Keep(n) == stage'[n] = stage[n] /\ Fewer(n)

Step(n) == Populate(n) \/ Grant(n) \/ Deliver(n) \/ Wipe(n) \/ Keep(n)

\* One step of the daemon may concern several files.
Spec == Init /\ [][\A n \in Files : Step(n)]_vars
=============================================================================
