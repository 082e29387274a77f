--------------------------- MODULE ChainBootstrap ---------------------------
(***************************************************************************)
(* What bootstrapping promises a chain and its subnet (spec sections 4.3   *)
(* and 6), with nothing of how it fetches: the chain starts, accepts a     *)
(* growing prefix of the network's chain while it bootstraps, and hands    *)
(* over to consensus only once the other chains of its subnet are          *)
(* bootstrapped; until then it waits for its timer, which either finishes  *)
(* or restarts bootstrapping.  It may stop on an error or a halt, and a    *)
(* crash of the node restarts it with its accepted blocks kept.            *)
(***************************************************************************)
EXTENDS Naturals

CONSTANTS InitialTip, MaxHeight

VARIABLES
    tip,         \* height of the network's last accepted block
    accepted,    \* height of the chain's last accepted block
    status,      \* stopped, bootstrapping, awaiting, normal, failed, halted
    othersDone   \* every other chain of the subnet has bootstrapped

avars == <<tip, accepted, status, othersDone>>

Stops == {"failed", "halted"}

Init ==
    /\ tip = InitialTip
    /\ accepted = 0
    /\ status = "stopped"
    /\ othersDone = FALSE

Start ==
    /\ status = "stopped"
    /\ status' = "bootstrapping"
    /\ UNCHANGED <<tip, accepted, othersDone>>

\* A bootstrapping step: blocks of the network's chain are accepted, and
\* the chain keeps bootstrapping, stops, or reports itself bootstrapped,
\* entering consensus only if the rest of the subnet is done.
Bootstrap ==
    /\ status = "bootstrapping"
    /\ accepted' \in accepted..tip
    /\ status' \in {"bootstrapping", IF othersDone THEN "normal" ELSE "awaiting"} \cup Stops
    /\ UNCHANGED <<tip, othersDone>>

\* While the timer runs: it fires and finishes or restarts, according to the
\* subnet; or a late answer stops the chain.
Await ==
    /\ status = "awaiting"
    /\ status' \in {IF othersDone THEN "normal" ELSE "bootstrapping"} \cup Stops
    /\ UNCHANGED <<tip, accepted, othersDone>>

OthersDone ==
    /\ ~othersDone
    /\ othersDone' = TRUE
    /\ UNCHANGED <<tip, accepted, status>>

NewBlock ==
    /\ tip < MaxHeight
    /\ tip' = tip + 1
    /\ UNCHANGED <<accepted, status, othersDone>>

\* The node restarts: accepted blocks are kept, everything else starts over.
Crash ==
    /\ status' = "stopped"
    /\ othersDone' = FALSE
    /\ UNCHANGED <<tip, accepted>>

Next == Start \/ Bootstrap \/ Await \/ OthersDone \/ NewBlock \/ Crash

Spec == Init /\ [][Next]_avars

=============================================================================
