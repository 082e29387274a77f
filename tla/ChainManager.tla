---------------------------- MODULE ChainManager ----------------------------
(***************************************************************************)
(* The chain manager (chains/manager.go) and the subnets it groups chains  *)
(* into, composed with the bootstrapping of each chain it creates.         *)
(*                                                                         *)
(* The node creates the P-chain first.  Every chain the P-chain's VM asks  *)
(* for (CreateChain) is queued in blockedChains until some Snowman chain's *)
(* bootstrapper reports Bootstrapped, which runs unblockChains: the queue  *)
(* is emptied and ForceCreateChain is called for each queued chain, one    *)
(* after the other, on the calling chain's thread.  ForceCreateChain skips *)
(* chains of subnets the node does not validate and chains that already   *)
(* exist, adds the chain to its subnet, builds it and starts its handler.  *)
(* A build error removes the chain from the subnet again and, for a        *)
(* critical chain, shuts the node down.                                    *)
(*                                                                         *)
(* Each created chain bootstraps on its own thread.  Its bootstrapper is   *)
(* abstracted to the tail of checkFinish (bootstrapper.go): run the        *)
(* Bootstrapped callback (Snowman chains only: unblockChains), tell the    *)
(* subnet the chain is bootstrapped, then start consensus if the whole     *)
(* subnet is bootstrapped, or else wait for the timer, whose Timeout       *)
(* restarts bootstrapping or starts consensus.  The subnet (newSubnet,     *)
(* addChain, removeChain, Bootstrapped, IsBootstrapped) is not among the   *)
(* repository's sources: it is the set of its chains still bootstrapping.  *)
(***************************************************************************)
EXTENDS Naturals, Sequences, FiniteSets, SequencesExt

CONSTANTS
    Chains,            \* chain IDs
    PChain,            \* constants.PlatformChainID
    Subnets,           \* subnet IDs
    Primary,           \* constants.PrimaryNetworkID
    SubnetOf,          \* ChainParameters.SubnetID of each chain
    Snowman,           \* chains whose VM is a block.ChainVM (the others are DAG VMs)
    Critical,          \* CriticalChains: a build error shuts the node down
    Whitelisted,       \* WhitelistedSubnets
    StakingEnabled,
    MaxRequests,       \* bound: CreateChain calls of the P-chain's VM
    MaxBuildErrors,    \* bound: buildChain calls that return an error
    MaxChainFailures   \* bound: chains whose handler stops with an error

ASSUME PChain \in Chains /\ PChain \in Snowman /\ SubnetOf[PChain] = Primary
ASSUME SubnetOf \in [Chains -> Subnets] /\ Primary \in Subnets

VARIABLES
    unblocked,      \* manager.unblocked
    blockedChains,  \* manager.blockedChains
    todo,           \* per chain thread: the rest of the loop of unblockChains
    subnetBs,       \* per subnet: its chains still bootstrapping
    status,         \* per chain: handler and bootstrapper state
    failedHealth,   \* chains whose build failed (failing health check registered)
    shutdown,       \* ShutdownNodeFunc was called
    builds,         \* history: successful builds of each chain
    requests, buildErrors, failures  \* bound counters

vars == <<unblocked, blockedChains, todo, subnetBs, status, failedHealth,
          shutdown, builds, requests, buildErrors, failures>>

\* "none": not created; "bootstrapping"; "unblocking": checkFinish is past
\* ExecuteAll and runs the Bootstrapped callback; "awaiting": the timer of
\* checkFinish is set; "normal": consensus runs (snow.NormalOp); "stopped":
\* the handler stopped with an error.
Status == {"none", "bootstrapping", "unblocking", "awaiting", "normal", "stopped"}

-----------------------------------------------------------------------------
(* ForceCreateChain                                                        *)

\* The early returns of ForceCreateChain: a chain of a subnet the node does
\* not validate, and a chain whose ID is already an alias (the alias is
\* registered when the chain is built).
Skipped(c) ==
    \/ StakingEnabled /\ SubnetOf[c] # Primary /\ SubnetOf[c] \notin Whitelisted
    \/ status[c] # "none"

\* Whether buildChain may return an error in this step.
BuildOutcomes == IF buildErrors < MaxBuildErrors THEN BOOLEAN ELSE {FALSE}

\* Faulty ForceCreateChain: a build error leaves the chain in its subnet
\* (no removeChain).
Faulty_ForceCreateChain(c, err) ==
    IF Skipped(c)
    THEN UNCHANGED <<subnetBs, status, failedHealth, shutdown, builds, buildErrors>>
    ELSE /\ subnetBs' = [subnetBs EXCEPT ![SubnetOf[c]] = @ \cup {c}]
         /\ IF err
            THEN /\ buildErrors' = buildErrors + 1
                 /\ UNCHANGED <<status, builds>>
                 /\ IF c \in Critical
                    THEN shutdown' = TRUE /\ UNCHANGED failedHealth
                    ELSE failedHealth' = failedHealth \cup {c} /\ UNCHANGED shutdown
            ELSE /\ status' = [status EXCEPT ![c] = "bootstrapping"]
                 /\ builds' = [builds EXCEPT ![c] = @ + 1]
                 /\ UNCHANGED <<failedHealth, shutdown, buildErrors>>

\* ForceCreateChain(c) where buildChain returns an error iff err: addChain,
\* then either removeChain and shutdown or a failing health check, or the
\* chain is registered, aliased and its handler started.
ForceCreateChain(c, err) ==
    IF Skipped(c)
    THEN UNCHANGED <<subnetBs, status, failedHealth, shutdown, builds, buildErrors>>
    ELSE IF err
    THEN /\ buildErrors' = buildErrors + 1
         /\ UNCHANGED <<subnetBs, status, builds>>
         /\ IF c \in Critical
            THEN shutdown' = TRUE /\ UNCHANGED failedHealth
            ELSE failedHealth' = failedHealth \cup {c} /\ UNCHANGED shutdown
    ELSE /\ subnetBs' = [subnetBs EXCEPT ![SubnetOf[c]] = @ \cup {c}]
         /\ status' = [status EXCEPT ![c] = "bootstrapping"]
         /\ builds' = [builds EXCEPT ![c] = @ + 1]
         /\ UNCHANGED <<failedHealth, shutdown, buildErrors>>

\* CreateChain, called on the P-chain's thread by its VM while it executes
\* blocks (bootstrapping or in consensus): queue the chain until unblocked.
CreateChain(c) ==
    /\ ~shutdown
    /\ status[PChain] \in {"bootstrapping", "normal"}
    /\ requests < MaxRequests
    /\ requests' = requests + 1
    /\ IF ~unblocked
       THEN /\ blockedChains' = Append(blockedChains, c)
            /\ UNCHANGED <<subnetBs, status, failedHealth, shutdown, builds, buildErrors>>
       ELSE /\ \E err \in BuildOutcomes : ForceCreateChain(c, err)
            /\ UNCHANGED blockedChains
    /\ UNCHANGED <<unblocked, todo, failures>>

-----------------------------------------------------------------------------
(* Bootstrapping of a created chain (tail of checkFinish, and Timeout).    *)

\* checkFinish has executed every job and the retry heuristic does not
\* restart: the Bootstrapped callback of a Snowman chain is unblockChains,
\* which sets unblocked and takes the whole queue.
Finish(c) ==
    /\ ~shutdown
    /\ status[c] = "bootstrapping"
    /\ status' = [status EXCEPT ![c] = "unblocking"]
    /\ IF c \in Snowman
       THEN /\ unblocked' = TRUE
            /\ todo' = [todo EXCEPT ![c] = blockedChains]
            /\ blockedChains' = << >>
       ELSE UNCHANGED <<unblocked, todo, blockedChains>>
    /\ UNCHANGED <<subnetBs, failedHealth, shutdown, builds, requests, buildErrors, failures>>

\* One iteration of the loop of unblockChains.
CreateNext(c) ==
    /\ ~shutdown
    /\ todo[c] # << >>
    /\ todo' = [todo EXCEPT ![c] = Tail(@)]
    /\ \E err \in BuildOutcomes : ForceCreateChain(Head(todo[c]), err)
    /\ UNCHANGED <<unblocked, blockedChains, requests, failures>>

\* Faulty: the subnet is told before the loop of unblockChains has ended,
\* as if unblockChains ran on its own goroutine.
Faulty_Settle(c) ==
    /\ ~shutdown
    /\ status[c] = "unblocking"
    /\ LET rest == subnetBs[SubnetOf[c]] \ {c}
       IN  /\ subnetBs' = [subnetBs EXCEPT ![SubnetOf[c]] = rest]
           /\ status' = [status EXCEPT ![c] = IF rest = {} THEN "normal" ELSE "awaiting"]
    /\ UNCHANGED <<unblocked, blockedChains, todo, failedHealth, shutdown, builds,
                   requests, buildErrors, failures>>

\* The rest of checkFinish once unblockChains returned: Subnet.Bootstrapped,
\* then consensus if Subnet.IsBootstrapped, else the timer.
Settle(c) ==
    /\ ~shutdown
    /\ status[c] = "unblocking"
    /\ todo[c] = << >>
    /\ LET rest == subnetBs[SubnetOf[c]] \ {c}
       IN  /\ subnetBs' = [subnetBs EXCEPT ![SubnetOf[c]] = rest]
           /\ status' = [status EXCEPT ![c] = IF rest = {} THEN "normal" ELSE "awaiting"]
    /\ UNCHANGED <<unblocked, blockedChains, todo, failedHealth, shutdown, builds,
                   requests, buildErrors, failures>>

\* Timeout: consensus if the subnet is bootstrapped, else Restart(true).
Timeout(c) ==
    /\ ~shutdown
    /\ status[c] = "awaiting"
    /\ status' = [status EXCEPT ![c] = IF subnetBs[SubnetOf[c]] = {}
                                       THEN "normal" ELSE "bootstrapping"]
    /\ UNCHANGED <<unblocked, blockedChains, todo, subnetBs, failedHealth,
                   shutdown, builds, requests, buildErrors, failures>>

\* The chain's handler stops with an error while bootstrapping (for
\* instance fetch with no beacon connected); it never reports Bootstrapped.
Fail(c) ==
    /\ ~shutdown
    /\ status[c] = "bootstrapping"
    /\ failures < MaxChainFailures
    /\ failures' = failures + 1
    /\ status' = [status EXCEPT ![c] = "stopped"]
    /\ UNCHANGED <<unblocked, blockedChains, todo, subnetBs, failedHealth,
                   shutdown, builds, requests, buildErrors>>

-----------------------------------------------------------------------------

\* New, and the node's ForceCreateChain of the P-chain.
Init ==
    /\ unblocked = FALSE
    /\ blockedChains = << >>
    /\ todo = [c \in Chains |-> << >>]
    /\ subnetBs = [s \in Subnets |-> IF s = Primary THEN {PChain} ELSE {}]
    /\ status = [c \in Chains |-> IF c = PChain THEN "bootstrapping" ELSE "none"]
    /\ failedHealth = {}
    /\ shutdown = FALSE
    /\ builds = [c \in Chains |-> IF c = PChain THEN 1 ELSE 0]
    /\ requests = 0
    /\ buildErrors = 0
    /\ failures = 0

Next ==
    \E c \in Chains :
        \/ c # PChain /\ CreateChain(c)
        \/ Finish(c)
        \/ CreateNext(c)
        \/ Settle(c)
        \/ Timeout(c)
        \/ Fail(c)

\* Each chain's thread runs: its loop and checkFinish run to the end, its
\* timer fires, and its bootstrapper finishes.  The last is an assumption:
\* Bootstrapper's stall (finding 1) shows the code does not guarantee it,
\* so the liveness below is conditional on every fetch being answered.
Fairness ==
    \A c \in Chains : /\ WF_vars(Finish(c)) /\ WF_vars(CreateNext(c))
                      /\ WF_vars(Settle(c)) /\ WF_vars(Timeout(c))

Spec == Init /\ [][Next]_vars /\ Fairness

-----------------------------------------------------------------------------
(* Properties.                                                             *)

\* A chain asked for and not created yet: in blockedChains, or in the
\* loop of an unblockChains call.
Queued(d) == d \in ToSet(blockedChains) \/ \E e \in Chains : d \in ToSet(todo[e])

\* chainsNotBootstrapped: the chains in manager.chains not in NormalOp.
ChainsNotBootstrapped == {c \in Chains : status[c] \notin {"none", "normal"}}

\* The "bootstrapped" readiness check (registerBootstrappedHealthChecks)
\* passes only when no chain the P-chain asked for still waits to be
\* created: unblockChains runs before the P-chain tells its subnet it is
\* bootstrapped, so the P-chain stays out of NormalOp until every queued
\* chain has been built.
ReadyMeansAllCreated ==
    (~shutdown /\ ChainsNotBootstrapped = {}) => ~\E d \in Chains : Queued(d)

\* A chain still to be created or bootstrapping.
Pending(c) == Queued(c) \/ status[c] \in {"bootstrapping", "unblocking", "awaiting"}

\* Every chain the P-chain asks for ends up in consensus, stopped, skipped
\* or failed to build (or the node shuts down): none is left queued or
\* bootstrapping forever, also when a sibling of its subnet failed to build
\* (removeChain).
EveryChainBootstraps ==
    \A c \in Chains : Pending(c) ~> (~Pending(c) \/ shutdown)

\* A chain stopped where it holds c back: in c's subnet (which then never
\* becomes bootstrapped), or the P-chain (which then never unblocks).
HeldBackByStop(c) ==
    \E d \in Chains : status[d] = "stopped" /\ (SubnetOf[d] = SubnetOf[c] \/ d = PChain)

\* With handlers that may stop: every chain the P-chain asks for still ends
\* up in consensus, stopped, skipped or failed to build, unless a stopped
\* chain holds it back (finding: EveryChainBootstraps fails exactly there).
EveryChainBootstrapsUnlessStopped ==
    \A c \in Chains : Pending(c) ~> (~Pending(c) \/ shutdown \/ HeldBackByStop(c))

\* Spec 6 (startup gating): a chain starts consensus only once the whole
\* subnet is synced: when it enters NormalOp, no other chain of its subnet
\* the P-chain asked for is still queued or bootstrapping.
SubnetSynced ==
    [][\A c \in Chains :
         (status[c] # "normal" /\ status'[c] = "normal") =>
            \A d \in Chains \ {c} :
               SubnetOf[d] = SubnetOf[c] =>
                  ~Queued(d) /\ status[d] \notin {"bootstrapping", "unblocking"}]_vars

=============================================================================
