---------------------------- MODULE PeerTracker ----------------------------
(***************************************************************************)
(* The connected-peers tracker of a chain (snow/engine/common/tracker/     *)
(* peers.go).  Two threads call it under its lock: the validator set of    *)
(* the chain's beacons, through the callbacks of SetCallbackListener, and  *)
(* the router, through Connected and Disconnected.  It keeps the stake     *)
(* weight of the connected validators incrementally in a uint64, which the *)
(* startup tracker compares with its threshold before bootstrapping        *)
(* starts; PreferredPeers is where the bootstrapper fetches from.          *)
(*                                                                         *)
(* The validator set (snow/validators, not among the sources) calls        *)
(* OnValidatorAdded for a node that is not a validator, with a non-zero    *)
(* weight; OnValidatorRemoved and OnValidatorWeightChanged with the weight *)
(* it last reported; the router calls Connected for a node that is not     *)
(* connected and Disconnected for one that is.  A weight of 0 in the model *)
(* stands for a node absent from peers.validators.                         *)
(*                                                                         *)
(* The startup tracker (tracker.NewStartup, not among the sources) wraps   *)
(* the tracker: after OnValidatorAdded, OnValidatorWeightChanged and      *)
(* Connected it latches ShouldStart once the connected weight reaches the *)
(* startup weight the chain manager gives it, (3*bootstrapWeight+3)/4 in   *)
(* uint64, with bootstrapWeight the beacons' weight at chain creation.     *)
(***************************************************************************)
EXTENDS Naturals, FiniteSets, Functions

CONSTANTS
    Nodes,       \* node IDs
    MaxWeight,   \* bound: a validator's weight is in 1..MaxWeight
    Width        \* bits of connectedWeight (uint64 in the code)

ASSUME MaxWeight \in Nat \ {0} /\ Width \in Nat \ {0}
\* The sum of every weight fits, as the validator set's Add64 ensures for
\* uint64; 3*bootstrapWeight+3 need not: subnet validator weights are set
\* by the subnet's owner and are not bounded by the supply.
ASSUME Cardinality(Nodes) * MaxWeight < 2^Width

VARIABLES
    validators,           \* peers.validators: node -> weight (0: absent)
    connectedWeight,      \* peers.connectedWeight
    connectedValidators,  \* peers.connectedValidators
    connectedPeers,       \* peers.connectedPeers
    bootstrapWeight,      \* input: beacons.Weight() when the chain was created
    shouldStart,          \* startup.shouldStart
    startStake            \* history: the connected stake when it latched

peers == <<validators, connectedWeight, connectedValidators, connectedPeers>>
vars == <<peers, bootstrapWeight, shouldStart, startStake>>

Weights == 1..MaxWeight

\* uint64 arithmetic, scaled to Width bits.
Word == 2^Width
Plus(a, b) == (a + b) % Word
Minus(a, b) == (a - b + Word) % Word

IsValidator(n) == validators[n] # 0

OnValidatorAdded(n, w) ==
    /\ ~IsValidator(n)
    /\ validators' = [validators EXCEPT ![n] = w]
    /\ IF n \in connectedPeers
       THEN /\ connectedWeight' = Plus(connectedWeight, w)
            /\ connectedValidators' = connectedValidators \cup {n}
       ELSE UNCHANGED <<connectedWeight, connectedValidators>>
    /\ UNCHANGED connectedPeers

OnValidatorRemoved(n) ==
    /\ IsValidator(n)
    /\ validators' = [validators EXCEPT ![n] = 0]
    /\ IF n \in connectedPeers
       THEN /\ connectedWeight' = Minus(connectedWeight, validators[n])
            /\ connectedValidators' = connectedValidators \ {n}
       ELSE UNCHANGED <<connectedWeight, connectedValidators>>
    /\ UNCHANGED connectedPeers

\* Faulty weight change: adjusts the connected weight of any validator.
Faulty_OnValidatorWeightChanged(n, w) ==
    /\ IsValidator(n) /\ w # validators[n]
    /\ validators' = [validators EXCEPT ![n] = w]
    /\ connectedWeight' = Plus(Minus(connectedWeight, validators[n]), w)
    /\ UNCHANGED <<connectedValidators, connectedPeers>>

OnValidatorWeightChanged(n, w) ==
    /\ IsValidator(n) /\ w # validators[n]
    /\ validators' = [validators EXCEPT ![n] = w]
    /\ IF n \in connectedPeers
       THEN connectedWeight' = Plus(Minus(connectedWeight, validators[n]), w)
       ELSE UNCHANGED connectedWeight
    /\ UNCHANGED <<connectedValidators, connectedPeers>>

Connected(n) ==
    /\ n \notin connectedPeers
    /\ IF IsValidator(n)
       THEN /\ connectedWeight' = Plus(connectedWeight, validators[n])
            /\ connectedValidators' = connectedValidators \cup {n}
       ELSE UNCHANGED <<connectedWeight, connectedValidators>>
    /\ connectedPeers' = connectedPeers \cup {n}
    /\ UNCHANGED validators

Disconnected(n) ==
    /\ n \in connectedPeers
    /\ IF IsValidator(n)
       THEN /\ connectedWeight' = Minus(connectedWeight, validators[n])
            /\ connectedValidators' = connectedValidators \ {n}
       ELSE UNCHANGED <<connectedWeight, connectedValidators>>
    /\ connectedPeers' = connectedPeers \ {n}
    /\ UNCHANGED validators

\* The stake of the connected validators.
ConnectedStake(v, c) == SumFunctionOnSet(v, c)

\* Faulty startup weight: rounds 3/4 of the beacon weight down.
Faulty_StartupWeight(w) == (3 * w) \div 4

\* The startup weight createSnowmanChain and createAvalancheChain give the
\* startup tracker: (3*bootstrapWeight+3)/4 in uint64.
StartupWeight(w) == ((3 * w + 3) % Word) \div 4

\* The startup tracker's tail of an event: latch ShouldStart once the
\* connected weight reaches the startup weight.
Latch ==
    /\ shouldStart' = (shouldStart \/ connectedWeight' >= StartupWeight(bootstrapWeight))
    /\ startStake' = IF shouldStart' /\ ~shouldStart
                     THEN ConnectedStake(validators', connectedPeers')
                     ELSE startStake
    /\ UNCHANGED bootstrapWeight

\* PreferredPeers: the connected validators, or if none the connected peers.
PreferredPeers ==
    IF connectedValidators = {} THEN connectedPeers ELSE connectedValidators

\* NewPeers.
Init ==
    /\ validators = [n \in Nodes |-> 0]
    /\ connectedWeight = 0
    /\ connectedValidators = {}
    /\ connectedPeers = {}
    /\ bootstrapWeight \in 0..(Cardinality(Nodes) * MaxWeight)
    /\ shouldStart = (0 >= StartupWeight(bootstrapWeight))
    /\ startStake = 0

\* The startup tracker re-checks its threshold after the events that can
\* raise the connected weight, and only passes the others on.
Next ==
    \E n \in Nodes :
        \/ \E w \in Weights : (OnValidatorAdded(n, w) \/ OnValidatorWeightChanged(n, w)) /\ Latch
        \/ Connected(n) /\ Latch
        \/ (OnValidatorRemoved(n) \/ Disconnected(n))
           /\ UNCHANGED <<bootstrapWeight, shouldStart, startStake>>

Spec == Init /\ [][Next]_vars

-----------------------------------------------------------------------------
(* Properties.                                                             *)

\* Whatever order the validator set's callbacks and the router's
\* connection events interleave in, the incrementally kept connected
\* weight is the stake of the connected validators (no uint64 wrap), and
\* connectedValidators, hence PreferredPeers, is exactly the connected
\* validators: the startup tracker starts bootstrapping on the weight the
\* validator set really has connected.
ConnectedWeightExact ==
    /\ connectedWeight = SumFunctionOnSet(validators, connectedPeers)
    /\ connectedValidators = {n \in connectedPeers : IsValidator(n)}
    /\ PreferredPeers \subseteq connectedPeers

\* Bootstrapping starts only with a quorum: when the startup tracker
\* latches ShouldStart, the stake of the connected validators is at least
\* 3/4 of the beacons' weight, whatever order weight changes and
\* connections came in.  The chain manager's rounding, the uint64
\* arithmetic of the threshold and of connectedWeight all bear on it.
StartupQuorum == shouldStart => 4 * startStake >= 3 * bootstrapWeight

=============================================================================
