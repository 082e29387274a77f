CONSTANTS
    P = P
    X = X
    A = A
    B = B
    D = D
    Chains <- MCChains
    PChain = P
    Subnets <- MCSubnets
    Primary = "primary"
    SubnetOf <- MCSubnetOf
    Snowman <- MCSnowman
    Critical <- MCCritical
    Whitelisted <- MCWhitelisted
    StakingEnabled = TRUE
    MaxRequests = 4
    MaxBuildErrors = 1
    MaxChainFailures = 1

SPECIFICATION Spec

INVARIANT ReadyMeansAllCreated
PROPERTY EveryChainBootstrapsUnlessStopped

\* The node stops after a shutdown, and the manager idles once every chain
\* the P-chain asked for (at most MaxRequests) is created.
CHECK_DEADLOCK FALSE
