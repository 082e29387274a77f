CONSTANTS
    p1 = p1
    p2 = p2
    Peers <- MCPeers
    InitialTip = 2
    RetryBootstrap = TRUE
    MaxFaults = 2
    MaxCrashes = 1
    MaxHeight = 4
    MaxContainers = 2
    MaxSent = 3

SPECIFICATION Spec

INVARIANT CaughtUp

\* A chain in normal operation, failed or halted takes no further
\* bootstrapper step, and a bootstrapping chain whose fetches all stalled
\* idles.
CHECK_DEADLOCK FALSE
