CONSTANTS
    t1 = t1
    t2 = t2
    t3 = t3
    t4 = t4
    Txs <- MCTxs
    Deps <- MCDeps
    MaxCrashes = 2

SPECIFICATION Spec

INVARIANT AcceptOnce
INVARIANT RecoverableTxQueue
PROPERTY EveryTxAccepted

\* A chain stops after a fatal error, and bootstrapping idles once every
\* transaction is accepted.
CHECK_DEADLOCK FALSE
