\* Four vertices: every DAG on them in every parent order, every stored
\* subset and vertex lengths 1 or 2. Three containers at most, and 9 bytes:
\* three two-byte vertices with their length prefixes do not fit.
CONSTANTS
    N = 4
    Root = 1
    MaxSent = 3
    MaxLen = 9
    IntLen = 1
    Sizes = {1, 2}

SPECIFICATION Spec

INVARIANT AncestorsWellFormed
INVARIANT AncestorsBreadthFirst

\* A request ends with the answer sent, dropped or failed.
CHECK_DEADLOCK FALSE
