\* The startup tracker's threshold for beacons whose weight is over a third
\* of the word: (3*bootstrapWeight+3)/4 wraps.
CONSTANTS
    n1 = n1
    n2 = n2
    n3 = n3
    n4 = n4
    Nodes <- MCNodes
    MaxWeight = 2
    Width = 4

SPECIFICATION Spec

INVARIANT StartupQuorum

SYMMETRY Symmetry
