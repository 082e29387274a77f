CONSTANTS
    n1 = n1
    n2 = n2
    n3 = n3
    n4 = n4
    Nodes <- MCNodes
    MaxWeight = 2
    Width = 4

SPECIFICATION Spec

INVARIANT ConnectedWeightExact

SYMMETRY Symmetry
