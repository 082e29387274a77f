------------------------------- MODULE Getter -------------------------------
(***************************************************************************)
(* The Avalanche getter's answer to GetAncestors                           *)
(* (snow/engine/avalanche/getter/getter.go): a breadth-first walk from the *)
(* requested vertex over the parents the node has, sent back as one       *)
(* Ancestors message.  The walk stops when AncestorsMaxContainersSent      *)
(* vertices are collected, when the queue empties, when the next vertex    *)
(* would make the message MaxContainersLen bytes or more, or when          *)
(* MaxTimeGetAncestors has passed; the time limit is a step the model may  *)
(* take at any iteration.  The bootstrapper of a peer fetches a vertex and *)
(* its missing ancestors from this answer.                                 *)
(*                                                                         *)
(* The vertex store is an input: Vertices are 1..N, the parents of v are   *)
(* a sequence of distinct vertices above v (so the graph is a DAG in any   *)
(* shape and parent order), and every vertex is stored (status other than  *)
(* Unknown) or not, with a byte length.  Root is the requested vertex.     *)
(***************************************************************************)
EXTENDS Naturals, Sequences, FiniteSets, SequencesExt

CONSTANTS
    N,          \* number of vertices; the vertices are 1..N
    Root,       \* the vertex asked for
    MaxSent,    \* cfg.AncestorsMaxContainersSent
    MaxLen,     \* constants.MaxContainersLen
    IntLen,     \* wrappers.IntLen: the length prefix of each container
    Sizes       \* byte lengths a vertex may have

Vertices == 1..N

VARIABLES
    parents,        \* the store: vertex -> its parents, in order
    known,          \* the store: vertices whose status is not Unknown
    size,           \* the store: vertex -> len(vtx.Bytes())
    queue,          \* queue
    ancestors,      \* ancestorsBytes, as the vertices they encode
    ancestorsLen,   \* ancestorsBytesLen
    visited,        \* visited
    pc              \* "idle", "loop", "sent", "dropped", "failed"

store == <<parents, known, size>>
walk == <<queue, ancestors, ancestorsLen, visited, pc>>
vars == <<store, walk>>

\* Every DAG on 1..N whose edges point to higher vertices.
DAGs ==
    {g \in [Vertices -> SetToAllKPermutations(Vertices)] :
        \A v \in Vertices : ToSet(g[v]) \subseteq (v + 1)..N}

\* GetAncestors up to the loop: drop the request for a vertex the node does
\* not have; otherwise start the walk at it.
GetAncestors ==
    /\ pc = "idle"
    /\ IF Root \notin known
       THEN /\ pc' = "dropped"
            /\ UNCHANGED <<queue, ancestors, ancestorsLen, visited>>
       ELSE /\ queue' = <<Root>>
            /\ visited' = {Root}
            /\ pc' = "loop"
            /\ UNCHANGED <<ancestors, ancestorsLen>>
    /\ UNCHANGED store

LoopCond == Len(ancestors) < MaxSent /\ queue # <<>>

\* Faulty size check: lets the message reach MaxContainersLen.
Faulty_Fits(newLen) == newLen <= MaxLen

\* The message stays under MaxContainersLen with the next container.
Fits(newLen) == newLen < MaxLen

\* The parents of vtx that are stored and were never queued, in order.
NewParents(vtx) ==
    SelectSeq(parents[vtx], LAMBDA p : p \in known /\ p \notin visited)

\* Faulty walk step: pushes the parents in front of the queue (depth first).
Faulty_Step ==
    /\ pc = "loop" /\ LoopCond
    /\ LET vtx == Head(queue)
           newLen == IntLen + ancestorsLen + size[vtx]
       IN IF Fits(newLen)
          THEN /\ ancestors' = Append(ancestors, vtx)
               /\ ancestorsLen' = newLen
               /\ \/ /\ queue' = NewParents(vtx) \o Tail(queue)
                     /\ visited' = visited \cup ToSet(NewParents(vtx))
                     /\ UNCHANGED pc
                  \/ /\ pc' = "failed"
                     /\ UNCHANGED <<queue, visited>>
          ELSE /\ queue' = Tail(queue)
               /\ pc' = "sent"
               /\ UNCHANGED <<ancestors, ancestorsLen, visited>>
    /\ UNCHANGED store

\* One iteration of the loop: pop a vertex; if it fits, add it and queue
\* its new parents, unless vtx.Parents() fails and the handler returns the
\* error; if it does not fit, break and send.
Step ==
    /\ pc = "loop" /\ LoopCond
    /\ LET vtx == Head(queue)
           newLen == IntLen + ancestorsLen + size[vtx]
       IN IF Fits(newLen)
          THEN /\ ancestors' = Append(ancestors, vtx)
               /\ ancestorsLen' = newLen
               /\ \/ /\ queue' = Tail(queue) \o NewParents(vtx)
                     /\ visited' = visited \cup ToSet(NewParents(vtx))
                     /\ UNCHANGED pc
                  \/ /\ pc' = "failed"
                     /\ UNCHANGED <<queue, visited>>
          ELSE /\ queue' = Tail(queue)
               /\ pc' = "sent"
               /\ UNCHANGED <<ancestors, ancestorsLen, visited>>
    /\ UNCHANGED store

\* The loop condition fails, or MaxTimeGetAncestors has passed: send.
Send ==
    /\ pc = "loop"
    /\ pc' = "sent"
    /\ UNCHANGED <<queue, ancestors, ancestorsLen, visited, store>>

\* The environment: any DAG of vertices, any of them stored, any sizes.
Init ==
    /\ parents \in DAGs
    /\ known \in SUBSET Vertices
    /\ size \in [Vertices -> Sizes]
    /\ queue = <<>>
    /\ ancestors = <<>>
    /\ ancestorsLen = 0
    /\ visited = {}
    /\ pc = "idle"

Next == GetAncestors \/ Step \/ Send

Spec == Init /\ [][Next]_vars

-----------------------------------------------------------------------------
(* Reference: the stored ancestors of Root by distance, defined apart from *)
(* the queue.                                                              *)

\* Stored vertices reachable from Root in at most k parent edges through
\* stored vertices.
RECURSIVE Reach(_)
Reach(k) ==
    IF k = 0 THEN {Root}
    ELSE LET r == Reach(k - 1)
         IN r \cup {p \in known : \E v \in r : p \in ToSet(parents[v])}

StoredAncestors == Reach(N)

Dist(v) == CHOOSE k \in 0..N : v \in Reach(k) /\ \A j \in 0..(k - 1) : v \notin Reach(j)

\* Bytes the Ancestors message carries.
MessageLen == IntLen * Len(ancestors) + SumFunctionOnSet(size, ToSet(ancestors))

\* The Ancestors message GetAncestors sends holds each vertex once, starts
\* with the requested vertex, holds only stored ancestors of it, and fits
\* in AncestorsMaxContainersSent containers and MaxContainersLen bytes,
\* whatever the shape of the DAG, the parent order, the unknown vertices
\* and the point where the time limit cuts the walk.
AncestorsWellFormed ==
    pc = "sent" =>
        /\ IsInjective(ancestors)
        /\ ancestors # <<>> => ancestors[1] = Root
        /\ ToSet(ancestors) \subseteq StoredAncestors
        /\ Len(ancestors) <= MaxSent
        /\ MessageLen < MaxLen

\* The message is a breadth-first prefix of the stored ancestors: the
\* vertices come in non-decreasing distance from Root, and every stored
\* ancestor closer than the last one sent was sent; a peer that gets a cut
\* answer misses only the farthest ancestors, never one in between.
AncestorsBreadthFirst ==
    pc = "sent" /\ ancestors # <<>> =>
        /\ \A i \in 1..(Len(ancestors) - 1) :
               Dist(ancestors[i]) <= Dist(ancestors[i + 1])
        /\ \A v \in StoredAncestors :
               Dist(v) < Dist(Last(ancestors)) => v \in ToSet(ancestors)

=============================================================================
