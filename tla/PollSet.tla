------------------------------ MODULE PollSet ------------------------------
(***************************************************************************)
(* The Snowman poll set (snow/consensus/snowman/poll/set.go): the polls    *)
(* the consensus engine has in flight, keyed by request ID and kept in a   *)
(* linked hash map in insertion order.  Votes and dropped votes (query     *)
(* timeouts) are applied to the poll of their request ID; when a poll      *)
(* finishes, every finished poll at the head of the map is removed and     *)
(* its result is returned, oldest first.                                   *)
(*                                                                         *)
(* The single poll (the early-terminating poll its factory builds) is not  *)
(* in the repository's sources: PollVote, PollDrop and Finished follow the *)
(* contract of spec section 4.1.  The caller is the engine, which issues   *)
(* request IDs from an incrementing counter; the network may deliver a     *)
(* vote or a timeout for any issued request, from any validator, at any    *)
(* time, duplicated or late.                                               *)
(***************************************************************************)
EXTENDS Naturals, Sequences, FiniteSets, FiniteSetsExt

CONSTANTS
    Validators,   \* node IDs the engine may sample
    Containers,   \* container IDs a vote may name
    SampleSize,   \* k: validators sampled per poll
    Alpha,        \* votes for one container that finish a poll early
    MaxPolls,     \* bound: polls the engine issues in a behaviour
    IDWidth,      \* bits of a request ID (uint32 in the code)
    NoVote        \* model value: a sampled validator that has not voted

ASSUME SampleSize \in 1..Cardinality(Validators)
ASSUME Alpha \in 1..SampleSize
ASSUME MaxPolls \in Nat \ {0}
ASSUME IDWidth \in Nat \ {0}
ASSUME NoVote \notin Containers

VARIABLES
    polls,          \* the linked hash map: a sequence of polls, oldest first
    nextRequestID,  \* the engine's request ID counter (caller of Add)
    results         \* every poll whose result Vote or Drop returned, in
                    \* return order (the engine reads Tally of each)

vars == <<polls, nextRequestID, results>>

\* The uint32 request IDs, scaled to IDWidth bits.
RequestIDs == 0..(2^IDWidth - 1)

\* The request ID of the n-th request: the engine's counter wraps.
RequestID(n) == n % 2^IDWidth

\* A poll; serial is the number of the request it was issued for (a
\* history field: the map knows only rid).
Poll == [rid: RequestIDs, serial: 1..MaxPolls, pending: SUBSET Validators,
         votes: [Validators -> Containers \cup {NoVote}]]

-----------------------------------------------------------------------------
(* The single poll (spec-modelled).                                        *)

\* A vote counts only from a sampled validator that has not answered yet.
PollVote(p, vdr, c) ==
    IF vdr \in p.pending
    THEN [p EXCEPT !.pending = @ \ {vdr}, !.votes[vdr] = c]
    ELSE p

\* A timed-out query removes the validator without a vote.
PollDrop(p, vdr) == [p EXCEPT !.pending = @ \ {vdr}]

Tally(p) == [c \in Containers |-> Cardinality({v \in Validators : p.votes[v] = c})]

Received(p) == Cardinality({v \in Validators : p.votes[v] # NoVote})

\* Finished when everyone answered, when some container has an alpha
\* majority, or when no container can reach alpha any more.
Finished(p) ==
    \/ p.pending = {}
    \/ \E c \in Containers : Tally(p)[c] >= Alpha
    \/ Received(p) + Cardinality(p.pending) < Alpha

-----------------------------------------------------------------------------
(* The set.                                                                *)

IndexOf(rid) == CHOOSE i \in DOMAIN polls : polls[i].rid = rid

Exists(rid) == \E i \in DOMAIN polls : polls[i].rid = rid

\* Number of finished polls at the head of the map: the iteration of
\* processFinishedPolls stops at the first poll that has not finished.
RECURSIVE FinishedPrefix(_)
FinishedPrefix(ps) ==
    IF ps # << >> /\ Finished(Head(ps)) THEN 1 + FinishedPrefix(Tail(ps)) ELSE 0

\* Faulty drain: keeps iterating past an unfinished poll.
FinishedAnywhere(ps) ==
    [removed |-> SelectSeq(ps, Finished),
     kept    |-> SelectSeq(ps, LAMBDA p : ~Finished(p))]

\* processFinishedPolls: removes the finished polls at the head, oldest
\* first, and appends their results to what the call returns.
ProcessFinishedPolls(ps) ==
    LET n == FinishedPrefix(ps)
    IN  [removed |-> SubSeq(ps, 1, n), kept |-> SubSeq(ps, n + 1, Len(ps))]

\* The set after poll i became p: nothing is returned unless p finished.
Settle(ps, i, p) ==
    LET updated == [ps EXCEPT ![i] = p]
        d       == ProcessFinishedPolls(updated)
    IN  IF Finished(p)
        THEN /\ polls' = d.kept
             /\ results' = results \o d.removed
        ELSE /\ polls' = updated
             /\ UNCHANGED results

\* Add: the engine registers a poll for its next request ID and a sample of
\* k validators.  A request ID already in the map is dropped (returns false):
\* once the counter has wrapped, that is a poll still in flight.
Add(vdrs) ==
    /\ nextRequestID <= MaxPolls
    /\ IF Exists(RequestID(nextRequestID))
       THEN UNCHANGED polls
       ELSE polls' = Append(polls, [rid |-> RequestID(nextRequestID),
                                    serial |-> nextRequestID, pending |-> vdrs,
                                    votes |-> [v \in Validators |-> NoVote]])
    /\ nextRequestID' = nextRequestID + 1
    /\ UNCHANGED results

\* Vote: a chit from vdr for request rid; unknown polls are ignored.
Vote(rid, vdr, c) ==
    /\ Exists(rid)
    /\ Settle(polls, IndexOf(rid), PollVote(polls[IndexOf(rid)], vdr, c))
    /\ UNCHANGED nextRequestID

\* Drop: the query to vdr for request rid failed; unknown polls are ignored.
Faulty_Drop(rid, vdr) ==
    /\ Exists(rid)
    /\ polls' = [polls EXCEPT ![IndexOf(rid)] = PollDrop(@, vdr)]
    /\ UNCHANGED <<nextRequestID, results>>

Drop(rid, vdr) ==
    /\ Exists(rid)
    /\ Settle(polls, IndexOf(rid), PollDrop(polls[IndexOf(rid)], vdr))
    /\ UNCHANGED nextRequestID

Init ==
    /\ polls = << >>
    /\ nextRequestID = 1
    /\ results = << >>

Next ==
    \/ \E vdrs \in kSubset(SampleSize, Validators) : Add(vdrs)
    \/ \E rid \in RequestIDs, vdr \in Validators, c \in Containers : Vote(rid, vdr, c)
    \/ \E rid \in RequestIDs, vdr \in Validators : Drop(rid, vdr)

\* The query of request rid to vdr is still unanswered.
Unanswered(rid, vdr) == Exists(rid) /\ vdr \in polls[IndexOf(rid)].pending

\* The engine's timeout manager fails every query that is not answered, so
\* each sampled validator eventually votes or is dropped.  A query that was
\* answered has no timeout left, so only unanswered queries are owed a Drop.
Fairness ==
    \A rid \in RequestIDs, vdr \in Validators :
        <>[]Unanswered(rid, vdr) => []<><<Drop(rid, vdr)>>_vars

Spec == Init /\ [][Next]_vars /\ Fairness

-----------------------------------------------------------------------------
(* Properties.                                                             *)

\* P1 (poll FIFO, set.go processFinishedPolls): the results handed to the
\* engine, followed by the polls still in flight, are every issued request
\* exactly once and in issue order: no result is returned before the result
\* of an older poll, none is lost and none is returned twice, and no request
\* is refused by Add.
FIFODelivery ==
    LET stream == [i \in 1..Len(results) |-> results[i].serial]
                  \o [i \in 1..Len(polls) |-> polls[i].serial]
    IN  stream = [i \in 1..(nextRequestID - 1) |-> i]

\* Every poll the engine adds eventually has its result returned, provided
\* every unanswered query eventually times out (Drop): a finished poll
\* queued behind an older one is never stranded.
EveryPollDelivered ==
    \A n \in 1..MaxPolls : (nextRequestID > n) ~> (Len(results) >= n)

=============================================================================
