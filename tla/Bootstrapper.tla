---------------------------- MODULE Bootstrapper ----------------------------
(***************************************************************************)
(* The Snowman bootstrapper (snow/engine/snowman/bootstrap/bootstrapper.go)*)
(* of one chain, together with the pieces of its environment it reads:    *)
(* the VM (last accepted height, a cache of parsed blocks), the job queue  *)
(* Blocked with its missing IDs (in memory and as last committed), the     *)
(* startup tracker of connected beacons, the other chains of the subnet,   *)
(* and a network whose accepted chain keeps growing.                       *)
(*                                                                         *)
(* Blocks are named by height: block h has parent h - 1 and block 0 is     *)
(* genesis, accepted from the start.  Every handler runs under the chain's *)
(* lock, so each is one atomic action; the loops inside a handler (fetch   *)
(* of every pending ID, the walk of process, ExecuteAll) are pure          *)
(* operators over a record St of the bootstrapper's state, composed in the *)
(* order the code calls them.  A crash (or a node restart after Halt)      *)
(* keeps the VM's accepted blocks and what Blocked last committed, and     *)
(* loses everything else.                                                  *)
(*                                                                         *)
(* The job queue (snow/engine/common/queue) and the common bootstrapper    *)
(* that gathers the accepted frontier are not in the repository: Commit,   *)
(* ExecuteAll, Restart and the precondition of ForceAccepted follow spec   *)
(* sections 4.2 and 4.3.                                                   *)
(***************************************************************************)
EXTENDS Naturals, Sequences, FiniteSets, SequencesExt

CONSTANTS
    Peers,           \* beacons, each of weight 1 (all are validators)
    InitialTip,      \* height of the network's accepted chain at start
    MaxHeight,       \* bound: the network accepts blocks up to this height
    MaxContainers,   \* AncestorsMaxContainersReceived
    MaxSent,         \* bound: containers a peer puts in one Ancestors
    RetryBootstrap,  \* Config.RetryBootstrap
    MaxFaults,       \* bound: empty/garbled answers, timeouts, disconnects
    MaxCrashes       \* bound: crashes and halts of the node

ASSUME InitialTip \in 1..MaxHeight
ASSUME MaxContainers \in 1..MaxSent
ASSUME RetryBootstrap \in BOOLEAN
ASSUME MaxFaults \in Nat /\ MaxCrashes \in Nat

VARIABLES
    tip,            \* network: height of its last accepted block
    lastAccepted,   \* VM: height of the last accepted block (persisted)
    parsed,         \* VM: heights of parsed, not yet accepted blocks (cache)
    missing,        \* Blocked: missing IDs (in memory)
    jobs,           \* Blocked: heights of the pushed block jobs (in memory)
    dbMissing,      \* Blocked: missing IDs as last committed
    dbJobs,         \* Blocked: jobs as last committed
    connected,      \* startup tracker: connected beacons
    shouldStart,    \* startup tracker: the latched ShouldStart
    fetchFrom,      \* bootstrapper.fetchFrom
    outstanding,    \* OutstandingRequests: [peer, blk] of each GetAncestors
    phase,          \* where the chain is; see Phases
    startingHeight, \* bootstrapper.startingHeight
    executedST,     \* bootstrapper.executedStateTransitions
    awaiting,       \* bootstrapper.awaitingTimeout
    othersDone,     \* every other chain of the subnet has bootstrapped
    frontier,       \* height of the frontier the last ForceAccepted got
    faults,         \* faults so far (bounded by MaxFaults)
    crashes         \* crashes and halts so far (bounded by MaxCrashes)

vars == <<tip, lastAccepted, parsed, missing, jobs, dbMissing, dbJobs,
          connected, shouldStart, fetchFrom, outstanding, phase,
          startingHeight, executedST, awaiting, othersDone, frontier,
          faults, crashes>>

\* stopped: the handler has not called Start; waiting: Start ran but the
\* startup tracker does not allow starting; frontier: Startup or Restart is
\* collecting the accepted frontier; fetching: ForceAccepted ran; normal:
\* OnFinished handed the chain to consensus; failed: a handler returned an
\* error and the chain stopped; halted: the chain shut down.
Phases == {"stopped", "waiting", "frontier", "fetching", "normal",
           "failed", "halted"}

Heights == 0..MaxHeight

MaxInt32 == 2147483647

\* manager.go: startupTracker weight threshold (3*bootstrapWeight+3)/4.
StartupWeight == (3 * Cardinality(Peers) + 3) \div 4

-----------------------------------------------------------------------------
(* The bootstrapper's state as a record, threaded through a handler.      *)
(* picks are the peers fetchFrom.Peek returns, in order; valid is FALSE   *)
(* when a pick was not in fetchFrom (that choice is not a behaviour).      *)

St == [missing |-> missing, jobs |-> jobs, dbMissing |-> dbMissing,
       dbJobs |-> dbJobs, lastAccepted |-> lastAccepted, parsed |-> parsed,
       fetchFrom |-> fetchFrom, outstanding |-> outstanding, phase |-> phase,
       executedST |-> executedST, awaiting |-> awaiting,
       frontier |-> frontier, connected |-> connected,
       picks |-> << >>, valid |-> TRUE]

\* The handler's result becomes the next state; every pick is used unless
\* the handler stopped first.
Apply(r) ==
    /\ r.valid
    /\ r.picks = << >> \/ r.phase \in {"failed", "halted"}
    /\ missing' = r.missing
    /\ jobs' = r.jobs
    /\ dbMissing' = r.dbMissing
    /\ dbJobs' = r.dbJobs
    /\ lastAccepted' = r.lastAccepted
    /\ parsed' = r.parsed
    /\ fetchFrom' = r.fetchFrom
    /\ outstanding' = r.outstanding
    /\ phase' = r.phase
    /\ executedST' = r.executedST
    /\ awaiting' = r.awaiting
    /\ frontier' = r.frontier
    /\ connected' = r.connected

\* A handler stops at the first error or at a halt.
Stopped(s) == s.phase \in {"failed", "halted"} \/ ~s.valid

\* VM.GetBlock succeeds: the block is accepted or parsed.
VMHas(s, h) == h <= s.lastAccepted \/ h \in s.parsed

\* tracker.PreferredPeers: the connected validators (every beacon is one).
PreferredPeers(s) == s.connected

\* Faulty markUnavailable: never refills fetchFrom.
Faulty_MarkUnavailable(s, p) == [s EXCEPT !.fetchFrom = @ \ {p}]

\* markUnavailable: remove the peer; an empty set is reset to the peers
\* the startup tracker prefers.
MarkUnavailable(s, p) ==
    LET rest == s.fetchFrom \ {p}
    IN  [s EXCEPT !.fetchFrom = IF rest = {} THEN PreferredPeers(s) ELSE rest]

\* Blocked.Commit: the versiondb of the queue is written.
Commit(s) == [s EXCEPT !.dbMissing = s.missing, !.dbJobs = s.jobs]

\* Blocked.ExecuteAll (spec 4.2): runs every job whose parent is accepted,
\* in dependency order (block jobs accept their block), and commits.
ExecuteAll(s) ==
    LET k == CHOOSE t \in s.lastAccepted..MaxHeight :
                 /\ \A h \in s.lastAccepted + 1..t : h \in s.jobs
                 /\ t + 1 \notin s.jobs
    IN  Commit([s EXCEPT !.lastAccepted = k,
                         !.jobs = @ \ (s.lastAccepted + 1..k)])

\* checkFinish: nothing while IDs are missing, once bootstrapped or while
\* the restart timer runs; else execute, then restart (Restart(true), spec
\* 4.3: collect a new frontier) while the executed count still halves,
\* else report this chain bootstrapped to the subnet and either wait for
\* the other chains (RegisterTimeout) or finish (OnFinished).
CheckFinish(s) ==
    IF Stopped(s) \/ s.missing # {} \/ s.phase = "normal" \/ s.awaiting
    THEN s
    ELSE LET e    == ExecuteAll(s)
             n    == e.lastAccepted - s.lastAccepted
             prev == s.executedST
             s1   == [e EXCEPT !.executedST = n]
         IN  IF RetryBootstrap /\ n > 0 /\ n < prev \div 2
             THEN [s1 EXCEPT !.phase = "frontier"]
             ELSE IF ~othersDone
                  THEN [s1 EXCEPT !.awaiting = TRUE]
                  ELSE [s1 EXCEPT !.phase = "normal"]

\* fetch: at most one request per block; a block the VM has needs no
\* request; with nobody to ask the handler fails; else ask the next pick
\* and mark it unavailable.
Fetch(s, h) ==
    IF Stopped(s) \/ \E o \in s.outstanding : o.blk = h THEN s
    ELSE IF VMHas(s, h) THEN CheckFinish(s)
    ELSE IF s.fetchFrom = {} THEN [s EXCEPT !.phase = "failed"]
    ELSE IF s.picks = << >> \/ Head(s.picks) \notin s.fetchFrom
         THEN [s EXCEPT !.valid = FALSE]
    ELSE LET p  == Head(s.picks)
             s1 == MarkUnavailable([s EXCEPT !.picks = Tail(@)], p)
         IN  [s1 EXCEPT !.outstanding = @ \cup {[peer |-> p, blk |-> h]}]

\* process: walk from block b down its ancestors (those in avail, the
\* blocks of the same Ancestors message, or in the VM), pushing a job for
\* each, until an accepted block, the starting height or a pushed job; a
\* parent nobody has is made missing and fetched.  halt is the iteration
\* at which Halted() is first seen (0: never): b is then made missing
\* again and committed so that a restart resumes from it.
RECURSIVE Process(_, _, _, _)

\* Faulty walk: fetches a parent it does not record as missing.
Faulty_ProcessNoMissing(s, b, avail, halt) ==
    IF Stopped(s) THEN s
    ELSE IF halt = 1
         THEN Commit([s EXCEPT !.missing = @ \cup {b}, !.phase = "halted"])
    ELSE LET s1   == [s EXCEPT !.missing = @ \ {b}]
             more == IF halt > 1 THEN halt - 1 ELSE 0
         IN  IF b <= s1.lastAccepted \/ b <= startingHeight \/ b \in s1.jobs
             THEN CheckFinish(Commit(s1))
             ELSE LET s2 == [s1 EXCEPT !.jobs = @ \cup {b}]
                  IN  IF b - 1 \in avail \/ VMHas(s2, b - 1)
                      THEN Process(s2, b - 1, avail, more)
                      ELSE LET s3 == Fetch(s2, b - 1)
                           IN  IF Stopped(s3) THEN s3 ELSE CheckFinish(Commit(s3))

Process(s, b, avail, halt) ==
    IF Stopped(s) THEN s
    ELSE IF halt = 1
         THEN Commit([s EXCEPT !.missing = @ \cup {b}, !.phase = "halted"])
    ELSE LET s1   == [s EXCEPT !.missing = @ \ {b}]
             more == IF halt > 1 THEN halt - 1 ELSE 0
         IN  IF b <= s1.lastAccepted \/ b <= startingHeight \/ b \in s1.jobs
             THEN CheckFinish(Commit(s1))
             ELSE LET s2 == [s1 EXCEPT !.jobs = @ \cup {b}]
                  IN  IF b - 1 \in avail \/ VMHas(s2, b - 1)
                      THEN Process(s2, b - 1, avail, more)
                      ELSE LET s3 == Fetch([s2 EXCEPT !.missing = @ \cup {b - 1}], b - 1)
                           IN  IF Stopped(s3) THEN s3 ELSE CheckFinish(Commit(s3))

\* The two loops of ForceAccepted: fetch each of a set of IDs (in
\* ascending order), and process(blk, nil) each block of a sequence.
RECURSIVE FetchEach(_, _)
FetchEach(s, ids) ==
    IF ids = {} THEN s
    ELSE FetchEach(Fetch(s, Min(ids)), ids \ {Min(ids)})

RECURSIVE ProcessEach(_, _)
ProcessEach(s, blks) ==
    IF blks = << >> THEN s
    ELSE ProcessEach(Process(s, Head(blks), {}, 0), Tail(blks))

-----------------------------------------------------------------------------
(* Handlers.                                                               *)

Active == {"waiting", "frontier", "fetching"}

\* The peers fetchFrom.Peek may return during one handler.
Picks(n) == UNION {[1..i -> Peers] : i \in 0..n}

RemoveRequest(s, p, h) ==
    [s EXCEPT !.outstanding = @ \ {[peer |-> p, blk |-> h]}]

\* Start: the starting height is the last accepted height; bootstrapping
\* begins now only if enough beacon weight is already connected.
Start ==
    /\ phase = "stopped"
    /\ startingHeight' = lastAccepted
    /\ phase' = IF shouldStart THEN "frontier" ELSE "waiting"
    /\ UNCHANGED <<tip, lastAccepted, parsed, missing, jobs, dbMissing,
                   dbJobs, connected, shouldStart, fetchFrom, outstanding,
                   executedST, awaiting, othersDone, frontier, faults, crashes>>

\* Connected: the startup tracker counts the beacon (ShouldStart latches
\* once StartupWeight is connected), the beacon can be fetched from, and
\* the first time ShouldStart holds bootstrapping starts.
Connected(p) ==
    /\ phase \in Active
    /\ p \notin connected
    /\ connected' = connected \cup {p}
    /\ shouldStart' = (shouldStart \/ Cardinality(connected') >= StartupWeight)
    /\ fetchFrom' = fetchFrom \cup {p}
    /\ phase' = IF phase = "waiting" /\ shouldStart' THEN "frontier" ELSE phase
    /\ UNCHANGED <<tip, lastAccepted, parsed, missing, jobs, dbMissing,
                   dbJobs, outstanding, startingHeight, executedST, awaiting,
                   othersDone, frontier, faults, crashes>>

\* Disconnected: the tracker forgets the beacon; markUnavailable.
Disconnected(p) ==
    /\ phase \in Active
    /\ p \in connected
    /\ faults < MaxFaults
    /\ faults' = faults + 1
    /\ Apply(MarkUnavailable([St EXCEPT !.connected = @ \ {p}], p))
    /\ UNCHANGED <<tip, shouldStart, startingHeight, othersDone, crashes>>

\* The IDs ForceAccepted sends a GetAncestors for: those the VM lacks and
\* no request is out for.
ToFetch == {h \in missing \cup {tip} : ~VMHas(St, h) /\ \A o \in outstanding : o.blk # h}

\* The peers Peek returns in ForceAccepted: one per ID it fetches, and one
\* per block it processes (whose walk may end by fetching a parent).
FAPicks ==
    UNION {[1..k -> Peers] :
             k \in Cardinality(ToFetch)..Cardinality(ToFetch) + Cardinality(missing) + 1}

\* The orders in which MissingIDs may list the missing IDs the VM has.
Processable == SetToSeqs({h \in missing : VMHas(St, h)})

\* ForceAccepted: the common bootstrapper has the accepted frontier, here
\* the network's tip.  Every missing ID (in the order MissingIDs lists
\* them) and the tip are made missing; each the VM lacks is fetched, then
\* each it has is processed, in order, then checkFinish.  The order of the
\* fetches only decides which peer gets which request, which the free
\* picks already cover, so the model fetches in ascending order; order is
\* the order of the missing IDs the VM has.
ForceAccepted(order, picks) ==
    /\ phase = "frontier"
    /\ order \in Processable
    /\ LET s0   == [St EXCEPT !.fetchFrom = PreferredPeers(St), !.frontier = tip,
                              !.phase = "fetching", !.picks = picks,
                              !.missing = @ \cup {tip}]
           tail == IF VMHas(St, tip) THEN << tip >> ELSE << >>
           s2   == ProcessEach(FetchEach(s0, ToFetch), order \o tail)
       IN  Apply(CheckFinish(s2))
    /\ UNCHANGED <<tip, shouldStart, startingHeight, othersDone, faults, crashes>>

\* Ancestors with no block: markUnavailable and fetch the block again.
AncestorsEmpty(p, h, picks) ==
    /\ [peer |-> p, blk |-> h] \in outstanding
    /\ p \in connected
    /\ faults < MaxFaults
    /\ faults' = faults + 1
    /\ Apply(Fetch(MarkUnavailable([RemoveRequest(St, p, h) EXCEPT !.picks = picks], p), h))
    /\ UNCHANGED <<tip, shouldStart, startingHeight, othersDone, crashes>>

\* Ancestors whose blocks do not parse, parse to none, or do not start with
\* the wanted block: the peer is available again; fetch the block again.
\* BatchedParseBlock has already parsed got, the blocks of the chain the
\* answer carried before the error or the mismatch, into the VM.
AncestorsInvalid(p, h, got, picks) ==
    /\ [peer |-> p, blk |-> h] \in outstanding
    /\ p \in connected
    /\ faults < MaxFaults
    /\ faults' = faults + 1
    /\ Apply(Fetch([RemoveRequest(St, p, h) EXCEPT !.fetchFrom = @ \cup {p},
                                                  !.parsed = @ \cup got,
                                                  !.picks = picks], h))
    /\ UNCHANGED <<tip, shouldStart, startingHeight, othersDone, crashes>>

\* Ancestors with block h and its n - 1 nearest ancestors, truncated to
\* AncestorsMaxContainersReceived: the peer is available again; the
\* blocks are parsed (the VM may cache them) and process walks from h.
Ancestors(p, h, n, halt, picks) ==
    /\ [peer |-> p, blk |-> h] \in outstanding
    /\ p \in connected
    /\ halt > 0 => crashes < MaxCrashes
    /\ LET kept == {h - i : i \in 0..(IF n < MaxContainers THEN n ELSE MaxContainers) - 1}
           s0   == [RemoveRequest(St, p, h) EXCEPT !.fetchFrom = @ \cup {p},
                                                  !.parsed = @ \cup kept,
                                                  !.picks = picks]
           r    == Process(s0, h, kept \ {h}, halt)
       IN  /\ Apply(r)
           /\ crashes' = IF r.phase = "halted" THEN crashes + 1 ELSE crashes
    /\ UNCHANGED <<tip, shouldStart, startingHeight, othersDone, faults>>

\* GetAncestorsFailed: the request timed out (at once if the peer is not
\* connected); the peer is available again; fetch the block again.
GetAncestorsFailed(p, h, picks) ==
    /\ [peer |-> p, blk |-> h] \in outstanding
    /\ p \in connected => faults < MaxFaults
    /\ faults' = IF p \in connected THEN faults + 1 ELSE faults
    /\ Apply(Fetch([RemoveRequest(St, p, h) EXCEPT !.fetchFrom = @ \cup {p},
                                                  !.picks = picks], h))
    /\ UNCHANGED <<tip, shouldStart, startingHeight, othersDone, crashes>>

\* Faulty Timeout: finishes without asking whether the subnet is done.
Faulty_Timeout ==
    /\ awaiting
    /\ phase \in Active
    /\ awaiting' = FALSE
    /\ phase' = "normal"
    /\ UNCHANGED <<tip, lastAccepted, parsed, missing, jobs, dbMissing,
                   dbJobs, connected, shouldStart, fetchFrom, outstanding,
                   startingHeight, executedST, othersDone, frontier, faults,
                   crashes>>

\* Timeout: the timer registered by checkFinish fired.  Restart if the
\* subnet still is not bootstrapped, else OnFinished.
Timeout ==
    /\ awaiting
    /\ phase \in Active
    /\ awaiting' = FALSE
    /\ phase' = IF othersDone THEN "normal" ELSE "frontier"
    /\ UNCHANGED <<tip, lastAccepted, parsed, missing, jobs, dbMissing,
                   dbJobs, connected, shouldStart, fetchFrom, outstanding,
                   startingHeight, executedST, othersDone, frontier, faults,
                   crashes>>

\* An outstanding request to a connected peer is answered, honestly.
Respond ==
    \E p \in connected, h \in Heights, picks \in Picks(1), n \in 1..MaxSent :
        n <= h /\ Ancestors(p, h, n, 0, picks)

\* The blocks an invalid answer may leave parsed: at most
\* AncestorsMaxContainersReceived blocks of the chain.
InvalidParses == {g \in SUBSET (1..tip) : Cardinality(g) <= MaxContainers}

\* Some ForceAccepted step.
ForceAcceptedStep ==
    \E order \in Processable, picks \in FAPicks : ForceAccepted(order, picks)

-----------------------------------------------------------------------------
(* Environment.                                                            *)

\* The other chains of the subnet finish bootstrapping.
OthersBootstrapped ==
    /\ ~othersDone
    /\ othersDone' = TRUE
    /\ UNCHANGED <<tip, lastAccepted, parsed, missing, jobs, dbMissing,
                   dbJobs, connected, shouldStart, fetchFrom, outstanding,
                   phase, startingHeight, executedST, awaiting, frontier,
                   faults, crashes>>

\* The network accepts a new block.
NewBlock ==
    /\ tip < MaxHeight
    /\ tip' = tip + 1
    /\ UNCHANGED <<lastAccepted, parsed, missing, jobs, dbMissing, dbJobs,
                   connected, shouldStart, fetchFrom, outstanding, phase,
                   startingHeight, executedST, awaiting, othersDone,
                   frontier, faults, crashes>>

\* The VM forgets a parsed, unaccepted block.
Evict(h) ==
    /\ h \in parsed
    /\ parsed' = parsed \ {h}
    /\ UNCHANGED <<tip, lastAccepted, missing, jobs, dbMissing, dbJobs,
                   connected, shouldStart, fetchFrom, outstanding, phase,
                   startingHeight, executedST, awaiting, othersDone,
                   frontier, faults, crashes>>

\* The node crashes, or is restarted after a halt, and the chain is built
\* again: the VM keeps its accepted blocks and Blocked what it committed;
\* connections, requests, caches, timers and the other chains start over.
Crash ==
    /\ phase = "halted" \/ crashes < MaxCrashes
    /\ crashes' = IF phase = "halted" THEN crashes ELSE crashes + 1
    /\ phase' = "stopped"
    /\ missing' = dbMissing
    /\ jobs' = dbJobs
    /\ parsed' = {}
    /\ connected' = {}
    /\ shouldStart' = FALSE
    /\ fetchFrom' = {}
    /\ outstanding' = {}
    /\ executedST' = MaxInt32
    /\ awaiting' = FALSE
    /\ othersDone' = FALSE
    /\ UNCHANGED <<tip, lastAccepted, dbMissing, dbJobs, startingHeight,
                   frontier, faults>>

Init ==
    /\ tip = InitialTip
    /\ lastAccepted = 0
    /\ parsed = {}
    /\ missing = {} /\ jobs = {} /\ dbMissing = {} /\ dbJobs = {}
    /\ connected = {}
    /\ shouldStart = FALSE
    /\ fetchFrom = {}
    /\ outstanding = {}
    /\ phase = "stopped"
    /\ startingHeight = 0
    /\ executedST = MaxInt32
    /\ awaiting = FALSE
    /\ othersDone = FALSE
    /\ frontier = 0
    /\ faults = 0
    /\ crashes = 0

Next ==
    \/ Start
    \/ \E p \in Peers : Connected(p) \/ Disconnected(p)
    \/ ForceAcceptedStep
    \/ \E p \in Peers, h \in Heights, picks \in Picks(1) :
           \/ AncestorsEmpty(p, h, picks)
           \/ \E got \in InvalidParses : AncestorsInvalid(p, h, got, picks)
           \/ GetAncestorsFailed(p, h, picks)
           \/ \E n \in 1..MaxSent, halt \in 0..MaxHeight :
                  n <= h /\ Ancestors(p, h, n, halt, picks)
    \/ Timeout
    \/ OthersBootstrapped
    \/ NewBlock
    \/ \E h \in Heights : Evict(h)
    \/ Crash

\* Fairness the node's environment provides: the handler starts the
\* engine; beacons reconnect (a request to a disconnected peer fails and
\* is sent again to it until it does: GetAncestorsFailed adds the peer
\* back to fetchFrom); once it has the frontier the common bootstrapper
\* calls ForceAccepted; connected peers answer; the timer fires; the other
\* chains of the subnet finish.  For ForceAccepted and Respond, weak
\* fairness is written out with the state predicate that is ENABLED of
\* the step (ForceAccepted can be taken whenever the phase is frontier, an
\* answer whenever a connected peer has a request), which TLC evaluates
\* far faster than ENABLED of the handler's composition.
Fairness ==
    /\ WF_vars(Start)
    /\ \A p \in Peers : WF_vars(Connected(p))
    /\ <>[](phase = "frontier") => []<><<ForceAcceptedStep>>_vars
    /\ <>[](\E o \in outstanding : o.peer \in connected) => []<><<Respond>>_vars
    /\ WF_vars(Timeout)
    /\ WF_vars(OthersBootstrapped)

Spec == Init /\ [][Next]_vars /\ Fairness

-----------------------------------------------------------------------------
(* Properties.                                                             *)

\* Every job waits only on what will come: the parent of each pushed job
\* is accepted, is itself a job, or is a missing ID (config.go: MissingIDs
\* holds every dependency not yet in the queue).  It holds of the queue in
\* memory and of what Blocked committed, so a crash at any point between
\* handlers, or a halt inside process, resumes with no job stranded.
GapsCovered(js, ms) == \A j \in js : j - 1 <= lastAccepted \/ j - 1 \in js \/ j - 1 \in ms

RecoverableQueue == GapsCovered(jobs, missing) /\ GapsCovered(dbJobs, dbMissing)

\* When OnFinished hands the chain to consensus, every block up to the
\* frontier of the last ForceAccepted is accepted and nothing is left
\* fetched but unexecuted or missing.
CaughtUp ==
    phase = "normal" => /\ lastAccepted >= frontier
                        /\ jobs = {} /\ missing = {} /\ dbJobs = {}

\* While fetching, every missing ID is being asked for: fetch, process and
\* the response handlers never leave a missing ID that no outstanding
\* request will bring, as nothing else would ever fetch it again.
MissingRequested ==
    phase = "fetching" => \A h \in missing : \E o \in outstanding : o.blk = h

\* fetch marks every peer it asks unavailable, so fetchFrom empties once
\* each beacon serves a request; markUnavailable then refills it with the
\* preferred peers, busy or not.  The handler fails with "no validators"
\* (fetch, bootstrapper.go:355) only when no beacon is connected, never
\* because every connected beacon already has a request out or was
\* disconnected and reconnected in between.
FailsOnlyWithoutBeacons == phase = "failed" => connected = {}

\* The bootstrapper implements ChainBootstrap: the phases before OnFinished
\* are bootstrapping, except while the timer of checkFinish runs.
AbsStatus ==
    CASE phase \in Active /\ awaiting -> "awaiting"
      [] phase \in Active             -> "bootstrapping"
      [] OTHER                        -> phase

Abs == INSTANCE ChainBootstrap WITH accepted <- lastAccepted, status <- AbsStatus

\* Refinement: every step of the handlers, crashes included, is a step of
\* ChainBootstrap: ExecuteAll accepts only blocks the network accepted and
\* only while bootstrapping, the accepted height never goes back (across
\* a crash too), and checkFinish and Timeout hand the chain to consensus
\* only once the other chains of the subnet are done.
ImplementsChainBootstrap == Abs!Spec

=============================================================================
