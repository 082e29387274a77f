------------------------------- MODULE TxJob -------------------------------
(***************************************************************************)
(* Avalanche bootstrapping of transactions                                 *)
(* (snow/engine/avalanche/bootstrap/tx_job.go): the bootstrapper pushes    *)
(* one job per fetched transaction on the TxBlocked queue, blocked on the  *)
(* dependencies MissingDependencies reports; the queue executes a job once *)
(* every job it waited for has executed, and Execute accepts the           *)
(* transaction in the VM.                                                  *)
(*                                                                         *)
(* The queue (snow/engine/common/queue, not among the sources) is          *)
(* spec-modelled after section 3 (Job) and section 8: it persists jobs and *)
(* their missing IDs with Commit, a restart reloads the committed copy,    *)
(* and an error of Execute is fatal to the chain (the VM's errors are      *)
(* propagated).  The VM keeps transaction statuses in its own database:    *)
(* an Accept survives a crash that loses the queue's uncommitted removal   *)
(* of the job, which then runs again.                                      *)
(*                                                                         *)
(* The transactions' statuses when bootstrapping starts, and at most one   *)
(* fault (a status Unknown or Rejected, or Dependencies, Verify or Accept  *)
(* failing for one transaction), are inputs.                               *)
(***************************************************************************)
EXTENDS Naturals, FiniteSets

CONSTANTS
    Txs,         \* transaction IDs
    Deps,        \* tx -> the transactions it depends on (acyclic)
    MaxCrashes   \* bound: node restarts in a behaviour

VARIABLES
    status,      \* the VM: tx -> "processing", "accepted", "rejected", "unknown"
    fault,       \* input: [tx, kind] of the one faulty transaction, or NoFault
    queued,      \* TxBlocked in memory: the jobs not executed yet
    missing,     \* TxBlocked in memory: job -> the IDs it still waits for
    dbQueued,    \* TxBlocked as last committed
    dbMissing,
    phase,       \* "fetching", "executing" (ExecuteAll), "failed" (the chain stopped)
    accepts,     \* history: tx -> number of tx.Accept calls that succeeded
    crashes

vars == <<status, fault, queued, missing, dbQueued, dbMissing, phase,
          accepts, crashes>>

NoFault == [tx |-> "none", kind |-> "none"]

\* The one transaction whose status or VM call misbehaves.
Faults ==
    {NoFault} \cup
    [tx : Txs, kind : {"unknown", "rejected", "deps", "verify", "accept"}]

Faulty(t, kind) == fault.tx = t /\ fault.kind = kind

-----------------------------------------------------------------------------
(* txJob.                                                                  *)

\* Faulty MissingDependencies: reports every dependency, accepted or not.
Faulty_MissingDependencies(t) == Deps[t]

\* MissingDependencies: the dependencies not yet accepted (Dependencies()
\* failing is the "deps" fault, handled by the caller).
MissingDependencies(t) == {d \in Deps[t] : status[d] # "accepted"}

\* HasMissingDependencies.
HasMissingDependencies(t) == \E d \in Deps[t] : status[d] # "accepted"

\* Faulty Execute: runs Verify and Accept whatever the status.
Faulty_Execute(t) ==
    CASE Faulty(t, "deps") \/ HasMissingDependencies(t) -> "error"
      [] status[t] \in {"unknown", "rejected"}         -> "error"
      [] Faulty(t, "verify") \/ Faulty(t, "accept")      -> "error"
      [] OTHER                                          -> "accepted"

\* Execute: the outcome of txJob.Execute for t: "error", "accepted" (Verify
\* and Accept ran), or "noop" (the transaction was already accepted).
Execute(t) ==
    CASE Faulty(t, "deps") \/ HasMissingDependencies(t) -> "error"
      [] status[t] \in {"unknown", "rejected"}         -> "error"
      [] status[t] = "accepted"                         -> "noop"
      [] Faulty(t, "verify") \/ Faulty(t, "accept")      -> "error"
      [] OTHER                                          -> "accepted"

-----------------------------------------------------------------------------
(* The bootstrapper and the queue (spec-modelled).                         *)

Runnable == {t \in queued : missing[t] = {}}

\* A handler of the bootstrapper pushes the job of a fetched transaction
\* that is not accepted and not queued, and commits the queue before it
\* returns; Dependencies() failing is a fatal error.
Push(t) ==
    /\ phase = "fetching"
    /\ t \notin queued
    /\ status[t] # "accepted"
    /\ IF Faulty(t, "deps")
       THEN /\ phase' = "failed"
            /\ UNCHANGED <<queued, missing, dbQueued, dbMissing>>
       ELSE /\ queued' = queued \cup {t}
            /\ missing' = [missing EXCEPT ![t] = MissingDependencies(t)]
            /\ dbQueued' = queued'
            /\ dbMissing' = missing'
            /\ UNCHANGED phase
    /\ UNCHANGED <<status, fault, accepts, crashes>>

\* checkFinish calls ExecuteAll once a job can run.
StartExecute ==
    /\ phase = "fetching"
    /\ Runnable # {}
    /\ phase' = "executing"
    /\ UNCHANGED <<status, fault, queued, missing, dbQueued, dbMissing, accepts, crashes>>

\* One iteration of ExecuteAll: a job with nothing missing is executed; on
\* success it leaves the queue and every job waiting for it is unblocked,
\* on an error ExecuteAll returns it and the chain stops.
ExecuteNext(t) ==
    /\ phase = "executing"
    /\ t \in Runnable
    /\ LET r == Execute(t)
       IN IF r = "error"
          THEN /\ phase' = "failed"
               /\ UNCHANGED <<status, queued, missing, accepts>>
          ELSE /\ queued' = queued \ {t}
               /\ missing' = [u \in Txs |-> missing[u] \ {t}]
               /\ IF r = "accepted"
                  THEN /\ status' = [status EXCEPT ![t] = "accepted"]
                       /\ accepts' = [accepts EXCEPT ![t] = @ + 1]
                  ELSE UNCHANGED <<status, accepts>>
               /\ UNCHANGED phase
    /\ UNCHANGED <<fault, dbQueued, dbMissing, crashes>>

\* Faulty commit: persists the removed jobs but not the unblocked ones.
Faulty_Commit ==
    /\ dbQueued' = queued
    /\ UNCHANGED dbMissing

\* The queue's Commit.
Commit ==
    /\ dbQueued' = queued
    /\ dbMissing' = missing

\* ExecuteAll commits in batches while it runs ...
BatchCommit ==
    /\ phase = "executing"
    /\ <<dbQueued, dbMissing>> # <<queued, missing>>
    /\ Commit
    /\ UNCHANGED <<status, fault, queued, missing, phase, accepts, crashes>>

\* ... and once no job can run, commits and returns.
FinishExecute ==
    /\ phase = "executing"
    /\ Runnable = {}
    /\ Commit
    /\ phase' = "fetching"
    /\ UNCHANGED <<status, fault, queued, missing, accepts, crashes>>

\* The node restarts: the queue reloads its committed jobs, the VM keeps
\* its statuses, bootstrapping resumes.
Crash ==
    /\ crashes < MaxCrashes
    /\ crashes' = crashes + 1
    /\ queued' = dbQueued
    /\ missing' = dbMissing
    /\ phase' = "fetching"
    /\ UNCHANGED <<status, fault, dbQueued, dbMissing, accepts>>

\* A transaction the VM accepted before has its dependencies accepted.
Consistent(s) == \A t \in Txs : s[t] = "accepted" => \A d \in Deps[t] : s[d] = "accepted"

\* The statuses bootstrapping starts from: the faulty transaction, if its
\* fault is a status, is Unknown or Rejected instead of Processing.
StartStatus(s, f) ==
    IF f.kind \in {"unknown", "rejected"} /\ s[f.tx] = "processing"
    THEN [s EXCEPT ![f.tx] = f.kind]
    ELSE s

Init ==
    /\ fault \in Faults
    /\ \E s \in {s \in [Txs -> {"processing", "accepted"}] : Consistent(s)} :
           status = StartStatus(s, fault)
    /\ queued = {}
    /\ missing = [t \in Txs |-> {}]
    /\ dbQueued = {}
    /\ dbMissing = [t \in Txs |-> {}]
    /\ phase = "fetching"
    /\ accepts = [t \in Txs |-> 0]
    /\ crashes = 0

Next ==
    \/ \E t \in Txs : Push(t) \/ ExecuteNext(t)
    \/ StartExecute \/ BatchCommit \/ FinishExecute
    \/ Crash

\* The bootstrapper pushes every transaction it fetched and runs
\* checkFinish after each handler; ExecuteAll runs every runnable job.
Fairness ==
    /\ \A t \in Txs : WF_vars(Push(t)) /\ WF_vars(ExecuteNext(t))
    /\ WF_vars(StartExecute) /\ WF_vars(FinishExecute)

Spec == Init /\ [][Next]_vars /\ Fairness

-----------------------------------------------------------------------------
(* Properties.                                                             *)

\* Spec 3 (Job): a job runs exactly once.  The queue loses its uncommitted
\* removals in a crash while the VM keeps its Accepts, so a job whose
\* transaction is accepted can run again after a restart; Execute's status
\* switch makes that run a no-op, and Accept is never called twice.
AcceptOnce == \A t \in Txs : accepts[t] <= 1

\* Spec 3: every ID a queued job waits for is still to be resolved, in
\* memory and in the committed queue a restart reloads: it is queued or not
\* accepted.  A job waiting for an accepted transaction whose job is gone
\* would never run.
RecoverableTxQueue ==
    \A q \in {<<queued, missing>>, <<dbQueued, dbMissing>>} :
        \A t \in q[1], d \in Txs :
            d \in q[2][t] => d \in q[1] \/ status[d] # "accepted"

\* Every fetched transaction is eventually accepted, unless the injected
\* fault stops the chain: no job is left blocked across restarts, and a
\* re-run of a job whose transaction is already accepted never fails.
EveryTxAccepted ==
    <>[]((phase = "failed" /\ fault # NoFault) \/ \A t \in Txs : status[t] = "accepted")

=============================================================================
