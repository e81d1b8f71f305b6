------------------------------ MODULE RunStore ------------------------------
(***************************************************************************)
(* The jobs and job_runs tables, and the store operations that change them *)
(* (internal/store/sqlite.go; postgres.go has the same statements).  Every *)
(* operation here is one database transaction, so it is one atomic step of *)
(* whoever calls it.  The tables are shared by the serve process, one-off  *)
(* `tend run` processes, the HTTP API and the CLI; module Runner says what *)
(* those do between two store calls.                                       *)
(*                                                                         *)
(* Data that no property tells apart is abstracted: a job's timeout and    *)
(* retry count to the longest a run of it may take ("limit", what          *)
(* Executor.maxRunDuration computes), its schedule to the kind of answer   *)
(* NextRun gives, next_run to null / in the future / reached.  started_at  *)
(* is kept, while the run is running, as the time elapsed since it was     *)
(* stamped, saturating where no comparison can tell two ages apart.  Of    *)
(* the events a transaction appends only the terminal ones are counted;    *)
(* rules, streaks and deliveries, which none of these steps reads, belong  *)
(* to alerting.                                                            *)
(***************************************************************************)
EXTENDS Integers

CONSTANTS
    Jobs,       \* job ids (naturals; AUTOINCREMENT, never reused)
    MaxRuns,    \* bound: run ids are 1..MaxRuns (AUTOINCREMENT, never reused)
    Limits,     \* the run time limits a job definition may have
    MaxLimit,   \* the longest of them
    Slack,      \* reapSlack
    Manual,     \* the `tend run` processes, each a claimant of its own
    Serve,      \* the claimant of serve's workers (workerID)
    NoOne,      \* claimed_by IS NULL
    Unborn,     \* job id not allocated yet
    Deleted     \* job row deleted

RunIds == 1..MaxRuns
NoJob == 0

ASSUME JobsAssumption == Jobs \subseteq Nat \ {0}
ASSUME RunsAssumption == MaxRuns \in Nat
ASSUME LimitsAssumption == MaxLimit \in Nat /\ Limits \subseteq 0..MaxLimit
ASSUME SlackAssumption == Slack \in Nat
\* ManualClaimantPrefix keeps the claimants of `tend run` apart from serve's.
ASSUME ClaimantAssumption == Serve \notin Manual /\ NoOne \notin Manual

VARIABLES
    job,        \* [Jobs -> row, Unborn or Deleted]
    status,     \* job_runs.status, plus "none" (id unused) and "deleted"
    jobOf,      \* job_runs.job_id
    claimedBy,  \* job_runs.claimed_by
    elapsed,    \* now - job_runs.started_at, saturating at MaxAge
    fromTick,   \* history: the runs the scheduler enqueued
    terminals   \* number of run.succeeded / run.failed events of each run

jobVars == <<job>>
runVars == <<status, jobOf, claimedBy, elapsed, fromTick, terminals>>
storeVars == <<jobVars, runVars>>

MaxAge == Slack + MaxLimit

(***************************************************************************)
(* A run's status.  "failed" is 'failed' or 'timed_out', which end a run   *)
(* alike, and "reaped" is 'failed' with the reaper's output.               *)
(***************************************************************************)
Live == {"pending", "running"}
Terminal == {"succeeded", "failed", "reaped"}
Statuses == {"none", "deleted"} \cup Live \cup Terminal

Kinds == {"repeat", "once", "none", "unreadable"}
Row == [enabled : BOOLEAN, due : {"null", "later", "now"}, limit : Limits, kind : Kinds]

Exists(j) == job[j] \notin {Unborn, Deleted}

(***************************************************************************)
(* GetJob / GetJobByName succeed: the row is there and every column of it  *)
(* decodes.                                                                *)
(***************************************************************************)
Readable(j) == Exists(j) /\ job[j].kind # "unreadable"

(***************************************************************************)
(* Job.NextRun(now) right after the job fired: a cron or interval job has  *)
(* a next time, an elapsed one-off has none, and for a job without a       *)
(* usable schedule Tick clears it.                                         *)
(***************************************************************************)
\* Not part of the specification: a variant that stores Go's zero time for "no next run".
NextRunStoredAsZero(kind) == IF kind = "repeat" THEN "later" ELSE "zero"

NextRunAfterFire(kind) == IF kind = "repeat" THEN "later" ELSE "null"

(***************************************************************************)
(* mustNextRun at creation or sync: a one-off may lie ahead or behind.     *)
(***************************************************************************)
MustNextRun(kind) ==
    CASE kind = "repeat" -> {"later"}
      [] kind = "once"   -> {"later", "null"}
      [] OTHER           -> {"null"}

HasLiveRun(j) == \E r \in RunIds : jobOf[r] = j /\ status[r] \in Live

(***************************************************************************)
(* DueJobs: enabled, next_run reached, and no pending or running run.      *)
(***************************************************************************)
\* Not part of the specification: DueJobs without its no-overlap guard.
DueJobsIgnoringRuns == {j \in Jobs : Exists(j) /\ job[j].enabled /\ job[j].due = "now"}

\* Not part of the specification: a guard that looks at every run of the job, not the live ones.
DueJobsAnyRun ==
    {j \in Jobs : Exists(j) /\ job[j].enabled /\ job[j].due = "now" /\ \A r \in RunIds : jobOf[r] # j}

DueJobs == {j \in Jobs : /\ Exists(j)
                         /\ job[j].enabled
                         /\ job[j].due = "now"
                         /\ ~HasLiveRun(j)}

(***************************************************************************)
(* UpdateJob writes EVERY mutable column from the caller's copy of the     *)
(* row; a row that is gone is ErrNotFound and nothing is written.          *)
(***************************************************************************)
UpdateJob(j, row) ==
    job' = IF Exists(j) THEN [job EXCEPT ![j] = row] ELSE job

NewRunId(r) == status[r] = "none" /\ \A q \in RunIds : q < r => status[q] # "none"

IdsLeft == \E r \in RunIds : status[r] = "none"

(***************************************************************************)
(* EnqueueRun inserts a pending run.  It does not check that the job       *)
(* exists, and job_runs.job_id is not a foreign key.                       *)
(***************************************************************************)
EnqueueRun(j, byTick) ==
    \E r \in RunIds :
        /\ NewRunId(r)
        /\ status' = [status EXCEPT ![r] = "pending"]
        /\ jobOf' = [jobOf EXCEPT ![r] = j]
        /\ fromTick' = IF byTick THEN fromTick \cup {r} ELSE fromTick
        /\ UNCHANGED <<claimedBy, elapsed, terminals>>

Pending(r) == status[r] = "pending"

(***************************************************************************)
(* ClaimRun: the oldest pending run becomes running in one UPDATE.         *)
(***************************************************************************)
ClaimRun(r, claimant) ==
    /\ Pending(r)
    /\ \A q \in RunIds : Pending(q) => r <= q
    /\ status' = [status EXCEPT ![r] = "running"]
    /\ claimedBy' = [claimedBy EXCEPT ![r] = claimant]
    /\ elapsed' = [elapsed EXCEPT ![r] = 0]
    /\ UNCHANGED <<jobOf, fromTick, terminals>>

(***************************************************************************)
(* What FinishRunAndEmit and ReapStaleRun commit: the terminal status and  *)
(* its one event, only while the run is still 'running'.                   *)
(***************************************************************************)
\* Not part of the specification: the same write without WHERE status = 'running'.
EndRunUnguarded(r, outcome) ==
    /\ status' = [status EXCEPT ![r] = outcome]
    /\ terminals' = [terminals EXCEPT ![r] = @ + 1]
    /\ elapsed' = [elapsed EXCEPT ![r] = 0]
    /\ UNCHANGED <<jobOf, claimedBy, fromTick>>

EndRun(r, outcome) ==
    IF status[r] = "running"
    THEN /\ status' = [status EXCEPT ![r] = outcome]
         /\ terminals' = [terminals EXCEPT ![r] = @ + 1]
         /\ elapsed' = [elapsed EXCEPT ![r] = 0]
         /\ UNCHANGED <<jobOf, claimedBy, fromTick>>
    ELSE UNCHANGED runVars

(***************************************************************************)
(* RequeueOrphanedRuns, at the start of serve: every running run goes back *)
(* to pending, except those a `tend run` process claimed.                  *)
(***************************************************************************)
\* Not part of the specification: a requeue that also takes the runs of `tend run`.
RequeueEverything ==
    LET orphans == {r \in RunIds : status[r] = "running"}
    IN  /\ status' = [r \in RunIds |-> IF r \in orphans THEN "pending" ELSE status[r]]
        /\ claimedBy' = [r \in RunIds |-> IF r \in orphans THEN NoOne ELSE claimedBy[r]]
        /\ elapsed' = [r \in RunIds |-> IF r \in orphans THEN 0 ELSE elapsed[r]]
        /\ UNCHANGED <<jobOf, fromTick, terminals>>

RequeueOrphanedRuns ==
    LET orphans == {r \in RunIds : status[r] = "running" /\ claimedBy[r] \notin Manual}
    IN  /\ status' = [r \in RunIds |-> IF r \in orphans THEN "pending" ELSE status[r]]
        /\ claimedBy' = [r \in RunIds |-> IF r \in orphans THEN NoOne ELSE claimedBy[r]]
        /\ elapsed' = [r \in RunIds |-> IF r \in orphans THEN 0 ELSE elapsed[r]]
        /\ UNCHANGED <<jobOf, fromTick, terminals>>

(***************************************************************************)
(* FailUnreadableJob: a failed run with its run.failed event, and next_run *)
(* cleared on the row if it is still there.                                *)
(***************************************************************************)
FailUnreadableJob(j) ==
    /\ \E r \in RunIds :
        /\ NewRunId(r)
        /\ status' = [status EXCEPT ![r] = "failed"]
        /\ jobOf' = [jobOf EXCEPT ![r] = j]
        /\ claimedBy' = [claimedBy EXCEPT ![r] = Serve]
        /\ terminals' = [terminals EXCEPT ![r] = @ + 1]
        /\ UNCHANGED <<elapsed, fromTick>>
    /\ job' = IF Exists(j) THEN [job EXCEPT ![j].due = "null"] ELSE job

(***************************************************************************)
(* DeleteJob removes the job's runs, whatever their status, and the row.   *)
(***************************************************************************)
DeleteJob(j) ==
    /\ Exists(j)
    /\ job' = [job EXCEPT ![j] = Deleted]
    /\ status' = [r \in RunIds |-> IF jobOf[r] = j THEN "deleted" ELSE status[r]]
    /\ elapsed' = [r \in RunIds |-> IF jobOf[r] = j THEN 0 ELSE elapsed[r]]
    /\ UNCHANGED <<jobOf, claimedBy, fromTick, terminals>>

CreateJob(j, row) ==
    /\ job[j] = Unborn
    /\ job' = [job EXCEPT ![j] = row]

(***************************************************************************)
(* PruneJobRuns: retention deletes terminal runs, never live ones.         *)
(***************************************************************************)
PruneJobRuns(r) ==
    /\ status[r] \in Terminal
    /\ status' = [status EXCEPT ![r] = "deleted"]
    /\ UNCHANGED <<jobOf, claimedBy, elapsed, fromTick, terminals>>

StoreInit ==
    /\ job = [j \in Jobs |-> Unborn]
    /\ status = [r \in RunIds |-> "none"]
    /\ jobOf = [r \in RunIds |-> NoJob]
    /\ claimedBy = [r \in RunIds |-> NoOne]
    /\ elapsed = [r \in RunIds |-> 0]
    /\ fromTick = {}
    /\ terminals = [r \in RunIds |-> 0]

StoreTypeOK ==
    /\ job \in [Jobs -> Row \cup {Unborn, Deleted}]
    /\ status \in [RunIds -> Statuses]
    /\ jobOf \in [RunIds -> Jobs \cup {NoJob}]
    /\ claimedBy \in [RunIds -> Manual \cup {Serve, NoOne}]
    /\ elapsed \in [RunIds -> Nat]
    /\ fromTick \subseteq RunIds
    /\ terminals \in [RunIds -> Nat]
=============================================================================
