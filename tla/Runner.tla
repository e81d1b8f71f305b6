------------------------------- MODULE Runner -------------------------------
(***************************************************************************)
(* Everything that works on the run queue (internal/jobs/runner.go and its *)
(* callers), one action per store call, so that any two of these actors    *)
(* may interleave between their calls:                                     *)
(*   - the scheduler of serve (Tick), its workers (claimAndRun, finish)    *)
(*     and its stale-run reaper (ReapOnce);                                *)
(*   - `tend run` processes, which enqueue a run and then drain the queue  *)
(*     under a claimant of their own;                                      *)
(*   - clients: run-now, enable/disable and sync, each of which reads a    *)
(*     job row and writes afterwards;                                      *)
(*   - job creation and deletion, retention, crashes and restarts.         *)
(* Time passes only in Advance, and only as long as every worker that is   *)
(* not stuck keeps the deadlines the executor enforces.                    *)
(***************************************************************************)
EXTENDS RunStore

CONSTANTS
    Workers,      \* serve's draining goroutines
    Clients,      \* concurrent API requests and CLI commands
    ClientOps,    \* what they do: subset of {"run", "enable", "disable", "sync"}
    JobKinds,     \* schedule kinds a definition may have
    Damages,      \* what a hand edit may do to a row: subset of {"none", "unreadable"}
    MaxTries,     \* 1 + Len(finishRetryPauses) attempts to record a result
    LoadDelay,    \* longest time between ClaimRun and inFlight.add
    FinishDelay,  \* longest time finish takes, retries included
    MaxFaults,    \* bound: store calls that fail
    MaxCrashes,   \* bound: crashes of serve and of `tend run` processes
    MayStick      \* bound: the workers whose execution may outlive its limit

Procs == Workers \cup Manual

ASSUME ProcsAssumption == Workers \cap Manual = {}
ASSUME TriesAssumption == MaxTries \in Nat \ {0}
ASSUME DelayAssumption == LoadDelay \in Nat /\ FinishDelay \in Nat /\ LoadDelay + FinishDelay < Slack
ASSUME BoundsAssumption == MaxFaults \in Nat /\ MaxCrashes \in Nat /\ MayStick \subseteq Procs
ASSUME KindsAssumption == JobKinds \subseteq Kinds \ {"unreadable"} /\ Damages \subseteq {"none", "unreadable"}

VARIABLES
    up,                                    \* serve is running
    pc, held, limit, result, tries, stuck, \* claimAndRun, per worker
    tickTodo, tickBad, tickRow, tickJob,   \* Tick: jobs left, unreadable ones, rows read, job to advance
    reapStep, reapTodo, reapSeen, reapRun, reapOurs, \* ReapOnce
    cOp, cJob, cRow,                       \* clients: operation, job, row to write
    wanted,                                \* `tend run`: the job it read
    faults, crashes                        \* bounds spent

procVars == <<pc, held, limit, result, tries, stuck>>
tickVars == <<tickTodo, tickBad, tickRow, tickJob>>
reapVars == <<reapStep, reapTodo, reapSeen, reapRun, reapOurs>>
clientVars == <<cOp, cJob, cRow, wanted>>
vars == <<job, status, jobOf, claimedBy, elapsed, fromTick, terminals, up,
          procVars, tickVars, reapVars, clientVars, faults, crashes>>

NoRun == 0
Executing(p) == pc[p] \in {"load", "exec", "finish"}

\* claimed_by as the process stamps it: workerID, or ManualClaimant()
Claimant(p) == IF p \in Manual THEN p ELSE Serve

\* A store call fails (I/O error, lock timeout); the bound is on how often.
Fault == faults < MaxFaults /\ faults' = faults + 1
NoFault == UNCHANGED faults

-----------------------------------------------------------------------------
(* The scheduler: Tick.                                                    *)

TickIdle == tickTodo = {} /\ tickBad = {} /\ tickJob = NoJob

\* now := clk.Now(); due, err := DueJobs(now)
TickList ==
    /\ up /\ TickIdle
    /\ DueJobs # {}
    /\ tickTodo' = {j \in DueJobs : Readable(j)}
    /\ tickBad' = {j \in DueJobs : ~Readable(j)}
    /\ tickRow' = [j \in Jobs |-> IF j \in DueJobs THEN job[j] ELSE Unborn]
    /\ UNCHANGED <<storeVars, up, procVars, tickJob, reapVars, clientVars, faults, crashes>>

\* for _, job := range due: EnqueueRun, or log and continue
TickEnqueue(j) ==
    /\ up /\ j \in tickTodo /\ tickJob = NoJob
    /\ \A k \in tickTodo : j <= k
    /\ tickTodo' = tickTodo \ {j}
    /\ \/ EnqueueRun(j, TRUE) /\ tickJob' = j /\ UNCHANGED tickRow /\ NoFault
       \/ /\ Fault
          /\ tickRow' = [tickRow EXCEPT ![j] = Unborn]
          /\ UNCHANGED <<runVars, tickJob>>
    /\ UNCHANGED <<jobVars, up, procVars, tickBad, reapVars, clientVars, crashes>>

\* job.NextRunAt = next (cleared when NextRun fails); UpdateJob(job), which
\* writes back every column as it was when DueJobs read it
TickAdvance ==
    /\ up /\ tickJob # NoJob
    /\ LET row == tickRow[tickJob]
       IN  \/ /\ UpdateJob(tickJob, [row EXCEPT !.due = NextRunAfterFire(row.kind)])
              /\ NoFault
           \/ Fault /\ UNCHANGED job
    /\ tickJob' = NoJob
    /\ tickRow' = [tickRow EXCEPT ![tickJob] = Unborn]
    /\ UNCHANGED <<runVars, up, procVars, tickTodo, tickBad, reapVars, clientVars, crashes>>

\* for _, u := range unreadable.Jobs: FailUnreadableJob
TickUnreadable(j) ==
    /\ up /\ tickTodo = {} /\ tickJob = NoJob
    /\ j \in tickBad /\ \A k \in tickBad : j <= k
    /\ tickBad' = tickBad \ {j}
    /\ tickRow' = [tickRow EXCEPT ![j] = Unborn]
    /\ \/ FailUnreadableJob(j) /\ NoFault
       \/ Fault /\ UNCHANGED storeVars
    /\ UNCHANGED <<up, procVars, tickTodo, tickJob, reapVars, clientVars, crashes>>

-----------------------------------------------------------------------------
(* The workers: claimAndRun and finish.  A `tend run` process drains with  *)
(* the same code (DrainOnce) and stops at its first error.                 *)

Return(p, ok) ==
    /\ pc' = [pc EXCEPT ![p] = IF p \in Manual /\ ~ok THEN "done" ELSE "idle"]
    /\ held' = [held EXCEPT ![p] = NoRun]
    /\ limit' = [limit EXCEPT ![p] = 0]
    /\ result' = [result EXCEPT ![p] = "none"]
    /\ tries' = [tries EXCEPT ![p] = 0]
    /\ stuck' = [stuck EXCEPT ![p] = FALSE]

Claim(p) ==
    /\ pc[p] = "idle"
    /\ \E r \in RunIds :
        /\ ClaimRun(r, Claimant(p))
        /\ held' = [held EXCEPT ![p] = r]
    /\ pc' = [pc EXCEPT ![p] = "load"]
    /\ UNCHANGED <<jobVars, up, limit, result, tries, stuck, tickVars, reapVars,
                   clientVars, faults, crashes>>

\* DrainOnce of a `tend run` process returns: the queue is empty, or the
\* claim failed.
DrainEnd(m) ==
    /\ pc[m] = "idle"
    /\ \/ (\A r \in RunIds : ~Pending(r)) /\ NoFault
       \/ Fault
    /\ pc' = [pc EXCEPT ![m] = "done"]
    /\ UNCHANGED <<storeVars, up, held, limit, result, tries, stuck, tickVars,
                   reapVars, clientVars, crashes>>

\* GetJob, then inFlight.add(run, maxRunDuration(job)); on an error the run
\* is left 'running'.
Load(p) ==
    /\ pc[p] = "load"
    /\ LET j == jobOf[held[p]]
       IN  \/ /\ j \in Jobs /\ Readable(j) /\ NoFault
              /\ pc' = [pc EXCEPT ![p] = "exec"]
              /\ limit' = [limit EXCEPT ![p] = job[j].limit]
              /\ UNCHANGED <<held, result, tries, stuck>>
           \/ /\ ~(j \in Jobs /\ Readable(j)) /\ NoFault
              /\ Return(p, FALSE)
           \/ Fault /\ Return(p, FALSE)
    /\ UNCHANGED <<storeVars, up, tickVars, reapVars, clientVars, crashes>>

\* resolveEnv and exec.run end: a result is in the worker's memory.
ExecEnd(p) ==
    /\ pc[p] = "exec"
    /\ pc' = [pc EXCEPT ![p] = "finish"]
    /\ \E res \in {"succeeded", "failed"} : result' = [result EXCEPT ![p] = res]
    /\ tries' = [tries EXCEPT ![p] = 1]
    /\ UNCHANGED <<storeVars, up, held, limit, stuck, tickVars, reapVars,
                   clientVars, faults, crashes>>

\* The execution outlives the limit the executor was to enforce.
Stick(p) ==
    /\ p \in MayStick /\ pc[p] = "exec" /\ ~stuck[p]
    /\ stuck' = [stuck EXCEPT ![p] = TRUE]
    /\ UNCHANGED <<storeVars, up, pc, held, limit, result, tries, tickVars,
                   reapVars, clientVars, faults, crashes>>

\* One attempt of finish at FinishRunAndEmit.  A failed attempt may have been
\* committed all the same; it is retried until MaxTries, unless the run turns
\* out to have ended (drop the result) or to be gone (an error).
Finish(p) ==
    /\ pc[p] = "finish"
    /\ LET r == held[p]
       IN  \/ /\ status[r] = "running" /\ NoFault
              /\ EndRun(r, result[p])
              /\ Return(p, TRUE)
           \/ /\ status[r] \notin {"running", "deleted"} /\ NoFault
              /\ Return(p, TRUE) /\ UNCHANGED runVars
           \/ /\ status[r] = "deleted" /\ NoFault
              /\ Return(p, FALSE) /\ UNCHANGED runVars
           \/ /\ Fault
              /\ UNCHANGED runVars \/ EndRun(r, result[p])
              /\ IF tries[p] < MaxTries
                 THEN /\ tries' = [tries EXCEPT ![p] = @ + 1]
                      /\ UNCHANGED <<pc, held, limit, result, stuck>>
                 ELSE Return(p, FALSE)
    /\ UNCHANGED <<jobVars, up, tickVars, reapVars, clientVars, crashes>>

-----------------------------------------------------------------------------
(* The reaper: ReapOnce.                                                   *)

WithinWindow(age, lim) == age < Slack \/ age - Slack < lim

\* inFlight.limit: the run is registered between Load and the return of finish.
InFlight(r) == {w \in Workers : pc[w] \in {"exec", "finish"} /\ held[w] = r}

ReapNext(todo) ==
    /\ reapTodo' = todo
    /\ reapStep' = IF todo = {} THEN "idle" ELSE "look"
    /\ reapSeen' = [r \in RunIds |-> IF r \in todo THEN reapSeen[r] ELSE 0]
    /\ reapRun' = NoRun
    /\ reapOurs' = FALSE

ReapGoOn == ReapNext(reapTodo \ {reapRun})

\* ListRunningRuns; now := clk.Now()
ReapList ==
    /\ up /\ reapStep = "idle"
    /\ \E r \in RunIds : status[r] = "running"
    /\ reapTodo' = {r \in RunIds : status[r] = "running"}
    /\ reapSeen' = [r \in RunIds |-> IF status[r] = "running" THEN elapsed[r] ELSE 0]
    /\ reapStep' = "look"
    /\ UNCHANGED <<storeVars, up, procVars, tickVars, reapRun, reapOurs, clientVars, faults, crashes>>

\* limit, ours := inFlight.limit(run); skip one of ours inside its window
\* Not part of the specification: a reaper that only knows the job's current limit.
ReapLookForgetsInFlight(r) ==
    /\ up /\ reapStep = "look" /\ r \in reapTodo /\ \A q \in reapTodo : r <= q
    /\ reapStep' = "load" /\ reapRun' = r /\ reapOurs' = FALSE
    /\ UNCHANGED <<reapTodo, reapSeen>>
    /\ UNCHANGED <<storeVars, up, procVars, tickVars, clientVars, faults, crashes>>

ReapLook(r) ==
    /\ up /\ reapStep = "look" /\ r \in reapTodo /\ \A q \in reapTodo : r <= q
    /\ IF \E w \in InFlight(r) : WithinWindow(reapSeen[r], limit[w])
       THEN ReapNext(reapTodo \ {r})
       ELSE /\ reapStep' = "load" /\ reapRun' = r /\ reapOurs' = (InFlight(r) # {})
            /\ UNCHANGED <<reapTodo, reapSeen>>
    /\ UNCHANGED <<storeVars, up, procVars, tickVars, clientVars, faults, crashes>>

\* Not part of the specification: a reaper that leaves `tend run` runs alone for good.
ReapLoadSkipsManual ==
    /\ up /\ reapStep = "load"
    /\ LET j == jobOf[reapRun]
       IN  IF \/ claimedBy[reapRun] \in Manual
              \/ ~(j \in Jobs /\ Readable(j))
              \/ ~reapOurs /\ WithinWindow(reapSeen[reapRun], job[j].limit)
           THEN ReapGoOn
           ELSE reapStep' = "fail" /\ UNCHANGED <<reapTodo, reapSeen, reapRun, reapOurs>>
    /\ UNCHANGED <<storeVars, up, procVars, tickVars, clientVars, faults, crashes>>

\* GetJob (an error skips the run), and the current definition's window for a
\* run that is not ours
ReapLoad ==
    /\ up /\ reapStep = "load"
    /\ LET j == jobOf[reapRun]
       IN  \/ /\ j \in Jobs /\ Readable(j) /\ NoFault
              /\ IF ~reapOurs /\ WithinWindow(reapSeen[reapRun], job[j].limit)
                 THEN ReapGoOn
                 ELSE reapStep' = "fail" /\ UNCHANGED <<reapTodo, reapSeen, reapRun, reapOurs>>
           \/ ~(j \in Jobs /\ Readable(j)) /\ NoFault /\ ReapGoOn
           \/ Fault /\ ReapGoOn
    /\ UNCHANGED <<storeVars, up, procVars, tickVars, clientVars, crashes>>

\* ReapStaleRun; an error may come after the commit
ReapFail ==
    /\ up /\ reapStep = "fail"
    /\ \/ EndRun(reapRun, "reaped") /\ NoFault
       \/ Fault /\ (UNCHANGED runVars \/ EndRun(reapRun, "reaped"))
    /\ ReapGoOn
    /\ UNCHANGED <<jobVars, up, procVars, tickVars, clientVars, crashes>>

-----------------------------------------------------------------------------
(* serve starts and crashes; `tend run` processes.                         *)

\* Start: RequeueOrphanedRuns, then the ticker, the reaper and the workers
Start ==
    /\ ~up /\ up' = TRUE
    /\ RequeueOrphanedRuns
    /\ pc' = [p \in Procs |-> IF p \in Workers THEN "idle" ELSE pc[p]]
    /\ UNCHANGED <<jobVars, held, limit, result, tries, stuck, tickVars, reapVars,
                   clientVars, faults, crashes>>

\* serve dies, or is shut down: what its goroutines held in memory is lost
Crash ==
    /\ up /\ up' = FALSE
    /\ crashes < MaxCrashes /\ crashes' = crashes + 1
    /\ pc' = [p \in Procs |-> IF p \in Workers THEN "off" ELSE pc[p]]
    /\ held' = [p \in Procs |-> IF p \in Workers THEN NoRun ELSE held[p]]
    /\ limit' = [p \in Procs |-> IF p \in Workers THEN 0 ELSE limit[p]]
    /\ result' = [p \in Procs |-> IF p \in Workers THEN "none" ELSE result[p]]
    /\ tries' = [p \in Procs |-> IF p \in Workers THEN 0 ELSE tries[p]]
    /\ stuck' = [p \in Procs |-> IF p \in Workers THEN FALSE ELSE stuck[p]]
    /\ tickTodo' = {} /\ tickBad' = {} /\ tickJob' = NoJob
    /\ tickRow' = [j \in Jobs |-> Unborn]
    /\ reapStep' = "idle" /\ reapTodo' = {} /\ reapRun' = NoRun /\ reapOurs' = FALSE
    /\ reapSeen' = [r \in RunIds |-> 0]
    /\ UNCHANGED <<storeVars, clientVars, faults>>

\* `tend run <name>`: GetJobByName ...
ManualGet(m, j) ==
    /\ pc[m] = "off"
    /\ Readable(j)
    /\ pc' = [pc EXCEPT ![m] = "enqueue"]
    /\ wanted' = [wanted EXCEPT ![m] = j]
    /\ UNCHANGED <<storeVars, up, held, limit, result, tries, stuck, tickVars,
                   reapVars, cOp, cJob, cRow, faults, crashes>>

\* ... EnqueueRun, and DrainOnce from here on
ManualEnqueue(m) ==
    /\ pc[m] = "enqueue"
    /\ EnqueueRun(wanted[m], FALSE)
    /\ pc' = [pc EXCEPT ![m] = "idle"]
    /\ wanted' = [wanted EXCEPT ![m] = NoJob]
    /\ UNCHANGED <<jobVars, up, held, limit, result, tries, stuck, tickVars,
                   reapVars, cOp, cJob, cRow, faults, crashes>>

\* `tend run` is killed anywhere between its first and its last store call
ManualKilled(m) ==
    /\ pc[m] \notin {"off", "done"}
    /\ crashes < MaxCrashes /\ crashes' = crashes + 1
    /\ Return(m, FALSE)
    /\ wanted' = [wanted EXCEPT ![m] = NoJob]
    /\ UNCHANGED <<storeVars, up, tickVars, reapVars, cOp, cJob, cRow, faults>>

-----------------------------------------------------------------------------
(* Clients: a request or command reads the job, then writes.               *)

\* The row the client will write: the one it read with Enabled flipped
\* (setJobEnabledCore, cmdJobToggle, the prune pass of sync), or the config
\* file's definition with the next run kept or recomputed (reconcileJobs).
RowsToWrite(op, row) ==
    CASE op = "enable"  -> {[row EXCEPT !.enabled = TRUE]}
      [] op = "disable" -> {[row EXCEPT !.enabled = FALSE]}
      [] op = "sync"    ->
            {new \in [enabled : BOOLEAN, due : {"null", "later", "now"}, limit : Limits, kind : JobKinds] :
                \/ new.due \in MustNextRun(new.kind)
                \/ row.kind = new.kind /\ row.due # "null" /\ new.due = row.due}
      [] OTHER          -> {row}

\* GetJob or GetJobByName; only sync goes on with a row it cannot read
ClientRead(c, j, op) ==
    /\ cOp[c] = "idle"
    /\ IF op = "sync" THEN Exists(j) ELSE Readable(j)
    /\ \E row \in RowsToWrite(op, job[j]) : cRow' = [cRow EXCEPT ![c] = row]
    /\ cOp' = [cOp EXCEPT ![c] = op]
    /\ cJob' = [cJob EXCEPT ![c] = j]
    /\ UNCHANGED <<storeVars, up, procVars, tickVars, reapVars, wanted, faults, crashes>>

\* EnqueueRun for run-now, UpdateJob for the others
ClientWrite(c) ==
    /\ cOp[c] # "idle"
    /\ \/ cOp[c] = "run" /\ EnqueueRun(cJob[c], FALSE) /\ UNCHANGED jobVars /\ NoFault
       \/ cOp[c] # "run" /\ UpdateJob(cJob[c], cRow[c]) /\ UNCHANGED runVars /\ NoFault
       \/ Fault /\ UNCHANGED storeVars
    /\ cOp' = [cOp EXCEPT ![c] = "idle"]
    /\ cJob' = [cJob EXCEPT ![c] = NoJob]
    /\ cRow' = [cRow EXCEPT ![c] = Unborn]
    /\ UNCHANGED <<up, procVars, tickVars, reapVars, wanted, crashes>>

-----------------------------------------------------------------------------
(* The rest of the world.                                                  *)

notStore == <<up, procVars, tickVars, reapVars, clientVars, faults, crashes>>

\* tend sync or tend job add: a new job, its first run computed
Create(j) ==
    /\ \E k \in JobKinds, l \in Limits : \E d \in MustNextRun(k) :
        CreateJob(j, [enabled |-> TRUE, due |-> d, limit |-> l, kind |-> k])
    /\ UNCHANGED <<runVars, notStore>>

Delete(j) == DeleteJob(j) /\ UNCHANGED notStore

Prune(r) == PruneJobRuns(r) /\ UNCHANGED <<jobVars, notStore>>

\* a hand edit of the database leaves a schedule or a row that does not parse
Damage(j) ==
    /\ Exists(j)
    /\ \E k \in Damages : k # job[j].kind /\ job' = [job EXCEPT ![j].kind = k]
    /\ UNCHANGED <<runVars, notStore>>

\* the clock reaches a job's next_run
BecomeDue(j) ==
    /\ Exists(j) /\ job[j].due = "later"
    /\ job' = [job EXCEPT ![j].due = "now"]
    /\ UNCHANGED <<runVars, notStore>>

\* How long after its claim a worker that is not stuck may be at its step.
Deadline(p) ==
    CASE pc[p] = "load" -> LoadDelay
      [] pc[p] = "exec" -> LoadDelay + limit[p]
      [] OTHER          -> LoadDelay + limit[p] + FinishDelay

OnTime(p) ==
    Executing(p) /\ ~stuck[p] /\ status[held[p]] = "running" => elapsed[held[p]] < Deadline(p)

Advance ==
    /\ \A p \in Procs : OnTime(p)
    /\ \E r \in RunIds : status[r] = "running" /\ elapsed[r] < MaxAge
    /\ elapsed' = [r \in RunIds |-> IF status[r] = "running" /\ elapsed[r] < MaxAge
                                    THEN elapsed[r] + 1 ELSE elapsed[r]]
    /\ UNCHANGED <<jobVars, status, jobOf, claimedBy, fromTick, terminals, notStore>>

-----------------------------------------------------------------------------
Init ==
    /\ StoreInit
    /\ up = FALSE
    /\ pc = [p \in Procs |-> "off"]
    /\ held = [p \in Procs |-> NoRun]
    /\ limit = [p \in Procs |-> 0]
    /\ result = [p \in Procs |-> "none"]
    /\ tries = [p \in Procs |-> 0]
    /\ stuck = [p \in Procs |-> FALSE]
    /\ tickTodo = {} /\ tickBad = {} /\ tickJob = NoJob
    /\ tickRow = [j \in Jobs |-> Unborn]
    /\ reapStep = "idle" /\ reapTodo = {} /\ reapRun = NoRun /\ reapOurs = FALSE
    /\ reapSeen = [r \in RunIds |-> 0]
    /\ cOp = [c \in Clients |-> "idle"]
    /\ cJob = [c \in Clients |-> NoJob]
    /\ cRow = [c \in Clients |-> Unborn]
    /\ wanted = [m \in Manual |-> NoJob]
    /\ faults = 0 /\ crashes = 0

Tick == TickList \/ (\E j \in Jobs : TickEnqueue(j) \/ TickUnreadable(j)) \/ TickAdvance
ClaimAndRun(p) == Claim(p) \/ Load(p) \/ ExecEnd(p) \/ Finish(p)
ReapOnce == ReapList \/ (\E r \in RunIds : ReapLook(r)) \/ ReapLoad \/ ReapFail

Next ==
    \/ Tick
    \/ \E p \in Procs : ClaimAndRun(p) \/ Stick(p)
    \/ ReapOnce
    \/ Start \/ Crash
    \/ \E m \in Manual :
        \/ \E j \in Jobs : ManualGet(m, j)
        \/ ManualEnqueue(m) \/ DrainEnd(m) \/ ManualKilled(m)
    \/ \E c \in Clients :
        \/ \E j \in Jobs, op \in ClientOps : ClientRead(c, j, op)
        \/ ClientWrite(c)
    \/ \E j \in Jobs : Create(j) \/ Delete(j) \/ Damage(j) \/ BecomeDue(j)
    \/ \E r \in RunIds : Prune(r)
    \/ Advance

Spec == Init /\ [][Next]_vars

(***************************************************************************)
(* serve's loops never end while it is up (Start), a supervisor restarts   *)
(* it, store calls return, and time goes on.  Nothing is assumed of        *)
(* clients, of `tend run` starting, of crashes or of a stuck execution.    *)
(***************************************************************************)
Fairness ==
    /\ WF_vars(Tick) /\ WF_vars(ReapOnce) /\ WF_vars(Start) /\ WF_vars(Advance)
    /\ \A p \in Procs : /\ WF_vars(Claim(p) \/ Load(p) \/ Finish(p))
                        /\ WF_vars(~stuck[p] /\ ExecEnd(p))
    /\ \A j \in Jobs : WF_vars(BecomeDue(j))

FairSpec == Spec /\ Fairness

-----------------------------------------------------------------------------
(* Properties.                                                             *)

ProcTypeOK ==
    /\ pc \in [Procs -> {"off", "enqueue", "idle", "load", "exec", "finish", "done"}]
    /\ held \in [Procs -> RunIds \cup {NoRun}]
    /\ limit \in [Procs -> Nat]
    /\ result \in [Procs -> {"none", "succeeded", "failed"}]
    /\ tries \in [Procs -> Nat]
    /\ stuck \in [Procs -> BOOLEAN]

TickTypeOK ==
    /\ tickTodo \subseteq Jobs /\ tickBad \subseteq Jobs
    /\ tickJob \in Jobs \cup {NoJob}
    /\ tickRow \in [Jobs -> Row \cup {Unborn}]

ReapTypeOK ==
    /\ reapStep \in {"idle", "look", "load", "fail"}
    /\ reapTodo \subseteq RunIds
    /\ reapRun \in RunIds \cup {NoRun}
    /\ reapOurs \in BOOLEAN
    /\ reapSeen \in [RunIds -> Nat]

ClientTypeOK ==
    /\ cOp \in [Clients -> ClientOps \cup {"idle"}]
    /\ cJob \in [Clients -> Jobs \cup {NoJob}]
    /\ cRow \in [Clients -> Row \cup {Unborn}]
    /\ wanted \in [Manual -> Jobs \cup {NoJob}]

\* Every variable has its type.
TypeOK ==
    /\ StoreTypeOK /\ ProcTypeOK /\ TickTypeOK /\ ReapTypeOK /\ ClientTypeOK
    /\ up \in BOOLEAN /\ faults \in Nat /\ crashes \in Nat

\* runner.go finish: "the run has exactly one terminal state and one terminal
\* event".  A run that ended has one run.succeeded or run.failed event, a run
\* that has not has none, and no sequence of late workers, retried finishes,
\* ambiguous commits, reaps and requeues ever yields a second one.
OneTerminalEvent ==
    \A r \in RunIds :
        /\ status[r] \in Terminal => terminals[r] = 1
        /\ status[r] \in Live \cup {"none"} => terminals[r] = 0
        /\ status[r] = "deleted" => terminals[r] <= 1

\* README, Stale runs: "A run that a `tend run` command is executing is left
\* to it, so starting the server meanwhile never runs that job twice".  No run
\* is in the hands of two processes, across crashes, requeues and reaps.
ExecutedByOne ==
    \A p, q \in Procs : Executing(p) /\ Executing(q) /\ p # q => held[p] # held[q]

\* inFlight: a limit lowered while a run is in flight must not have the reaper
\* fail a healthy run.  The run of a serve worker that keeps its deadlines is
\* never failed by the reaper, whatever happens to the job row.
HealthyNotReaped ==
    \A w \in Workers : Executing(w) /\ ~stuck[w] => status[held[w]] # "reaped"

\* The runner implements the lifecycle a run is promised (module RunLifecycle).
Lifecycle == INSTANCE RunLifecycle WITH
    Runs <- RunIds,
    Takers <- Procs,
    state <- [r \in RunIds |-> IF status[r] \in Terminal THEN "ended" ELSE status[r]],
    events <- terminals,
    takers <- [r \in RunIds |-> {p \in Procs : Executing(p) /\ held[p] = r}]

\* Every step of the scheduler, the workers, the reaper, a restart or a client
\* is a step of the lifecycle: in particular a run is only ever handed out
\* again when nobody has it, and a run that ended never runs again.
ImplementsLifecycle == Lifecycle!LSpec

\* The no-overlap guard of DueJobs: the scheduler, however its pass interleaves
\* with everything else, never has two runs of one job pending or running.
SchedulerNoOverlap ==
    \A r, q \in fromTick :
        status[r] \in Live /\ status[q] \in Live /\ jobOf[r] = jobOf[q] => r = q

\* Start and claimAndRun: a run left 'running' by a worker that is gone is
\* recovered by a restart or by the reaper, as long as its job can be read.
OrphanRecovered ==
    \A r \in RunIds, j \in Jobs :
        status[r] = "running" /\ jobOf[r] = j /\ Readable(j)
            ~> status[r] # "running" \/ ~Readable(j)

Due(j) == Readable(j) /\ job[j].enabled /\ job[j].due = "now"

\* reapSlack: an orphan never blocks its job's no-overlap guard for good.  A
\* due job is fired and its schedule advanced (unless the run ids of the model
\* are used up, or the job is disabled or deleted first).
DueJobFires == \A j \in Jobs : Due(j) ~> ~Due(j) \/ ~IdsLeft

-----------------------------------------------------------------------------
(* The inductive invariants behind the safety properties (RunnerProofs).   *)

\* The rows kept in memory between a read and a write are rows.
CopiesInv ==
    /\ \A j \in tickTodo : tickRow[j] \in Row
    /\ tickJob # NoJob => tickRow[tickJob] \in Row
    /\ tickJob \notin tickTodo
    /\ \A c \in Clients : cOp[c] # "idle" => cRow[c] \in Row

\* A worker's run was claimed under its name and is running until it ends or
\* goes; serve's workers and its reaper are gone when serve is down.
HeldInv ==
    /\ \A p \in Procs : Executing(p) =>
        /\ held[p] \in RunIds
        /\ status[held[p]] \notin {"none", "pending"}
        /\ status[held[p]] = "running" => claimedBy[held[p]] = Claimant(p)
        /\ pc[p] = "finish" => result[p] \in {"succeeded", "failed"}
    /\ ~up => \A w \in Workers : pc[w] = "off"

\* While the scheduler is about to enqueue a run of a job, none of its own runs
\* of that job is live; an unused id belongs to nobody.
TickInv ==
    /\ \A j \in tickTodo, r \in fromTick : status[r] \in Live => jobOf[r] # j
    /\ \A r \in RunIds : status[r] = "none" => r \notin fromTick /\ jobOf[r] = NoJob

Healthy(w, r) ==
    Executing(w) /\ ~stuck[w] /\ held[w] = r /\ status[r] = "running"

\* A healthy worker is inside its deadline, the reaper's view of a run is not
\* older than the run, and the reaper is not about to fail a healthy one.
ReapInv ==
    /\ \A w \in Workers, r \in RunIds : Healthy(w, r) => elapsed[r] <= Deadline(w)
    /\ \A r \in reapTodo :
        /\ status[r] \notin {"none", "pending"}
        /\ status[r] = "running" => reapSeen[r] <= elapsed[r]
    /\ reapStep \in {"load", "fail"} => reapRun \in reapTodo
    /\ \A w \in Workers : reapStep = "load" /\ Healthy(w, reapRun) =>
            ~reapOurs /\ reapSeen[reapRun] < Slack
    /\ \A w \in Workers : reapStep = "fail" => ~Healthy(w, reapRun)
    /\ ~up => reapTodo = {} /\ reapStep = "idle"

-----------------------------------------------------------------------------
(* What the code's comments say and the code does not do.                  *)

\* claimAndRun's recovery note, as it is written: every run left in 'running'
\* is recovered at the next restart or by the reaper.
ClaimedRunRecovered == \A r \in RunIds : status[r] = "running" ~> status[r] # "running"

\* Tick's contract: "The runner only ADVANCES NextRunAt after a fire".  Every
\* other column of the row is left as it is.
TickOnlyAdvances ==
    [][TickAdvance => \A j \in Jobs : Exists(j) =>
            job'[j] = [job[j] EXCEPT !.due = job'[j].due]]_vars

\* Tick, of a due job that cannot be read: "it is taken off the schedule until
\* tend sync repairs it".  A job repaired meanwhile keeps its next run.
RepairedStaysScheduled ==
    [][\A j \in Jobs : TickUnreadable(j) /\ Readable(j) => job'[j].due = job[j].due]_vars
=============================================================================
