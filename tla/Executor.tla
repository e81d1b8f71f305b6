------------------------------- MODULE Executor -------------------------------
(***************************************************************************)
(* One run of a job by the executor (internal/jobs/executor.go, drill.go): *)
(* the retry loop, the per-attempt timeout, the child process with its     *)
(* kill and its grace period, the steps of a restore drill and their       *)
(* scratch directory, and the time limit the runner's reaper judges the    *)
(* run by.                                                                 *)
(*                                                                         *)
(* Time is discrete.  It passes while a child, a server or a pause is      *)
(* waited for; in the executor's own code it passes at most MaxLag units,  *)
(* counted by lag (the runner allows for it with reapSlack).  Cancelling   *)
(* the run's context models the shutdown of tend serve.  Output is the     *)
(* subject of module Capture.                                              *)
(***************************************************************************)
EXTENDS Integers

CONSTANTS
    Types,           \* job types explored, of {"shell", "http", "probe", "drill"}
    TimeoutSeconds,  \* values of timeout_seconds, enormous ones too
    Retries,         \* values of max_retries
    MaxChecks,       \* a drill has up to this many checks
    MaxDurations,    \* values of max_duration_seconds
    Second,          \* units of time in a second
    DefaultTimeout,  \* the timeout of a job that sets none
    KillGrace,       \* killGraceDelay
    CleanupTimeout,  \* drillCleanupTimeout
    Forever,         \* math.MaxInt64, scaled down: the longest Duration
    MaxLag           \* bound on the time spent in the executor's own code

ASSUME ExecutorAssumption ==
    /\ Types \subseteq {"shell", "http", "probe", "drill"}
    /\ TimeoutSeconds \subseteq Nat /\ Retries \subseteq Nat /\ MaxDurations \subseteq Nat
    /\ {MaxChecks, KillGrace, MaxLag} \subseteq Nat
    /\ {Second, DefaultTimeout, CleanupTimeout, Forever} \subseteq Nat \ {0}
    /\ DefaultTimeout + 2 * KillGrace + CleanupTimeout < Forever

VARIABLES
    job,     \* the job being run
    now,     \* time since the run was claimed
    lag,     \* of which spent in the executor's own code
    parent,  \* the run's context was cancelled
    ctx,     \* context of the attempt, or of the cleanup: "live", "deadline", "canceled"
    deadline,
    phase,   \* where the executor is
    attempt,
    until,   \* when the wait in progress is cut off (WaitDelay), or the pause ends
    child,   \* the process of the step: "none", "alive", "exited", "killed"
    code,    \* its exit status, or the response's verdict
    last,    \* last: status and exit code of the attempt
    drill    \* what the drill in progress has done

vars == <<job, now, lag, parent, ctx, deadline, phase, attempt, until, child,
          code, last, drill>>

-----------------------------------------------------------------------------
(* Limits *)

Statuses == {"none", "succeeded", "failed", "timed_out"}
Least(a, b) == IF a <= b THEN a ELSE b

(* seconds: a number of seconds as a Duration, saturating. *)
Seconds(n) ==
    LET limit == Forever \div Second
    IN IF n > limit THEN Forever ELSE IF n < -limit THEN -Forever ELSE n * Second

(* The timeout of one attempt; runOnce and maxRunDuration share the rule. *)
Timeout(j) == LET t == Seconds(j.timeout) IN IF t <= 0 THEN DefaultTimeout ELSE t

MaxAttempts(j) == IF j.retries + 1 < 1 THEN 1 ELSE j.retries + 1

(* defaultBackoff: i * i seconds after attempt i. *)
Backoff(i) == IF i < 1 THEN 0 ELSE i * i * Second

(* What the machine makes of a sum of Durations. *)
Wrap(d) == ((d + Forever + 1) % (2 * (Forever + 1))) - (Forever + 1)

(* Not part of the specification: the limit without the time a drill's       *)
(* cleanup takes after its attempt's timeout.                                *)
MaxRunDurationWithoutCleanup(j) ==
    LET perAttempt == Wrap(Timeout(j) + KillGrace)
        total[n \in Nat] ==
            IF n <= 1 THEN perAttempt
            ELSE IF total[n - 1] = Forever \/ total[n - 1] > Forever - Backoff(n - 1) - perAttempt
                 THEN Forever
                 ELSE Wrap(total[n - 1] + Backoff(n - 1) + perAttempt)
    IN IF Timeout(j) > Forever - KillGrace THEN Forever ELSE total[MaxAttempts(j)]

(* maxRunDuration: the longest a run of j can legitimately take. *)
MaxRunDuration(j) ==
    LET grace == KillGrace + (IF j.type = "drill" THEN CleanupTimeout + KillGrace ELSE 0)
        perAttempt == Wrap(Timeout(j) + grace)
        total[n \in Nat] ==
            IF n <= 1 THEN perAttempt
            ELSE IF total[n - 1] = Forever \/ total[n - 1] > Forever - Backoff(n - 1) - perAttempt
                 THEN Forever
                 ELSE Wrap(total[n - 1] + Backoff(n - 1) + perAttempt)
    IN IF Timeout(j) > Forever - grace THEN Forever ELSE total[MaxAttempts(j)]

-----------------------------------------------------------------------------
(* Jobs, and the attempt's context *)

(* Rows from before input validation may hold a negative timeout or retries. *)
JobSet ==
    {j \in [type : Types, timeout : TimeoutSeconds \cup {-1}, retries : Retries \cup {-1},
            checks : 0..MaxChecks, cleanup : BOOLEAN, maxDuration : MaxDurations] :
        j.type # "drill" => j.checks = 0 /\ ~j.cleanup /\ j.maxDuration = 0}

NoDrill == [scratch |-> "none", restore |-> "none", took |-> 0, step |-> 0,
            passed |-> 0, skipped |-> 0, cleanups |-> 0, began |-> 0,
            status |-> "succeeded", exit |-> 0]

Fresh ==
    /\ now = 0 /\ lag = 0 /\ parent = FALSE
    /\ ctx = "live" /\ deadline = 0 /\ attempt = 1 /\ until = 0
    /\ child = "none" /\ code = 0
    /\ last = [status |-> "none", exit |-> 0]
    /\ drill = NoDrill

Init == job \in JobSet /\ phase = "ready" /\ Fresh

(* Not a state of a run: an executor with nothing to do. *)
Ended == job = (CHOOSE j \in JobSet : TRUE) /\ phase = "done" /\ Fresh

(* Phases in which the executor waits; in the others its own code runs. *)
Waiting == {"step", "request", "body", "probe", "pause"}

(* Something the executor was waiting for has happened, and it must act. *)
Due ==
    \/ phase = "step" /\ child = "alive" /\ ctx # "live"
    \/ phase = "step" /\ child # "alive" /\ now >= until
    \/ phase \in {"request", "body", "probe"} /\ ctx # "live"
    \/ phase = "pause" /\ (now >= until \/ parent)

Tick ==
    /\ phase # "done"
    /\ IF phase \in Waiting
       THEN ~Due /\ UNCHANGED lag
       ELSE lag < MaxLag /\ lag' = lag + 1
    /\ now' = now + 1
    /\ ctx' = IF ctx = "live" /\ phase \notin {"ready", "judge", "pause"} /\ now + 1 >= deadline
              THEN "deadline" ELSE ctx
    /\ UNCHANGED <<job, parent, deadline, phase, attempt, until, child, code, last, drill>>

(* tend serve shuts down: the run's context is cancelled, and with it the    *)
(* attempt's; the context of a cleanup is detached from it.                  *)
Cancel ==
    /\ phase # "done" /\ ~parent
    /\ parent' = TRUE
    /\ ctx' = IF ctx = "live" /\ drill.cleanups = 0 THEN "canceled" ELSE ctx
    /\ UNCHANGED <<job, now, lag, deadline, phase, attempt, until, child, code, last, drill>>

-----------------------------------------------------------------------------
(* The child process of a shell step (shellCommand and os/exec's Wait) *)

(* exec.Cmd.Start: a context that is done already starts nothing. *)
Spawned(c) == IF c = "live" THEN "alive" ELSE "killed"

(* The shell exits by itself, with status 0 or 1.  What it left in the       *)
(* background may hold the output open, for WaitDelay at most.               *)
ShellExits ==
    /\ phase = "step" /\ child = "alive"
    /\ code' \in {0, 1}
    /\ \/ child' = "exited" /\ UNCHANGED until
       \/ child' = "held" /\ until' = now + KillGrace
    /\ UNCHANGED <<job, now, lag, parent, ctx, deadline, phase, attempt, last, drill>>

PipesClose ==
    /\ phase = "step" /\ child = "held"
    /\ child' = "exited"
    /\ UNCHANGED <<job, now, lag, parent, ctx, deadline, phase, attempt, until, code, last, drill>>

(* Not part of the specification: a kill for the timeout only. *)
KillGroupOnTimeout ==
    /\ phase = "step" /\ child = "alive" /\ ctx = "deadline"
    /\ child' = "killed"
    /\ until' = now + KillGrace
    /\ UNCHANGED <<job, now, lag, parent, ctx, deadline, phase, attempt, code, last, drill>>

(* The context ended: the process group is killed, and Wait goes on until    *)
(* the pipes close, for WaitDelay at most.                                   *)
KillGroup ==
    /\ phase = "step" /\ child = "alive" /\ ctx # "live"
    /\ child' = "killed"
    /\ until' = now + KillGrace
    /\ UNCHANGED <<job, now, lag, parent, ctx, deadline, phase, attempt, code, last, drill>>

(* What cmd.Run may return: the exit status, or -1 for an error that is not  *)
(* an exit: killed, cut off by WaitDelay (exec.ErrWaitDelay), or exited just *)
(* as the context was cancelled.                                             *)
RunReturns(c) ==
    /\ phase = "step"
    /\ \/ child = "exited" /\ c = code
       \/ child = "exited" /\ ctx # "live" /\ code = 0 /\ c = -1
       \/ child = "held" /\ now >= until /\ c = (IF code = 0 THEN -1 ELSE code)
       \/ child = "killed" /\ c = -1

(* shellOutcome *)
ShellOutcome(c) ==
    IF ctx = "deadline" THEN [status |-> "timed_out", exit |-> 0]
    ELSE [status |-> IF c = 0 THEN "succeeded" ELSE "failed", exit |-> c]

-----------------------------------------------------------------------------
(* One attempt (runOnce) *)

FirstPhase == [shell |-> "step", http |-> "request", probe |-> "probe", drill |-> "scratch"]

RunOnce ==
    /\ phase = "ready"
    /\ deadline' = now + Timeout(job)
    /\ ctx' = IF parent THEN "canceled" ELSE "live"
    /\ phase' = FirstPhase[job.type]
    /\ child' = IF job.type = "shell" THEN Spawned(ctx') ELSE "none"
    /\ until' = now
    /\ UNCHANGED <<job, now, lag, parent, attempt, code, last, drill>>

(* The attempt is over, with result r; its context and locals are gone, and  *)
(* the retry loop looks at r next.                                           *)
Result(r) ==
    /\ last' = r /\ phase' = "judge"
    /\ ctx' = "live" /\ deadline' = 0 /\ until' = 0 /\ child' = "none" /\ code' = 0

(* runOnceShell, and the command of an expiry probe. *)
RunOnceShell ==
    /\ job.type = "shell"
    /\ \E c \in {-1, 0, 1} : RunReturns(c) /\ Result(ShellOutcome(c))
    /\ UNCHANGED <<job, now, lag, parent, attempt, drill>>

(* An error, or the deadline that caused it (probeErrorResult). *)
NoAnswer == IF ctx = "deadline" THEN [status |-> "timed_out", exit |-> 0]
            ELSE [status |-> "failed", exit |-> -1]

(* runOnceHTTP: client.Do returns a response, or an error; a request that    *)
(* cannot be made is an error at once.                                       *)
HTTPDo ==
    /\ phase = "request"
    /\ \/ /\ ctx = "live" /\ code' \in {200, 503} /\ phase' = "body"
          /\ UNCHANGED <<ctx, deadline, until, child, last>>
       \/ Result(NoAnswer)
    /\ UNCHANGED <<job, now, lag, parent, attempt, drill>>

(* The body was read, or reading it failed (which is not an error): the      *)
(* status decides.                                                           *)
HTTPBody ==
    /\ phase = "body"
    /\ Result([status |-> IF code = 200 THEN "succeeded" ELSE "failed", exit |-> code])
    /\ UNCHANGED <<job, now, lag, parent, attempt, drill>>

(* runOnceTLS, runOnceDomain: the server's answer is judged, or there was    *)
(* none (probeErrorResult).                                                  *)
ProbeAnswers ==
    /\ phase = "probe"
    /\ \/ /\ ctx = "live"
          /\ \E x \in {0, 1} : Result([status |-> IF x = 0 THEN "succeeded" ELSE "failed", exit |-> x])
       \/ Result(NoAnswer)
    /\ UNCHANGED <<job, now, lag, parent, attempt, drill>>

-----------------------------------------------------------------------------
(* A restore drill (runOnceDrill) *)

(* failed: the first failure decides the run's status and exit code. *)
Failed(d, st, x) == IF d.status = "succeeded" THEN [d EXCEPT !.status = st, !.exit = x] ELSE d
Noted(d, o) == IF o.status = "succeeded" THEN d ELSE Failed(d, o.status, o.exit)

(* The scratch directory is made and the restore started in it; when it      *)
(* cannot be made the attempt ends there (probeErrorResult).                 *)
MakeScratch ==
    /\ phase = "scratch"
    /\ \/ /\ phase' = "step"
          /\ drill' = [drill EXCEPT !.scratch = "made", !.began = now]
          /\ child' = Spawned(ctx) /\ until' = now
          /\ UNCHANGED <<ctx, deadline, code, last>>
       \/ Result(NoAnswer) /\ UNCHANGED drill
    /\ UNCHANGED <<job, now, lag, parent, attempt>>

(* The restore may remove the scratch directory, or put something else in    *)
(* its place.                                                                *)
RestoreReplacesScratch ==
    /\ phase = "step" /\ drill.step = 0 /\ child = "alive" /\ drill.scratch = "made"
    /\ drill' = [drill EXCEPT !.scratch = "replaced"]
    /\ UNCHANGED <<job, now, lag, parent, ctx, deadline, phase, attempt, until, child, code, last>>

RestoreEnds ==
    /\ job.type = "drill" /\ drill.step = 0
    /\ \E c \in {-1, 0, 1} :
        /\ RunReturns(c)
        /\ LET o == ShellOutcome(c)
               d == Noted([drill EXCEPT !.restore = o.status, !.took = now - drill.began,
                                        !.began = 0, !.step = 1], o)
           IN drill' = IF o.status = "succeeded" /\ drill.scratch = "replaced"
                       THEN Failed(d, "failed", -1) ELSE d
    /\ phase' = "checks" /\ child' = "none" /\ until' = 0 /\ code' = 0
    /\ UNCHANGED <<job, now, lag, parent, ctx, deadline, attempt, last>>

(* A check is run only when the restore succeeded, its scratch directory is  *)
(* still the one Tend made, and the attempt's context is still live.         *)
MayCheck == drill.restore = "succeeded" /\ drill.scratch = "made" /\ ctx = "live"

NextCheck ==
    /\ phase = "checks" /\ drill.step <= job.checks
    /\ IF MayCheck
       THEN /\ phase' = "step" /\ child' = Spawned(ctx) /\ until' = now
            /\ UNCHANGED drill
       ELSE /\ drill' = [drill EXCEPT !.step = @ + 1, !.skipped = @ + 1]
            /\ UNCHANGED <<phase, child, until>>
    /\ UNCHANGED <<job, now, lag, parent, ctx, deadline, attempt, code, last>>

CheckEnds ==
    /\ drill.step \in 1..job.checks
    /\ \E c \in {-1, 0, 1} :
        /\ RunReturns(c)
        /\ LET o == ShellOutcome(c)
           IN drill' = Noted([drill EXCEPT !.step = @ + 1,
                                           !.passed = @ + (IF o.status = "succeeded" THEN 1 ELSE 0)], o)
    /\ phase' = "checks" /\ child' = "none" /\ until' = 0 /\ code' = 0
    /\ UNCHANGED <<job, now, lag, parent, ctx, deadline, attempt, last>>

(* After the checks: the restore's time is judged, then the cleanup runs,    *)
(* with a context and a bound of its own.                                    *)
TooSlow ==
    LET limit == Seconds(job.maxDuration)
    IN drill.restore = "succeeded" /\ drill.scratch = "made" /\ limit > 0 /\ drill.took > limit

(* Not part of the specification: a cleanup only after a restore that worked. *)
StartCleanupAfterSuccess ==
    /\ phase = "checks" /\ drill.step = job.checks + 1
    /\ LET d == IF TooSlow THEN Failed(drill, "failed", 1) ELSE drill
       IN IF job.cleanup /\ drill.restore = "succeeded"
          THEN /\ phase' = "step" /\ child' = "alive" /\ until' = now
               /\ ctx' = "live" /\ deadline' = now + CleanupTimeout
               /\ drill' = [d EXCEPT !.step = @ + 1, !.cleanups = @ + 1]
          ELSE /\ phase' = "remove" /\ drill' = [d EXCEPT !.step = @ + 1]
               /\ UNCHANGED <<ctx, deadline, child, until>>
    /\ UNCHANGED <<job, now, lag, parent, attempt, code, last>>

StartCleanup ==
    /\ phase = "checks" /\ drill.step = job.checks + 1
    /\ LET d == IF TooSlow THEN Failed(drill, "failed", 1) ELSE drill
       IN IF job.cleanup
          THEN /\ phase' = "step" /\ child' = "alive" /\ until' = now
               /\ ctx' = "live" /\ deadline' = now + CleanupTimeout
               /\ drill' = [d EXCEPT !.step = @ + 1, !.cleanups = @ + 1]
          ELSE /\ phase' = "remove" /\ drill' = [d EXCEPT !.step = @ + 1]
               /\ UNCHANGED <<ctx, deadline, child, until>>
    /\ UNCHANGED <<job, now, lag, parent, attempt, code, last>>

CleanupEnds ==
    /\ drill.step = job.checks + 2
    /\ \E c \in {-1, 0, 1} :
        /\ RunReturns(c)
        /\ LET o == ShellOutcome(c)
           IN drill' = IF o.status = "timed_out" THEN Failed(drill, "failed", -1) ELSE Noted(drill, o)
    /\ phase' = "remove" /\ child' = "none" /\ until' = 0 /\ code' = 0
    /\ UNCHANGED <<job, now, lag, parent, ctx, deadline, attempt, last>>

(* removeScratch, and the result. *)
RemoveScratch ==
    /\ phase = "remove"
    /\ \E gone \in BOOLEAN :
        LET d == IF gone THEN drill ELSE Failed(drill, "failed", -1)
        IN /\ drill' = [d EXCEPT !.scratch = IF gone THEN "removed" ELSE "left"]
           /\ Result([status |-> d.status, exit |-> d.exit])
    /\ UNCHANGED <<job, now, lag, parent, attempt>>

-----------------------------------------------------------------------------
(* The retry loop (run) *)

Judge ==
    /\ phase = "judge"
    /\ IF last.status = "succeeded" \/ attempt >= MaxAttempts(job) \/ parent
       THEN phase' = "done" /\ UNCHANGED <<until, drill>>
       ELSE phase' = "pause" /\ until' = now + Backoff(attempt) /\ drill' = NoDrill
    /\ UNCHANGED <<job, now, lag, parent, ctx, deadline, attempt, child, code, last>>

PauseEnds ==
    /\ phase = "pause"
    /\ \/ now >= until /\ phase' = "ready" /\ attempt' = attempt + 1
       \/ parent /\ phase' = "done" /\ UNCHANGED attempt
    /\ UNCHANGED <<job, now, lag, parent, ctx, deadline, until, child, code, last, drill>>

Act ==
    \/ ShellExits \/ PipesClose \/ KillGroup
    \/ RunOnce \/ RunOnceShell \/ HTTPDo \/ HTTPBody \/ ProbeAnswers
    \/ MakeScratch \/ RestoreEnds \/ NextCheck \/ CheckEnds
    \/ StartCleanup \/ CleanupEnds \/ RemoveScratch
    \/ Judge \/ PauseEnds

Next == Tick \/ Cancel \/ RestoreReplacesScratch \/ Act

Spec == Init /\ [][Next]_vars

(* The executor's goroutine runs, and time passes; nothing is assumed of the *)
(* child or of a server, which may never answer.                             *)
Progress ==
    \/ KillGroup \/ RunOnce \/ RunOnceShell \/ MakeScratch \/ RestoreEnds \/ NextCheck
    \/ CheckEnds \/ StartCleanup \/ CleanupEnds \/ RemoveScratch \/ Judge \/ PauseEnds
    \/ Due /\ (HTTPDo \/ HTTPBody \/ ProbeAnswers)

Fairness == WF_vars(Tick) /\ WF_vars(Progress)
FairSpec == Spec /\ Fairness

-----------------------------------------------------------------------------
(* Properties *)

(* A run that is still executing is never past the time limit the reaper     *)
(* judges it by (but for the time lost in the executor's own code, which     *)
(* reapSlack covers): every timeout, kill, cleanup and pause together stay   *)
(* within maxRunDuration, for absurd timeouts and retry counts too.          *)
WithinLimit ==
    LET limit == MaxRunDuration(job) IN now <= limit + lag \/ limit = Forever

(* A drill's outcome is honest: an attempt recorded as succeeded had its     *)
(* restore succeed in the directory Tend made, every check that was run      *)
(* pass, a cleanup if one is set, and its scratch removed; a check is left   *)
(* out only when the attempt's context ended between two steps; and whatever *)
(* happened, no attempt ends with the scratch directory not dealt with or    *)
(* with a cleanup skipped or run twice.                                      *)
DrillHonest ==
    (job.type = "drill" /\ phase = "judge" /\ drill.scratch # "none") =>
        /\ drill.scratch \in {"removed", "left"}
        /\ drill.cleanups = (IF job.cleanup THEN 1 ELSE 0)
        /\ last.status = "succeeded" =>
            /\ drill.restore = "succeeded" /\ drill.scratch = "removed"
            /\ drill.passed + drill.skipped = job.checks
            /\ drill.skipped > 0 => lag > 0 \/ parent

(* However the child, the server and the shutdown behave, the run ends. *)
RunEnds == <>(phase = "done")
=============================================================================
