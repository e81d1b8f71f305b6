------------------------------- MODULE PingExec -------------------------------
(***************************************************************************)
(* tend exec (internal/pingexec, internal/cli/exec.go): a command run      *)
(* between a start ping and a completion ping.  The pings are retried      *)
(* within a budget over a network that loses requests and answers and may  *)
(* deliver a request after its sender gave up on it; signals arrive at any *)
(* moment, are caught from the start and passed on to the command.         *)
(*                                                                         *)
(* server is what the heartbeat's row says of this run (store/pings.go):   *)
(* whether it is being timed, and the last completion recorded.            *)
(***************************************************************************)
EXTENDS Integers, Sequences

CONSTANTS
    Signals,       \* the signals caught, as numbers
    SigBuffer,     \* capacity of the signal channel
    MaxSignals,    \* bound on signals sent
    Retries,       \* times a failed ping is tried again
    Timeout,       \* of one attempt
    StartBudget, FinishBudget,
    FirstBackoff, MaxBackoff,
    RetryAfters,   \* values of a server's Retry-After
    MaxRetryAfter,
    None

ASSUME PingExecAssumption ==
    /\ Signals \subseteq 1..64 /\ None \notin Signals
    /\ {MaxSignals, Retries} \subseteq Nat
    /\ {SigBuffer, Timeout, StartBudget, FinishBudget, FirstBackoff, MaxBackoff,
        MaxRetryAfter} \subseteq Nat \ {0}
    /\ RetryAfters \subseteq Nat \ {0}

VARIABLES
    start,     \* Config.Start
    phase,     \* "begin", "start", "launch", "spawn", "running", "finish", "exited"
    elapsed,   \* time since the ping in progress was begun
    ping,      \* the ping in progress (send's locals)
    sigs,      \* the signal channel
    caught,    \* the signal startPing's goroutine took
    early,     \* the signal that kept the command from starting
    canceled,  \* ctx is done
    code,      \* the exit status
    sent,      \* signals that arrived: before the command was to start, and later
    passed,    \* signals passed on to the command
    late,      \* requests given up on that the network may still deliver
    server     \* the heartbeat, as far as this run is concerned

execVars == <<start, phase, elapsed, ping, sigs, caught, early, canceled, code, sent, passed, late, server>>

(* The actions of a ping URL: an exit status is its own action. *)
StartAction == -1
FailAction == 256

NoPing == [action |-> FailAction, try |-> 0, state |-> "idle", ends |-> 0, deadline |-> 0,
           backoff |-> 0, arrived |-> FALSE]
Lesser(a, b) == IF a <= b THEN a ELSE b

(* A wrapper that has not pinged anyone yet. *)
Quiet ==
    /\ elapsed = 0 /\ ping = NoPing
    /\ sigs = <<>> /\ caught = None /\ early = None /\ canceled = FALSE
    /\ code = None
    /\ sent = [before |-> 0, after |-> 0] /\ passed = <<>>
    /\ late = {}
    /\ server = [timing |-> FALSE, status |-> None, lateStart |-> FALSE]

ExecInit == start \in BOOLEAN /\ phase = "begin" /\ Quiet

-----------------------------------------------------------------------------
(* Signals *)

(* A signal arrives: it is queued on the channel (dropped when that is full) *)
(* and may cancel ctx too.                                                   *)
Signal ==
    /\ phase # "exited" /\ sent.before + sent.after < MaxSignals
    /\ \E s \in Signals : sigs' = IF Len(sigs) < SigBuffer THEN Append(sigs, s) ELSE sigs
    /\ canceled' \in {canceled, TRUE}
    /\ sent' = IF phase \in {"begin", "start", "launch"}
               THEN [sent EXCEPT !.before = @ + 1] ELSE [sent EXCEPT !.after = @ + 1]
    /\ UNCHANGED <<start, phase, elapsed, ping, caught, early, code, passed, late, server>>

(* startPing's goroutine takes the first signal and cancels the ping. *)
CatchSignal ==
    /\ phase = "start" /\ caught = None /\ sigs # <<>>
    /\ caught' = Head(sigs) /\ sigs' = Tail(sigs)
    /\ UNCHANGED <<start, phase, elapsed, ping, early, canceled, code, sent, passed, late, server>>

-----------------------------------------------------------------------------
(* Pings (send, attempt) *)

(* The context of the ping is done: only a start ping can be abandoned. *)
Abandoned == phase = "start" /\ caught # None

(* Not part of the specification: an attempt not held to the ping's budget. *)
AttemptByTimeout(t, deadline) == t + Timeout

(* attempt: its request goes out; it ends with its timeout or the budget. *)
AttemptBy(t, deadline) == Lesser(t + Timeout, deadline)

SendBegins(action, budget) ==
    /\ elapsed' = 0
    /\ ping' = [action |-> action, try |-> 0, state |-> "attempt", ends |-> AttemptBy(0, budget),
                deadline |-> budget, backoff |-> FirstBackoff, arrived |-> FALSE]

(* Not part of the specification: a failure does not end the timing. *)
RecordedSuccessEnds(srv, action) ==
    IF action = StartAction THEN [srv EXCEPT !.timing = TRUE]
    ELSE [srv EXCEPT !.timing = @ /\ action # 0, !.status = action]

(* What RecordPing makes of a ping of this run: a start begins timing it,    *)
(* its completion ends that.                                                 *)
Recorded(srv, action) ==
    IF action = StartAction THEN [srv EXCEPT !.timing = TRUE]
    ELSE [srv EXCEPT !.timing = FALSE, !.status = action]

ServerRecords ==
    /\ ping.state = "attempt" /\ ~ping.arrived
    /\ server' = Recorded(server, ping.action)
    /\ ping' = [ping EXCEPT !.arrived = TRUE]
    /\ UNCHANGED <<start, phase, elapsed, sigs, caught, early, canceled, code, sent, passed, late>>

(* A request its sender has given up on is recorded after all. *)
ServerRecordsLate ==
    /\ \E a \in late :
        /\ late' = late \ {a}
        /\ server' = [Recorded(server, a) EXCEPT !.lateStart = @ \/ a = StartAction]
    /\ UNCHANGED <<start, phase, elapsed, ping, sigs, caught, early, canceled, code, sent, passed>>

SendReturns ==
    /\ ping' = NoPing /\ elapsed' = 0
    /\ phase' = IF phase = "start" THEN "launch" ELSE "exited"

(* send's loop after an attempt that failed in a way worth another: give up, *)
(* or sleep.                                                                 *)
Retry(wait) ==
    IF ping.try >= Retries \/ elapsed >= ping.deadline \/ ping.deadline - elapsed <= wait
    THEN SendReturns
    ELSE /\ ping' = [ping EXCEPT !.try = @ + 1, !.state = "sleep", !.ends = elapsed + wait,
                                 !.backoff = Lesser(2 * @, MaxBackoff), !.arrived = FALSE]
         /\ UNCHANGED <<elapsed, phase>>

(* The request may still be on its way when the attempt fails. *)
Straggles ==
    late' \in {late} \cup (IF ping.arrived THEN {} ELSE {late \cup {ping.action}})

(* The attempt is over: a 2xx answer to a ping that was recorded, or a       *)
(* refusal of one that was not; an error, a 5xx or a 429, with or without    *)
(* Retry-After.  An attempt cut off fails.                                   *)
AttemptReturns ==
    /\ ping.state = "attempt"
    /\ \/ ~Abandoned /\ elapsed < ping.ends /\ SendReturns /\ UNCHANGED late
       \/ ~Abandoned /\ Retry(ping.backoff) /\ Straggles
       \/ /\ ~Abandoned /\ elapsed < ping.ends
          /\ \E r \in RetryAfters : Retry(Lesser(r, MaxRetryAfter))
          /\ UNCHANGED late
       \/ Abandoned /\ SendReturns /\ Straggles
    /\ UNCHANGED <<start, sigs, caught, early, canceled, code, sent, passed, server>>

SleepEnds ==
    /\ ping.state = "sleep"
    /\ elapsed >= ping.ends \/ Abandoned
    /\ ping' = [ping EXCEPT !.state = "attempt", !.ends = AttemptBy(elapsed, ping.deadline)]
    /\ UNCHANGED <<start, phase, elapsed, sigs, caught, early, canceled, code, sent, passed, late, server>>

(* Time matters only to a ping in progress. *)
Elapse ==
    /\ ping.state # "idle" /\ ~Abandoned /\ elapsed < ping.ends
    /\ elapsed' = elapsed + 1
    /\ UNCHANGED <<start, phase, ping, sigs, caught, early, canceled, code, sent, passed, late, server>>

-----------------------------------------------------------------------------
(* Run *)

Begin ==
    /\ phase = "begin"
    /\ IF start THEN phase' = "start" /\ SendBegins(StartAction, StartBudget)
       ELSE phase' = "launch" /\ UNCHANGED <<elapsed, ping>>
    /\ UNCHANGED <<start, sigs, caught, early, canceled, code, sent, passed, late, server>>

(* Only 0 to 255 can be reported as a status. *)
Suffix(c) == IF c \in 0..255 THEN c ELSE FailAction

Finish(c) == code' = c /\ phase' = "finish" /\ SendBegins(Suffix(c), FinishBudget)

(* Not part of the specification: only the signal that interrupted the start *)
(* ping keeps the command from starting.                                     *)
LaunchIgnoringQueue ==
    /\ phase = "launch"
    /\ early' = caught
    /\ UNCHANGED sigs
    /\ IF early' # None THEN Finish(128 + early')
       ELSE IF canceled THEN Finish(1)
       ELSE phase' = "spawn" /\ UNCHANGED <<elapsed, ping, code>>
    /\ UNCHANGED <<start, caught, canceled, sent, passed, late, server>>

(* Before the command is started: a signal caught during the start ping, or  *)
(* one waiting in the channel, or a cancelled ctx, keeps it from starting.   *)
Launch ==
    /\ phase = "launch"
    /\ early' = IF caught = None /\ sigs # <<>> THEN Head(sigs) ELSE caught
    /\ sigs' = IF caught = None /\ sigs # <<>> THEN Tail(sigs) ELSE sigs
    /\ IF early' # None THEN Finish(128 + early')
       ELSE IF canceled THEN Finish(1)
       ELSE phase' = "spawn" /\ UNCHANGED <<elapsed, ping, code>>
    /\ UNCHANGED <<start, caught, canceled, sent, passed, late, server>>

(* cmd.Start: it may not be found (127) or not be startable (126). *)
Spawn ==
    /\ phase = "spawn"
    /\ \/ phase' = "running" /\ UNCHANGED <<elapsed, ping, code>>
       \/ \E c \in {126, 127} : Finish(c)
    /\ UNCHANGED <<start, sigs, caught, early, canceled, sent, passed, late, server>>

(* Not part of the specification: a goroutine that ends with the first one. *)
ForwardFirst ==
    /\ phase = "running" /\ sigs # <<>> /\ passed = <<>>
    /\ passed' = Append(passed, Head(sigs)) /\ sigs' = Tail(sigs)
    /\ UNCHANGED <<start, phase, elapsed, ping, caught, early, canceled, code, sent, late, server>>

(* The goroutine of runCommand passes a signal on. *)
Forward ==
    /\ phase = "running" /\ sigs # <<>>
    /\ passed' = Append(passed, Head(sigs)) /\ sigs' = Tail(sigs)
    /\ UNCHANGED <<start, phase, elapsed, ping, caught, early, canceled, code, sent, late, server>>

(* cmd.Wait returns: the command exited, was killed by a signal passed on to *)
(* it, or its output could not be copied (126).                              *)
CommandEnds ==
    /\ phase = "running"
    /\ \E c \in {0, 1, 126} \cup {128 + passed[i] : i \in 1..Len(passed)} : Finish(c)
    /\ UNCHANGED <<start, sigs, caught, early, canceled, sent, passed, late, server>>

ExecNext ==
    \/ Signal \/ CatchSignal \/ ServerRecords \/ ServerRecordsLate \/ AttemptReturns
    \/ SleepEnds \/ Elapse \/ Begin \/ Launch \/ Spawn \/ Forward \/ CommandEnds

ExecSpec == ExecInit /\ [][ExecNext]_execVars

(* The steps Run's own goroutine takes by itself. *)
RunGoesOn ==
    \/ Begin \/ Launch \/ Spawn \/ SleepEnds
    \/ (elapsed >= ping.ends \/ Abandoned) /\ AttemptReturns

(* tend exec's goroutines (Run's, startPing's and runCommand's) run, and     *)
(* time passes; nothing is assumed of the command, the network or the server.*)
ExecFairness ==
    /\ WF_execVars(RunGoesOn) /\ WF_execVars(CatchSignal) /\ WF_execVars(Forward)
    /\ WF_execVars(Elapse)

FairExecSpec == ExecSpec /\ ExecFairness

-----------------------------------------------------------------------------
(* Properties *)

(* Types of the variables. *)
PingExecTypeOK ==
    /\ start \in BOOLEAN /\ canceled \in BOOLEAN
    /\ phase \in {"begin", "start", "launch", "spawn", "running", "finish", "exited"}
    /\ elapsed \in Nat /\ caught \in Signals \cup {None} /\ early \in Signals \cup {None}
    /\ sigs \in Seq(Signals) /\ Len(sigs) <= SigBuffer /\ passed \in Seq(Signals)
    /\ code \in 0..255 \cup {None}
    /\ ping.try \in 0..Retries

(* A signal that arrives before the command is to be started keeps it from   *)
(* starting, however the start ping, the goroutine that watches the channel  *)
(* and the signal interleave; and none that arrives later is swallowed: it   *)
(* is waiting for the command, or was passed on to it, or the command is     *)
(* over.                                                                     *)
SignalsHeard ==
    /\ phase \in {"spawn", "running"} => sent.before = 0
    /\ (phase = "running" /\ sent.after <= SigBuffer) => Len(sigs) + Len(passed) = sent.after

(* The start ping holds the command for at most its budget, and the          *)
(* completion ping takes at most its own, all attempts, sleeps and answers   *)
(* with Retry-After together.                                                *)
PingsWithinBudget ==
    /\ phase = "start" => elapsed <= StartBudget
    /\ phase = "finish" => elapsed <= FinishBudget

(* What the server was told is what happened: a completion is recorded only  *)
(* once the command is over, with the status tend exec exits with; and once  *)
(* it is recorded the run is no longer timed, unless a start ping its sender *)
(* had given up on is recorded after it.                                     *)
CompletionHonest ==
    server.status # None =>
        /\ phase \in {"finish", "exited"} /\ server.status = Suffix(code)
        /\ server.timing => server.lateStart

(* tend exec ends, whatever the network and the server do: a command that is *)
(* over, or is not to be started, has its wrapper exit; and a signal that    *)
(* waits is passed on while the command runs.                                *)
WrapperEnds ==
    /\ (phase \notin {"running", "exited"}) ~> (phase \in {"running", "exited"})
    /\ (phase = "running" /\ sigs # <<>>) ~> (sigs = <<>> \/ phase = "exited")
=============================================================================
