------------------------------- MODULE Alerts -------------------------------
(***************************************************************************)
(* How the failures of one job are announced: its failing streak (columns  *)
(* failed_runs, failing_since of jobs), the rules and channels that route  *)
(* its run.failed and run.recovered, and what each channel was told (table *)
(* failure_alerts), which decides whether a failure is sent, held or       *)
(* passed over and where a recovery goes.  Every store call that records a *)
(* run event is one transaction of the SQLite store and so one step; the   *)
(* delivery worker reads the held failures in one step and releases each   *)
(* in a later one, at the time it read its clock.                          *)
(*                                                                         *)
(* failed_runs only matters as zero or not.  An event is named by the time *)
(* it was recorded at: each run that ends takes a tick of the clock.       *)
(***************************************************************************)
EXTENDS Integers, FiniteSets, FiniteSetsExt

CONSTANTS
    Channels,    \* channel ids
    Hour,        \* DefaultRepeat
    Minute,      \* the most slack a reminder has
    SlackDiv,    \* the part of a short interval that is its slack (10 in the code)
    Repeats,     \* the intervals a rule may set; 0: every failure
    Scopes,      \* the run.failed rules of a channel: "all" jobs, "job" only
    KeepRuns,    \* retention window of finished runs
    MaxTime,     \* bound: the clock
    MaxChanges,  \* bound: changes of rules and channels
    MaxFaults,   \* bound: releases that fail
    Unset,       \* a rule without a repeat
    Off,         \* no such rule, or it is not enabled
    None         \* no time, no state, no row

ASSUME IntervalAssumption == /\ Hour \in Nat \ {0} /\ Minute \in Nat /\ SlackDiv \in Nat \ {0}
                             /\ Repeats \subseteq Nat /\ KeepRuns \in Nat /\ MaxTime \in Nat
                             /\ None \notin Int /\ Off \notin Int /\ Unset \notin Int /\ Off # Unset
ASSUME ScopesAssumption == Scopes \subseteq {"all", "job"} /\ MaxChanges \in Nat /\ MaxFaults \in Nat

Times == 0..MaxTime
Kinds == {"webhook", "chat"}

\* The rows of jobs, job_runs (the last finished one) and failure_alerts.
JobRow == [failing : BOOLEAN, since : Nat \cup {None}]
RunRow == [status : {"succeeded", "failed"}, at : Nat]
AlertRow == [last : Nat, held : Nat \cup {None}]

ASSUME NoneAssumption == None \notin JobRow /\ None \notin RunRow /\ None \notin AlertRow /\ None \notin Kinds

VARIABLES
    now,      \* the clock
    job,      \* the job's row: [failing, since], or None
    last,     \* its last finished run: [status, at], or None
    kind,     \* [Channels -> the channel's kind, or None]
    failed,   \* [Channels -> [Scopes -> its run.failed rule: Off, Unset or an interval]]
    recovered, \* the channels with a run.recovered rule
    alert,    \* failure_alerts: [Channels -> [last, held], or None]
    poll,     \* the worker's clock while it releases, or None
    cands,    \* the held failures it still has to look at
    queued,   \* the deliveries the last step queued: <<channel, type>>
    inStreak, \* history: the channels that were sent a failure of this streak
    sent,     \* history: [Channels -> stamp of the last failure sent, or None]
    heard,    \* history: the channels that routed a failure of this streak, ever since
    changes,  \* changes of rules and channels so far
    faults    \* failed releases so far

vars == <<now, job, last, kind, failed, recovered, alert, poll, cands, queued, inStreak, sent, heard, changes, faults>>
config == <<kind, failed, recovered, changes>>
worker == <<poll, cands, faults>>
history == <<inStreak, sent, heard>>

-----------------------------------------------------------------------------
(* notify/pacing.go.                                                       *)

EffectiveRepeat(k, repeat) ==
    IF repeat # Unset THEN repeat ELSE IF k = "webhook" THEN 0 ELSE Hour

Lesser(a, b) == IF a < b THEN a ELSE b

FlapHold(repeat) == Lesser(repeat, Hour)

Slack(repeat) == Lesser(repeat \div SlackDiv, Minute)

\* Not part of the specification: the slack counted twice.
ReachedEarly(at, mark, repeat) == at >= mark - 2 * Slack(repeat)

Reached(at, mark, repeat) == at >= mark - Slack(repeat)

\* Not part of the specification: the failure that starts a streak does not count.
ToldAfter(st, since) == st # None /\ st.last > since

Told(st, since) == st # None /\ st.last >= since

(***************************************************************************)
(* PaceFailure: whether a failure recorded at at, of a job failing since   *)
(* since, is sent to a channel in state st (None: not known).              *)
(***************************************************************************)
Reminds(st, at, repeat) == Reached(at, st.last + repeat, repeat)
Flaps(st, at, repeat) == ~Reached(at, st.last + FlapHold(repeat), FlapHold(repeat))

\* Not part of the specification: a flapping job's failure is passed over, not held.
PaceFailureNotHeld(st, at, since, repeat) ==
    CASE repeat <= 0                                        -> "send"
      [] repeat > 0 /\ Told(st, since)                      -> IF Reminds(st, at, repeat) THEN "send" ELSE "pass"
      [] repeat > 0 /\ ~Told(st, since) /\ st # None        -> IF Flaps(st, at, repeat) THEN "pass" ELSE "send"
      [] OTHER                                              -> "send"

PaceFailure(st, at, since, repeat) ==
    CASE repeat <= 0                                        -> "send"
      [] repeat > 0 /\ Told(st, since)                      -> IF Reminds(st, at, repeat) THEN "send" ELSE "pass"
      [] repeat > 0 /\ ~Told(st, since) /\ st # None        -> IF Flaps(st, at, repeat) THEN "hold" ELSE "send"
      [] OTHER                                              -> "send"

\* The alert state PaceFailure and saveAlertState leave: the event held is the one at at.
NextState(st, at, verdict) ==
    CASE verdict = "send" -> [last |-> at, held |-> None]
      [] verdict = "pass" -> [st EXCEPT !.held = None]
      [] verdict = "hold" -> [st EXCEPT !.held = at]

PaceRecovery(st, since) == st = None \/ since = None \/ Told(st, since)

ReleaseDue(st, at, repeat) ==
    /\ st.held # None
    /\ repeat <= 0 \/ Reached(at, st.last + FlapHold(repeat), FlapHold(repeat))

-----------------------------------------------------------------------------
(* Matching rules (matchedChannels, failedRepeat).                         *)

Rules(c) == {failed[c][s] : s \in Scopes} \ {Off}

\* Overlapping rules of a channel: the shortest interval.
FailedRepeat(c, k) == Min({EffectiveRepeat(k, r) : r \in Rules(c)})

Routed(c) == kind[c] # None /\ Rules(c) # {}

-----------------------------------------------------------------------------
(* Recording run events (emit.go, streak.go, FinishRunAndEmit).            *)

\* previousRunStatus: the last finished run, if retention has left it.
AfterSuccess == last # None /\ last.status = "succeeded"

(***************************************************************************)
(* streakOf a run.failed recorded at at: a fresh streak after a success,   *)
(* whatever the row says; else COALESCE(failing_since, at).                *)
(***************************************************************************)
StreakOf(at) == [failing |-> TRUE, since |-> IF AfterSuccess \/ job.since = None THEN at ELSE job.since]

(***************************************************************************)
(* recordEvent of a run.failed at at: streakOf, the event, and per matched *)
(* channel the pacing's verdict.                                           *)
(***************************************************************************)
RecordFailed(at) ==
    LET streak == StreakOf(at)
        verdict(c) == PaceFailure(alert[c], at, streak.since, FailedRepeat(c, kind[c]))
        sends == {c \in Channels : Routed(c) /\ verdict(c) = "send"}
    IN  /\ job' = streak
        /\ alert' = [c \in Channels |-> IF Routed(c) THEN NextState(alert[c], at, verdict(c)) ELSE alert[c]]
        /\ queued' = {<<c, "run.failed">> : c \in sends}
        /\ inStreak' = (IF AfterSuccess THEN {} ELSE inStreak) \cup sends
        /\ heard' = (IF AfterSuccess THEN {} ELSE heard) \cup {c \in Channels : Routed(c)}
        /\ sent' = [c \in Channels |-> IF c \in sends THEN at ELSE sent[c]]

\* A run.failed of a job that is gone has no streak: it goes to every channel an org-wide rule names.
RecordFailedOfNoJob ==
    /\ queued' = {<<c, "run.failed">> : c \in {d \in Channels : Routed(d)}}
    /\ UNCHANGED <<job, alert, history>>

\* Runs end while the clock still has room for a hold to pass.
RunMayEnd == now + 1 + Hour <= MaxTime

(***************************************************************************)
(* FinishRunAndEmit of a run that did not succeed, and ReapStaleRun: the   *)
(* run's row goes with its job, so the job is there.                       *)
(***************************************************************************)
FinishFailed ==
    /\ RunMayEnd
    /\ job # None
    /\ now' = now + 1
    /\ last' = [status |-> "failed", at |-> now + 1]
    /\ RecordFailed(now + 1)
    /\ UNCHANGED <<config, worker>>

(***************************************************************************)
(* FailUnreadableJob: inserts an ended run; the job may just have gone.    *)
(***************************************************************************)
FailUnreadableJob ==
    /\ RunMayEnd
    /\ now' = now + 1
    /\ last' = [status |-> "failed", at |-> now + 1]
    /\ IF job = None THEN RecordFailedOfNoJob ELSE RecordFailed(now + 1)
    /\ UNCHANGED <<config, worker>>

(***************************************************************************)
(* paced of a run.recovered: a channel that does not get the failures gets *)
(* the recovery.                                                           *)
(***************************************************************************)
GetsRecovery(c) ==
    /\ kind[c] # None /\ c \in recovered
    /\ Rules(c) = {} \/ PaceRecovery(alert[c], job.since)

DropHeld == alert' = [c \in Channels |-> IF alert[c] = None THEN None ELSE [alert[c] EXCEPT !.held = None]]

\* Not part of the specification: the held failures are not dropped with the streak.
EndStreakKeepingHeld ==
    /\ job' = [failing |-> FALSE, since |-> None]
    /\ UNCHANGED alert

EndStreak ==
    /\ job' = [failing |-> FALSE, since |-> None]
    /\ DropHeld

(***************************************************************************)
(* FinishRunAndEmit of a run that succeeded: run.recovered if the previous *)
(* finished run did not, then endStreak.                                   *)
(***************************************************************************)
FinishSucceeded ==
    /\ RunMayEnd
    /\ job # None
    /\ now' = now + 1
    /\ last' = [status |-> "succeeded", at |-> now + 1]
    /\ queued' = IF last # None /\ last.status # "succeeded"
                 THEN {<<c, "run.recovered">> : c \in {d \in Channels : GetsRecovery(d)}} ELSE {}
    /\ EndStreak
    /\ inStreak' = {} /\ heard' = {}
    /\ UNCHANGED <<sent, config, worker>>

-----------------------------------------------------------------------------
(* releaseHeld, which the delivery worker calls before each claim.         *)

Held(c) == kind[c] # None /\ alert[c] # None /\ alert[c].held # None

\* The worker reads its clock, then waits for the database.
Poll ==
    /\ poll = None
    /\ \E c \in Channels : Held(c)
    /\ poll' = now
    /\ queued' = {}
    /\ UNCHANGED <<now, job, last, alert, cands, history, config, faults>>

\* The candidates are read first, without a transaction.
ListHeld ==
    /\ poll # None /\ cands = {}
    /\ cands' = {[c |-> c, held |-> alert[c].held, kind |-> kind[c]] : c \in {d \in Channels : Held(d)}}
    /\ poll' = IF cands' = {} THEN None ELSE poll
    /\ queued' = {}
    /\ UNCHANGED <<now, job, last, alert, history, config, faults>>

Looked(h) ==
    /\ h \in cands
    /\ cands' = cands \ {h}
    /\ poll' = IF cands' = {} THEN None ELSE poll

StillHeld(h) == alert[h.c] # None /\ alert[h.c].held = h.held

\* Not part of the specification: a channel that is not routed any more is passed over.
ReleaseDropsRouted(h) == /\ Rules(h.c) # {}
                         /\ ReleaseDue(alert[h.c], poll, FailedRepeat(h.c, h.kind))
                         /\ job = None \/ ~job.failing \/ AfterSuccess

ReleaseDrops(h) == \/ Rules(h.c) = {}
                   \/ /\ ReleaseDue(alert[h.c], poll, FailedRepeat(h.c, h.kind))
                      /\ job = None \/ ~job.failing \/ AfterSuccess

ReleaseSends(h) == /\ Rules(h.c) # {}
                   /\ ReleaseDue(alert[h.c], poll, FailedRepeat(h.c, h.kind))
                   /\ job # None /\ job.failing /\ ~AfterSuccess

(***************************************************************************)
(* releaseOne, one transaction: the candidate is sent, dropped, or left    *)
(* because it is not due or not what is held any more.                     *)
(***************************************************************************)
ReleaseOne(h) ==
    /\ Looked(h)
    /\ LET sends == StillHeld(h) /\ ReleaseSends(h)
           drops == StillHeld(h) /\ ReleaseDrops(h)
       IN  /\ alert' = CASE sends -> [alert EXCEPT ![h.c] = [last |-> poll, held |-> None]]
                         [] drops -> [alert EXCEPT ![h.c].held = None]
                         [] OTHER -> alert
           /\ queued' = IF sends THEN {<<h.c, "run.failed">>} ELSE {}
           /\ inStreak' = IF sends THEN inStreak \cup {h.c} ELSE inStreak
           /\ sent' = IF sends THEN [sent EXCEPT ![h.c] = poll] ELSE sent
    /\ UNCHANGED <<now, job, last, heard, config, faults>>

\* A release that fails is logged, and the next poll tries again.
ReleaseFails(h) ==
    /\ faults < MaxFaults
    /\ Looked(h)
    /\ faults' = faults + 1
    /\ queued' = {}
    /\ UNCHANGED <<now, job, last, alert, history, config>>

-----------------------------------------------------------------------------
(* Rules, channels, the job and retention.                                 *)

Change ==
    /\ changes < MaxChanges
    /\ changes' = changes + 1
    /\ queued' = {}

(***************************************************************************)
(* CreateRule (an upsert: enabled and repeat change) and DeleteRule of a   *)
(* run.failed rule.  Nothing else is touched: a channel keeps its state.   *)
(***************************************************************************)
SetFailedRule(c, s, r) ==
    /\ Change
    /\ kind[c] # None
    /\ s = "job" => job # None
    /\ failed[c][s] # r
    /\ failed' = [failed EXCEPT ![c][s] = r]
    /\ heard' = IF {failed'[c][t] : t \in Scopes} \subseteq {Off} THEN heard \ {c} ELSE heard
    /\ UNCHANGED <<now, job, last, kind, recovered, alert, worker, inStreak, sent>>

SetRecoveredRule(c) ==
    /\ Change
    /\ kind[c] # None
    /\ recovered' = IF c \in recovered THEN recovered \ {c} ELSE recovered \cup {c}
    /\ UNCHANGED <<now, job, last, kind, failed, alert, worker, history>>

(***************************************************************************)
(* CreateChannel, an upsert by name: a channel that is there changes its   *)
(* kind and keeps its rules and state.                                     *)
(***************************************************************************)
CreateChannel(c, k) ==
    /\ Change
    /\ kind[c] \notin {k, None}
    /\ kind' = [kind EXCEPT ![c] = k]
    /\ UNCHANGED <<now, job, last, failed, recovered, alert, worker, history>>

DeleteChannel(c) ==
    /\ Change
    /\ kind[c] # None
    /\ kind' = [kind EXCEPT ![c] = None]
    /\ failed' = [failed EXCEPT ![c] = [s \in Scopes |-> Off]]
    /\ recovered' = recovered \ {c}
    /\ alert' = [alert EXCEPT ![c] = None]
    /\ heard' = heard \ {c}
    /\ UNCHANGED <<now, job, last, worker, inStreak, sent>>

(***************************************************************************)
(* DeleteJob: its runs, its own rules, its row and its alert states.       *)
(***************************************************************************)
DeleteJob ==
    /\ job # None
    /\ job' = None
    /\ last' = None
    /\ failed' = [c \in Channels |-> [s \in Scopes |-> IF s = "job" THEN Off ELSE failed[c][s]]]
    /\ alert' = [c \in Channels |-> None]
    /\ queued' = {} /\ inStreak' = {} /\ heard' = {}
    /\ UNCHANGED <<now, kind, recovered, changes, worker, sent>>

\* PruneJobRuns: the last finished run goes when it is older than the window.
PruneJobRuns ==
    /\ last # None
    /\ last.at < now - KeepRuns
    /\ last' = None
    /\ queued' = {}
    /\ UNCHANGED <<now, job, alert, config, worker, history>>

Tick ==
    /\ now < MaxTime
    /\ now' = now + 1
    /\ queued' = {}
    /\ UNCHANGED <<job, last, alert, config, worker, history>>

-----------------------------------------------------------------------------
Init ==
    /\ now = 0
    /\ job = [failing |-> FALSE, since |-> None]
    /\ last = None
    /\ kind \in [Channels -> Kinds]
    /\ failed \in [Channels -> [Scopes -> Repeats \cup {Off, Unset}]]
    /\ recovered = Channels
    /\ alert = [c \in Channels |-> None]
    /\ poll = None
    /\ cands = {}
    /\ queued = {}
    /\ inStreak = {}
    /\ sent = [c \in Channels |-> None]
    /\ heard = {}
    /\ changes = 0
    /\ faults = 0

Release == Poll \/ ListHeld \/ \E h \in cands : ReleaseOne(h)

Configure ==
    \E c \in Channels :
        \/ \E s \in Scopes, r \in Repeats \cup {Off, Unset} : SetFailedRule(c, s, r)
        \/ SetRecoveredRule(c)
        \/ \E k \in Kinds : CreateChannel(c, k)
        \/ DeleteChannel(c)

Next ==
    \/ FinishFailed
    \/ FinishSucceeded
    \/ FailUnreadableJob
    \/ Release
    \/ \E h \in cands : ReleaseFails(h)
    \/ Configure
    \/ DeleteJob
    \/ PruneJobRuns
    \/ Tick

Spec == Init /\ [][Next]_vars

(***************************************************************************)
(* serve's delivery worker polls for ever, and time passes.                *)
(***************************************************************************)
Fairness == WF_vars(Release) /\ WF_vars(Tick)
FairSpec == Spec /\ Fairness

-----------------------------------------------------------------------------
(***************************************************************************)
(* A failure is held only while it is news: the job is there and failing,  *)
(* its last run did not succeed, and the channel was sent nothing of this  *)
(* streak (AlertState.Held: "a failure of the current streak, which the    *)
(* channel has not heard of").  What it was sent is told by the stamps: a  *)
(* held failure that a poll from before the streak releases, after its     *)
(* rule was changed, is stamped before the streak, and the next failure of *)
(* the streak may be held again.                                           *)
(***************************************************************************)
HeldIsNews ==
    \A c \in Channels : alert[c] # None /\ alert[c].held # None =>
        /\ job # None /\ job.failing
        /\ ~AfterSuccess
        /\ c \in inStreak => sent[c] < job.since
        /\ alert[c].held >= job.since /\ alert[c].last < job.since

(***************************************************************************)
(* "A failing one is never left unannounced" (pacing.go): a channel that   *)
(* has routed the job's failures since one of this streak was recorded has *)
(* been sent one of them, or holds one.                                    *)
(***************************************************************************)
Announced ==
    \A c \in heard : c \in inStreak \/ (alert[c] # None /\ alert[c].held # None)

(***************************************************************************)
(* What a channel is sent is spaced (pacing.go): by the stamps, a failure  *)
(* comes no sooner than the flap hold less its slack after the channel's   *)
(* last one, and a reminder of the same streak no sooner than the interval *)
(* less its slack, under the rules as they are then and the channel's kind *)
(* as it is or as the worker listed it.                                    *)
(***************************************************************************)
Spaced ==
    [][\A c \in Channels :
          <<c, "run.failed">> \in queued' /\ job # None /\ sent[c] # None =>
              \E k \in {kind[c]} \cup {h.kind : h \in {x \in cands : x.c = c}} :
                  LET r == FailedRepeat(c, k)
                      gap == sent'[c] - sent[c]
                  IN  r > 0 => /\ gap >= FlapHold(r) - Slack(FlapHold(r))
                               /\ c \in inStreak /\ ~AfterSuccess /\ sent[c] >= job.since
                                     => gap >= r - Slack(r)]_vars

(***************************************************************************)
(* "Recoveries go where the failure went" (README): when a success follows *)
(* a failed run, a channel that routes both and keeps a state for the job  *)
(* is sent the recovery exactly when it was sent a failure of the streak.  *)
(* (Not counted: a held failure released, after its rule was changed, by a *)
(* poll that began before the streak did and so is stamped before it.)     *)
(***************************************************************************)
RecoveryFollows ==
    [][(job # None /\ job' # None /\ job.failing /\ ~job'.failing /\ last # None) =>
          \A c \in recovered : kind[c] # None =>
              (<<c, "run.recovered">> \in queued'
                  <=> (Rules(c) = {} \/ alert[c] = None \/ (c \in inStreak /\ sent[c] >= job.since)))]_vars

(***************************************************************************)
(* A held failure does not stay held: it is sent when the hold ends, or    *)
(* dropped, although a poll may find it not due yet, fail, or look at a    *)
(* state that has moved on.                                                *)
(***************************************************************************)
HeldSettles ==
    \A c \in Channels : (alert[c] # None /\ alert[c].held # None) ~> (alert[c] = None \/ alert[c].held = None)
=============================================================================
