------------------------------ MODULE MCWatch ------------------------------
(***************************************************************************)
(* What watches from outside the runner and must come to an end: the       *)
(* heartbeat watcher (module Heartbeat), tend exec around a command        *)
(* (module PingExec), or the probes (module Probes).  None looks at        *)
(* another's state, so a behaviour explores one of them.                   *)
(***************************************************************************)
EXTENDS Heartbeat, PingExec

CONSTANTS
    Day, WarnDays, Num, Den, RenewalGraceMax, Lifetimes, Domains, TTL, MaxLines,
    ProbeMaxTime, MaxChanges

VARIABLES kind, probeNow, cert, date, changes, held, dom, talk, part

P == INSTANCE Probes WITH now <- probeNow, MaxTime <- ProbeMaxTime

ASSUME ProbesAssumed == P!ProbesAssumption

probeVars == <<kind, probeNow, cert, date, changes, held, dom, talk>>

NoExec == start = FALSE /\ phase = "exited" /\ Quiet

MCInit ==
    \/ part = "heartbeat" /\ Init /\ NoExec /\ P!Fresh({"none"})
    \/ part = "exec" /\ Init /\ ExecInit /\ P!Fresh({"none"})
    \/ part = "probes" /\ Init /\ NoExec /\ P!Init

MCNext ==
    \/ part = "heartbeat" /\ Next /\ UNCHANGED <<execVars, probeVars, part>>
    \/ part = "exec" /\ ExecNext /\ UNCHANGED <<vars, probeVars, part>>
    \/ part = "probes" /\ P!Next /\ UNCHANGED <<vars, execVars, part>>

MCSpec ==
    /\ MCInit /\ [][MCNext]_<<vars, execVars, probeVars, part>>
    /\ WF_vars(Check) /\ ExecFairness /\ P!Fairness

(* See module Probes: an alarm holds until its cause is replaced. *)
AlarmHolds == P!AlarmHolds

(* See module Probes: the bootstrap file used is fresh. *)
BootstrapFresh == part = "probes" => P!BootstrapFresh

(* See module Probes: the STARTTLS exchange ends. *)
TalkEnds == P!TalkEnds
=============================================================================
