---------------------------- MODULE RunLifecycle ----------------------------
(***************************************************************************)
(* What the run queue promises, with no scheduler, reaper, retry or clock: *)
(* a run is queued once, handed to one worker at a time, handed out again  *)
(* only when no worker has it any more (at-least-once), and ended at most  *)
(* once, with exactly one event.  Module Runner is shown to implement it.  *)
(***************************************************************************)
EXTENDS Naturals

CONSTANTS Runs, Takers

VARIABLES
    state,   \* "none", "pending", "running", "ended" or "deleted"
    events,  \* number of terminal events of each run
    takers   \* the live workers that have the run in their hands

lifecycleVars == <<state, events, takers>>

LInit ==
    /\ state = [r \in Runs |-> "none"]
    /\ events = [r \in Runs |-> 0]
    /\ takers = [r \in Runs |-> {}]

LEnqueue(r) ==
    /\ state[r] = "none"
    /\ state' = [state EXCEPT ![r] = "pending"]
    /\ UNCHANGED <<events, takers>>

\* A job that cannot even be read: its run is recorded as failed at once.
LRecordFailed(r) ==
    /\ state[r] = "none"
    /\ state' = [state EXCEPT ![r] = "ended"]
    /\ events' = [events EXCEPT ![r] = 1]
    /\ UNCHANGED takers

LTake(r, t) ==
    /\ state[r] = "pending" /\ takers[r] = {}
    /\ \A q \in Runs : t \notin takers[q]
    /\ state' = [state EXCEPT ![r] = "running"]
    /\ takers' = [takers EXCEPT ![r] = {t}]
    /\ UNCHANGED events

\* The run ends, with its event; its worker may or may not know yet.
LEnd(r) ==
    /\ state[r] = "running"
    /\ state' = [state EXCEPT ![r] = "ended"]
    /\ events' = [events EXCEPT ![r] = 1]
    /\ \E kept \in SUBSET takers[r] : takers' = [takers EXCEPT ![r] = kept]

\* Workers let go of their runs: they returned, gave up or died.
LLetGo ==
    /\ \E gone \in SUBSET Takers : takers' = [r \in Runs |-> takers[r] \ gone]
    /\ UNCHANGED <<state, events>>

LRequeue ==
    /\ \E S \in SUBSET {r \in Runs : state[r] = "running" /\ takers[r] = {}} :
        state' = [r \in Runs |-> IF r \in S THEN "pending" ELSE state[r]]
    /\ UNCHANGED <<events, takers>>

LDelete ==
    /\ \E S \in SUBSET {r \in Runs : state[r] # "none"} :
        state' = [r \in Runs |-> IF r \in S THEN "deleted" ELSE state[r]]
    /\ UNCHANGED <<events, takers>>

LNext ==
    \/ \E r \in Runs : LEnqueue(r) \/ LRecordFailed(r) \/ LEnd(r)
    \/ \E r \in Runs, t \in Takers : LTake(r, t)
    \/ LLetGo \/ LRequeue \/ LDelete

LSpec == LInit /\ [][LNext]_lifecycleVars
=============================================================================
