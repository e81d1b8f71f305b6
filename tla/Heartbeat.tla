----------------------------- MODULE Heartbeat -----------------------------
(***************************************************************************)
(* Dead-man's-switch heartbeats: the heartbeats table and the three actors *)
(* that change a row of it between each other's store calls:               *)
(*   - ping requests (httpserver/ping.go handlePing), whose arrival time   *)
(*     is taken BEFORE the rate limits, the slug lookup, the body read and *)
(*     the wait for the database, so they are recorded in any order;       *)
(*   - the watcher (heartbeat.go Check), which reads the overdue rows and  *)
(*     then marks them down one by one;                                    *)
(*   - operators: sync/add/import (upsert by name), rm, and restarts.      *)
(* A store operation (recordHeartbeatPing, markHeartbeatDown, ...) is one  *)
(* transaction and one atomic step.  The time NULL stands for is NoTime,   *)
(* as time.Time's zero value is for the code.  The ping log, which none of *)
(* these steps reads, is module PingLog.                                   *)
(***************************************************************************)
EXTENDS Integers

CONSTANTS
    Ids,          \* heartbeat ids (naturals; AUTOINCREMENT, never reused)
    Names,        \* heartbeat names, unique among the rows
    Rids,         \* the ?rid= values a ping may carry
    NoRid,        \* no ?rid=
    Periods,      \* period_seconds a definition may have (0: not watched)
    Graces,       \* grace_seconds
    Requests,     \* ping requests in progress at a time
    MaxTime,      \* bound: the clock
    MaxFaults,    \* bound: writes of the watcher that fail
    MaxRestarts,  \* bound: restarts of serve
    Unborn,       \* id not allocated yet
    Gone          \* row deleted

ASSUME IdsAssumption == Ids \subseteq Nat
ASSUME DurationsAssumption == Periods \subseteq Nat /\ Graces \subseteq Nat
ASSUME RidsAssumption == NoRid \notin Rids
ASSUME TimeAssumption == MaxTime \in Nat \ {0} /\ MaxFaults \in Nat /\ MaxRestarts \in Nat

VARIABLES
    hb,         \* [Ids -> row, Unborn or Gone]
    now,        \* the clock
    req,        \* ping requests: what they carry and how far they are
    watchTodo,  \* Check: overdue heartbeats not handled yet
    watchRow,   \* ... their rows as DueHeartbeats read them
    downs,      \* history: heartbeat.missed events of each heartbeat
    ups,        \* history: heartbeat.recovered events
    latest,     \* history: latest arrival among its recorded successes
    touched,    \* history: pinged (log entries aside) since DueHeartbeats
    faults, restarts

vars == <<hb, now, req, watchTodo, watchRow, downs, ups, latest, touched, faults, restarts>>
watchVars == <<watchTodo, watchRow>>
historyVars == <<downs, ups, latest, touched>>

NoTime == 0
Time == 0..MaxTime
Kinds == {"success", "start", "fail", "log"}

\* heartbeats: a row that times no run has no rid either
Row == {row \in [name : Names, status : {"new", "up", "down"}, seen : Time, started : Time,
                 rid : Rids \cup {NoRid}, period : Periods, grace : Graces, created : Time] :
            row.started = NoTime => row.rid = NoRid}

\* an id without a row is told apart from every row
ASSUME RowAssumption == Unborn \notin Row /\ Gone \notin Row /\ Unborn # Gone

Exists(h) == hb[h] \notin {Unborn, Gone}
Named(n) == {h \in Ids : Exists(h) /\ hb[h].name = n}
NewId(h) == hb[h] = Unborn /\ \A k \in Ids : k < h => hb[k] # Unborn

-----------------------------------------------------------------------------
(* Heartbeat.Deadline and what follows from it.                            *)

RunGrace(row) == IF row.grace > 0 THEN row.grace ELSE row.period

Anchor(row) == IF row.status = "new" THEN row.created ELSE row.seen

Watched(row) == row.period > 0 /\ row.status # "down" /\ Anchor(row) # NoTime

Overran(row) ==
    row.started # NoTime /\ row.started + RunGrace(row) < Anchor(row) + row.period + row.grace

Deadline(row) ==
    IF Overran(row) THEN row.started + RunGrace(row)
                    ELSE Anchor(row) + row.period + row.grace

Overdue(h) == Exists(h) /\ Watched(hb[h]) /\ now > Deadline(hb[h])

\* Not part of the specification: a scan that leaves out never-pinged heartbeats.
DueHeartbeatsUpOnly == {h \in Ids : Overdue(h) /\ hb[h].status = "up"}

DueHeartbeats == {h \in Ids : Overdue(h)}

-----------------------------------------------------------------------------
(* Ping requests.                                                          *)

Request == [step : {"idle", "resolve", "record"}, kind : Kinds, rid : Rids \cup {NoRid},
            name : Names \cup {""}, id : Ids \cup {0}, at : Time]

Idle == [step |-> "idle", kind |-> "log", rid |-> NoRid, name |-> "", id |-> 0, at |-> NoTime]

\* parsePing; now := clk.Now().  No two requests read the same nanosecond.
Arrive(q) ==
    /\ req[q].step = "idle"
    /\ now < MaxTime /\ now' = now + 1
    /\ \E kind \in Kinds, rid \in Rids \cup {NoRid} :
        \/ \E h \in Ids :
            /\ hb[h] # Unborn
            /\ req' = [req EXCEPT ![q] = [step |-> "record", kind |-> kind, rid |-> rid,
                                          name |-> "", id |-> h, at |-> now']]
        \/ \E n \in Names :
            req' = [req EXCEPT ![q] = [step |-> "resolve", kind |-> kind, rid |-> rid,
                                       name |-> n, id |-> 0, at |-> now']]
    /\ UNCHANGED <<hb, watchVars, historyVars, faults, restarts>>

\* The request ends without a record: rate limited, unreadable body, unknown
\* name, timeout, database error.
Refuse(q) ==
    /\ req[q].step # "idle"
    /\ req' = [req EXCEPT ![q] = Idle]
    /\ UNCHANGED <<hb, now, watchVars, historyVars, faults, restarts>>

NewRow(n, p, g) ==
    [name |-> n, status |-> "new", seen |-> NoTime, started |-> NoTime, rid |-> NoRid,
     period |-> p, grace |-> g, created |-> now]

\* resolveSlug: the heartbeat of that name, or (?create=1) a new one that
\* CreateHeartbeatIfAbsent inserts, with some default period and grace
ResolveSlug(q) ==
    /\ req[q].step = "resolve"
    /\ \E h \in Ids :
        /\ req' = [req EXCEPT ![q].step = "record", ![q].id = h]
        /\ IF Named(req[q].name) # {}
           THEN h \in Named(req[q].name) /\ UNCHANGED hb
           ELSE /\ NewId(h)
                /\ \E p \in Periods, g \in Graces : hb' = [hb EXCEPT ![h] = NewRow(req[q].name, p, g)]
    /\ UNCHANGED <<now, watchVars, historyVars, faults, restarts>>

\* the row after a ping of each kind (recordHeartbeatPing)
AfterFail(row, at) == [row EXCEPT !.seen = at, !.status = "down", !.started = NoTime, !.rid = NoRid]

AfterStart(row, at, rid) == [row EXCEPT !.started = at, !.rid = rid]

AfterSuccess(row, at, rid) ==
    LET ends == rid = NoRid \/ row.rid = rid
    IN  [row EXCEPT !.seen = at, !.status = "up",
                    !.started = IF ends THEN NoTime ELSE @,
                    !.rid = IF ends THEN NoRid ELSE @]

\* The guarded UPDATE fired: the ping is the one that makes the transition.
\* Not part of the specification: a failure that always counts as a transition.
TransitionEveryFail(row, kind) == kind = "success" => row.status = "down"

Transition(row, kind) ==
    \/ kind = "fail" /\ row.status # "down"
    \/ kind = "success" /\ row.status = "down"

\* recordHeartbeatPing; a token nobody owns (any more) is a 404
Record(q) ==
    /\ req[q].step = "record"
    /\ LET h == req[q].id  kind == req[q].kind  at == req[q].at  rid == req[q].rid  row == hb[h]
       IN  IF ~Exists(h)
           THEN UNCHANGED <<hb, historyVars>>
           ELSE /\ hb' = [hb EXCEPT ![h] = CASE kind = "success" -> AfterSuccess(row, at, rid)
                                             [] kind = "fail"    -> AfterFail(row, at)
                                             [] kind = "start"   -> AfterStart(row, at, rid)
                                             [] OTHER            -> row]
                /\ downs' = IF Transition(row, kind) /\ kind = "fail"
                            THEN [downs EXCEPT ![h] = @ + 1] ELSE downs
                /\ ups' = IF Transition(row, kind) /\ kind = "success"
                          THEN [ups EXCEPT ![h] = @ + 1] ELSE ups
                /\ latest' = IF kind = "success" /\ at > latest[h]
                             THEN [latest EXCEPT ![h] = at] ELSE latest
                /\ touched' = IF kind # "log" THEN touched \cup {h} ELSE touched
    /\ req' = [req EXCEPT ![q] = Idle]
    /\ UNCHANGED <<now, watchVars, faults, restarts>>

-----------------------------------------------------------------------------
(* The watcher.                                                            *)

\* now := clock.Now(); due := DueHeartbeats(now)
WatchList ==
    /\ watchTodo = {} /\ DueHeartbeats # {}
    /\ watchTodo' = DueHeartbeats
    /\ watchRow' = [h \in Ids |-> IF h \in DueHeartbeats THEN hb[h] ELSE Unborn]
    /\ touched' = {}
    /\ UNCHANGED <<hb, now, req, downs, ups, latest, faults, restarts>>

\* The row still has the status, last_seen_at and started_at observed.
\* Not part of the specification: a guard on the status alone.
UnchangedStatus(h) == Exists(h) /\ hb[h].status = watchRow[h].status

Unmoved(h) ==
    /\ Exists(h)
    /\ hb[h].status = watchRow[h].status
    /\ hb[h].seen = watchRow[h].seen
    /\ hb[h].started = watchRow[h].started

\* MarkHeartbeatDownAndEmit commits: the row and its event together
MarkDown(h) ==
    /\ Unmoved(h)
    /\ hb' = [hb EXCEPT ![h].status = "down", ![h].started = NoTime, ![h].rid = NoRid]
    /\ downs' = [downs EXCEPT ![h] = @ + 1]

\* The loop of Check over the due heartbeats, by id.  A failed write is logged
\* and left to the next Check; its commit may have gone through all the same.
WatchMark(h) ==
    /\ h \in watchTodo /\ \A k \in watchTodo : h <= k
    /\ \/ MarkDown(h) /\ UNCHANGED faults
       \/ ~Unmoved(h) /\ UNCHANGED <<hb, downs, faults>>
       \/ /\ faults < MaxFaults /\ faults' = faults + 1
          /\ MarkDown(h) \/ UNCHANGED <<hb, downs>>
    /\ watchTodo' = watchTodo \ {h}
    /\ watchRow' = [watchRow EXCEPT ![h] = Unborn]
    /\ UNCHANGED <<now, req, ups, latest, touched, restarts>>

-----------------------------------------------------------------------------
(* Operators, restarts, time.                                              *)

\* CreateHeartbeat: upsert by name; status, token and pings are kept
CreateHeartbeat(n, p, g) ==
    /\ \E h \in Ids :
        IF Named(n) # {}
        THEN h \in Named(n) /\ hb' = [hb EXCEPT ![h].period = p, ![h].grace = g]
        ELSE NewId(h) /\ hb' = [hb EXCEPT ![h] = NewRow(n, p, g)]
    /\ UNCHANGED <<now, req, watchVars, historyVars, faults, restarts>>

DeleteHeartbeat(h) ==
    /\ Exists(h)
    /\ hb' = [hb EXCEPT ![h] = Gone]
    /\ UNCHANGED <<now, req, watchVars, historyVars, faults, restarts>>

\* serve stops and starts: the requests and the watcher's pass are lost
Restart ==
    /\ restarts < MaxRestarts /\ restarts' = restarts + 1
    /\ req' = [q \in Requests |-> Idle]
    /\ watchTodo' = {}
    /\ watchRow' = [h \in Ids |-> Unborn]
    /\ UNCHANGED <<hb, now, historyVars, faults>>

Pass ==
    /\ now < MaxTime /\ now' = now + 1
    /\ UNCHANGED <<hb, req, watchVars, historyVars, faults, restarts>>

Init ==
    /\ hb = [h \in Ids |-> Unborn]
    /\ now = 1
    /\ req = [q \in Requests |-> Idle]
    /\ watchTodo = {} /\ watchRow = [h \in Ids |-> Unborn]
    /\ downs = [h \in Ids |-> 0] /\ ups = [h \in Ids |-> 0]
    /\ latest = [h \in Ids |-> NoTime] /\ touched = {}
    /\ faults = 0 /\ restarts = 0

Check == WatchList \/ \E h \in Ids : WatchMark(h)

Next ==
    \/ \E q \in Requests : Arrive(q) \/ Refuse(q) \/ ResolveSlug(q) \/ Record(q)
    \/ Check
    \/ \E n \in Names, p \in Periods, g \in Graces : CreateHeartbeat(n, p, g)
    \/ \E h \in Ids : DeleteHeartbeat(h)
    \/ Restart
    \/ Pass

Spec == Init /\ [][Next]_vars

\* The watcher's ticker calls Check for as long as serve runs, and a pass ends.
\* Nothing is assumed of pings or operators.
FairSpec == Spec /\ WF_vars(Check)

-----------------------------------------------------------------------------
(* Properties.                                                             *)

\* A request that looks a name up has one, and one that records has an id.
RequestsOK ==
    /\ req \in [Requests -> Request]
    /\ \A q \in Requests : req[q].step = "resolve" => req[q].name \in Names
    /\ \A q \in Requests : req[q].step = "record" => req[q].id \in Ids

\* Every variable has its type; a row without a run has no rid.
HeartbeatTypeOK ==
    /\ hb \in [Ids -> Row \cup {Unborn, Gone}]
    /\ now \in Time
    /\ RequestsOK
    /\ watchTodo \subseteq Ids
    /\ watchRow \in [Ids -> Row \cup {Unborn}]
    /\ downs \in [Ids -> Nat] /\ ups \in [Ids -> Nat]
    /\ latest \in [Ids -> Time] /\ touched \subseteq Ids
    /\ faults \in Nat /\ restarts \in Nat

\* README: "A heartbeat that is down is not reported again until it has
\* recovered, so it alerts once per outage".  Its alerts and its recoveries
\* alternate, whoever of racing pings and the watcher takes it down or up, and
\* it is never down without its alert.
OncePerOutage ==
    \A h \in Ids : hb[h] # Gone =>
        downs[h] = ups[h] + (IF Exists(h) /\ hb[h].status = "down" THEN 1 ELSE 0)

\* Check: "a ping won the race -> do NOT emit a spurious miss".  The watcher
\* takes a heartbeat down only when nothing was recorded for it since its row
\* was read, although only three columns of it are compared.
PingWinsRace ==
    [][\A h \in Ids : WatchMark(h) /\ hb'[h] # hb[h] => h \notin touched]_vars

\* README: "If a ping does not arrive within `period + grace`, Tend emits
\* heartbeat.missed", also for one that was never pinged or a run that does not
\* end: an overdue heartbeat is taken down unless a ping, an edit or a removal
\* comes first.
OverdueDetected == \A h \in Ids : Overdue(h) ~> ~Overdue(h)

-----------------------------------------------------------------------------
(* The inductive invariant behind PingWinsRace (HeartbeatProofs).          *)

InFlight(q) == req[q].step # "idle"

\* A stamp is older than a request's unless it is that request's own.
StampInv ==
    /\ \A q \in Requests : InFlight(q) => req[q].at # NoTime /\ req[q].at <= now
    /\ \A q, p \in Requests : InFlight(q) /\ InFlight(p) /\ req[q].at = req[p].at => q = p
    /\ \A h \in Ids : Exists(h) => hb[h].seen <= now /\ hb[h].started <= now
    /\ \A h \in Ids, q \in Requests : Exists(h) /\ InFlight(q) =>
            hb[h].seen # req[q].at /\ hb[h].started # req[q].at

\* What the watcher observed is as old, and a row pinged since is not as observed.
ObservedInv ==
    /\ \A h \in watchTodo : hb[h] # Unborn /\ watchRow[h] # Unborn /\ watchRow[h].status # "down"
    /\ \A h \in watchTodo : watchRow[h].seen <= now /\ watchRow[h].started <= now
    /\ \A h \in watchTodo, q \in Requests : InFlight(q) =>
            watchRow[h].seen # req[q].at /\ watchRow[h].started # req[q].at
    /\ \A h \in watchTodo : h \in touched => ~Unmoved(h)

-----------------------------------------------------------------------------
(* What the documentation says and the code does not do.                   *)

\* heartbeat.missed: "period + grace passed without a ping" (README, Alerting):
\* the watcher takes a heartbeat down only when its latest success arrived more
\* than period + grace ago, or when a run it started overran.
MissedOnlyWithoutPing ==
    [][\A h \in Ids : WatchMark(h) /\ hb'[h] # hb[h] =>
            \/ Overran(hb[h])
            \/ now > latest[h] + hb[h].period + hb[h].grace]_vars
=============================================================================
