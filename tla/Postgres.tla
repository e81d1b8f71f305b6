------------------------------- MODULE Postgres -------------------------------
(***************************************************************************)
(* The Postgres backend (internal/store/postgres.go): transactions that    *)
(* overlap, where SQLite runs one write at a time.  One job, its runs, the *)
(* channels its alerts go to and the deliveries queued for them.           *)
(*                                                                         *)
(* Isolation is READ COMMITTED.  A statement reads what is committed when  *)
(* it runs, and its own transaction's writes.  An UPDATE or DELETE takes   *)
(* the rows it matches; it waits for one that another transaction has      *)
(* written, and looks at it again once that has ended; a row that does not *)
(* match is not waited for.  mine holds the rows a transaction has locked, *)
(* as it leaves them; committing writes them to db.                        *)
(*                                                                         *)
(* Which channels an alert goes to (notify.Pacing) is module Alerts; here  *)
(* a failure is sent or held, and a recovery sent or not, either way.      *)
(***************************************************************************)
EXTENDS Integers, FiniteSets

CONSTANTS
    Sessions,   \* connections of the pool
    Runs,       \* run ids
    Channels,   \* channel ids
    Dels,       \* delivery ids
    MaxTx       \* bound: transactions begun

(* The pool is finite; ids are serial numbers, from 1. *)
ASSUME PgAssumption ==
    /\ Runs \subseteq Nat \ {0} /\ Channels \subseteq Nat \ {0} /\ Dels \subseteq Nat \ {0}
    /\ Runs # {} /\ MaxTx \in Nat /\ IsFiniteSet(Sessions)

VARIABLES
    db,       \* the committed rows
    tx,       \* the transaction of each session
    events,   \* committed events
    eventId,   \* the sequence events take their ids from (never rolled back)
    queued,   \* committed deliveries of this job's alerts
    begun,    \* transactions begun; stamps and numbers them
    crossed   \* history: a success read the job's streak while a failure that had
              \* counted itself in it was not committed

pgVars == <<db, tx, events, eventId, queued, begun, crossed>>

RunRow(r) == <<"run", r>>
JobRow == <<"job", 0>>
AlertRow(c) == <<"alert", c>>
ChannelRow(c) == <<"channel", c>>
DelRow(d) == <<"del", d>>

RunRows == {RunRow(r) : r \in Runs}
Rows ==
    RunRows \cup {JobRow} \cup {AlertRow(c) : c \in Channels} \cup {ChannelRow(c) : c \in Channels}
        \cup {DelRow(d) : d \in Dels}

Oldest(S) == CHOOSE r \in S : \A q \in S : r <= q

(* The deliveries explored are all of one channel. *)
DelChannel == Oldest(Channels)

(* A transaction that has locked no row yet; a row put among those it has.   *)
NoRows == [x \in {} |-> x]
Put(f, x, v) == [y \in DOMAIN f \cup {x} |-> IF y = x THEN v ELSE f[y]]

NoTx == [op |-> "idle", pc |-> "idle", id |-> 0, status |-> "none", at |-> 0, todo |-> {},
         fresh |-> FALSE, jobless |-> FALSE, ev |-> 0,
         mine |-> NoRows, events |-> {}, queued |-> {}]

PgInit ==
    /\ \E status \in [Runs -> {"none", "running"}], failed \in {0, 1}, held \in {0, 1} :
        /\ held <= failed /\ status[Oldest(Runs)] = "running"
        /\ db = [x \in Rows |->
             CASE x[1] = "run" -> [status |-> status[x[2]], ended |-> 0, claims |-> 0,
                                   there |-> status[x[2]] # "none"]
               [] x[1] = "job" -> [there |-> TRUE, failed |-> failed]
               [] x[1] = "alert" -> [there |-> failed = 1, held |-> held]
               [] x[1] = "channel" -> [there |-> TRUE]
               [] x[1] = "del" -> [state |-> "pending", due |-> TRUE, tried |-> FALSE]]
        /\ events = IF failed = 1 THEN {[id |-> 1, type |-> "run.failed", of |-> 0]} ELSE {}
    /\ tx = [t \in Sessions |-> NoTx]
    /\ eventId = 2 /\ queued = {} /\ begun = 0 /\ crossed = FALSE

-----------------------------------------------------------------------------
(* Statements *)

View(t, x) == IF x \in DOMAIN tx[t].mine THEN tx[t].mine[x] ELSE db[x]
Locked(t, x) == \E u \in Sessions \ {t} : x \in DOMAIN tx[u].mine

Set(t, r) == tx' = [tx EXCEPT ![t] = r]
At(t, pc) == tx[t].pc = pc
Go(t, pc) == [tx[t] EXCEPT !.pc = pc]

(* UPDATE, DELETE or SELECT ... FOR UPDATE of row x: v is what it becomes.   *)
Take(t, x, v, rec) == ~Locked(t, x) /\ Set(t, [rec EXCEPT !.mine = Put(@, x, v)])

Begin(t, op, id, status, pc) ==
    /\ tx[t] = NoTx /\ begun < MaxTx /\ begun' = begun + 1
    /\ Set(t, [NoTx EXCEPT !.op = op, !.id = id, !.status = status, !.at = begun + 1, !.pc = pc])

Rest == UNCHANGED <<db, events, eventId, queued, crossed>>

(* A statement fails, or its process dies: nothing is left of the transaction. *)
Rollback(t) == tx[t] # NoTx /\ Set(t, NoTx) /\ UNCHANGED begun /\ Rest

Commit(t) ==
    /\ At(t, "commit")
    /\ db' = [x \in DOMAIN db |-> View(t, x)]
    /\ events' = events \cup tx[t].events
    /\ queued' = queued \cup tx[t].queued
    /\ Set(t, NoTx) /\ UNCHANGED <<eventId, begun, crossed>>

(* INSERT INTO events; the id is taken whether the transaction commits or not. *)
Emit(rec, type, of) ==
    [rec EXCEPT !.events = @ \cup {[id |-> eventId, type |-> type, of |-> of]}, !.ev = eventId]

(* INSERT INTO deliveries, due now. *)
Queue(rec, e, c) == [rec EXCEPT !.queued = @ \cup {[tx |-> rec.at, ev |-> e, ch |-> c]}]

Routed(t) == {c \in Channels : View(t, ChannelRow(c)).there}

-----------------------------------------------------------------------------
(* Queue of runs *)

EnqueueRun(r) ==
    /\ db[RunRow(r)].status = "none" /\ \A t \in Sessions : RunRow(r) \notin DOMAIN tx[t].mine
    /\ begun < MaxTx /\ begun' = begun + 1
    /\ db' = [db EXCEPT ![RunRow(r)] =
                [status |-> "pending", ended |-> 0, claims |-> 0, there |-> TRUE]]
    /\ UNCHANGED <<tx, events, eventId, queued, crossed>>

Pending == {r \in Runs : db[RunRow(r)].there /\ db[RunRow(r)].status = "pending"}

(* ClaimRun: the subquery locks the oldest pending run that no other         *)
(* transaction has locked (FOR UPDATE SKIP LOCKED), the UPDATE claims it.    *)
ClaimPick(t) ==
    /\ At(t, "pick")
    /\ LET free == {r \in Pending : ~Locked(t, RunRow(r))}
       IN IF free = {} THEN Set(t, NoTx)
          ELSE Take(t, RunRow(Oldest(free)), db[RunRow(Oldest(free))],
                    [Go(t, "claim") EXCEPT !.id = Oldest(free)])
    /\ UNCHANGED begun /\ Rest

ClaimUpdate(t) ==
    /\ At(t, "claim")
    /\ LET x == RunRow(tx[t].id)
       IN Take(t, x, [View(t, x) EXCEPT !.status = "running", !.claims = @ + 1], Go(t, "commit"))
    /\ UNCHANGED begun /\ Rest

-----------------------------------------------------------------------------
(* A run ends: FinishRunAndEmit and ReapStaleRun *)

(* Not part of the specification: the status is not part of the UPDATE. *)
PgFinishRunAnyStatus(t) ==
    /\ At(t, "run")
    /\ LET x == RunRow(tx[t].id)
       IN IF ~View(t, x).there THEN Set(t, NoTx)
          ELSE Take(t, x, [View(t, x) EXCEPT !.status = tx[t].status, !.ended = tx[t].at],
                    Go(t, IF tx[t].status = "failed" THEN "prev" ELSE "ok"))
    /\ UNCHANGED begun /\ Rest

(* pgFinishRunTx, and the first statement of ReapStaleRun: only a run still  *)
(* 'running' is written; otherwise nothing is.                               *)
PgFinishRun(t) ==
    /\ At(t, "run")
    /\ LET x == RunRow(tx[t].id)
       IN IF ~View(t, x).there \/ View(t, x).status # "running" THEN Set(t, NoTx)
          ELSE Take(t, x, [View(t, x) EXCEPT !.status = tx[t].status, !.ended = tx[t].at],
                    Go(t, IF tx[t].status = "failed" THEN "prev" ELSE "ok"))
    /\ UNCHANGED begun /\ Rest

(* previousRunStatusTx: the outcome of the job's other run that ended last,  *)
(* "none" without one.                                                       *)
PreviousStatus(t, r) ==
    LET done == {q \in Runs \ {r} : View(t, RunRow(q)).there /\ View(t, RunRow(q)).ended > 0}
    IN IF done = {} THEN "none"
       ELSE View(t, RunRow(CHOOSE q \in done :
              \A p \in done : View(t, RunRow(p)).ended <= View(t, RunRow(q)).ended)).status

AfterSucceeded(t) ==
    /\ At(t, "prev")
    /\ Set(t, [Go(t, "streak") EXCEPT !.fresh = PreviousStatus(t, tx[t].id) = "succeeded"])
    /\ UNCHANGED begun /\ Rest

(* streakOf for a run.failed: the job's row is updated, and so locked; a job *)
(* that is gone has no streak.                                               *)
StreakOf(t) ==
    /\ At(t, "streak")
    /\ LET job == View(t, JobRow)
       IN IF ~job.there THEN Set(t, [Go(t, "event") EXCEPT !.jobless = TRUE])
          ELSE Take(t, JobRow, [job EXCEPT !.failed = IF tx[t].fresh THEN 1 ELSE @ + 1], Go(t, "event"))
    /\ UNCHANGED begun /\ Rest

InsertFailed(t) ==
    /\ At(t, "event")
    /\ Set(t, [Emit(Go(t, "pace"), "run.failed", tx[t].id) EXCEPT !.todo = Routed(t)])
    /\ eventId' = eventId + 1
    /\ UNCHANGED <<db, events, queued, begun, crossed>>

(* paced, for each matched channel in turn: sent, or held until later; what  *)
(* it was told is kept (saveAlertState) unless the job is gone.              *)
Pace(t) ==
    /\ At(t, "pace")
    /\ IF tx[t].todo = {}
       THEN Set(t, Go(t, IF tx[t].op = "unreadable" THEN "unschedule" ELSE "commit"))
       ELSE LET c == Oldest(tx[t].todo)
                rec == [tx[t] EXCEPT !.todo = @ \ {c}]
            IN IF tx[t].jobless THEN Set(t, Queue(rec, tx[t].ev, c))
               ELSE \/ Take(t, AlertRow(c), [there |-> TRUE, held |-> 0], Queue(rec, tx[t].ev, c))
                    \/ Take(t, AlertRow(c), [there |-> TRUE, held |-> tx[t].ev], rec)
    /\ UNCHANGED begun /\ Rest

(* A success: run.succeeded, and run.recovered when the run before it was    *)
(* not one; that locks the job's row before it is written.                   *)
InsertSucceeded(t) ==
    /\ At(t, "ok")
    /\ Set(t, Emit(Go(t, "previous"), "run.succeeded", tx[t].id))
    /\ eventId' = eventId + 1
    /\ UNCHANGED <<db, events, queued, begun, crossed>>

Recovering(t) ==
    /\ At(t, "previous")
    /\ Set(t, Go(t, IF PreviousStatus(t, tx[t].id) \in {"none", "succeeded"} THEN "end" ELSE "recover"))
    /\ UNCHANGED begun /\ Rest

InsertRecovered(t) ==
    /\ At(t, "recover")
    /\ \E told \in SUBSET Routed(t) :
        LET rec == Emit(Go(t, "end"), "run.recovered", tx[t].id)
            out == [rec EXCEPT !.queued = @ \cup {[tx |-> rec.at, ev |-> rec.ev, ch |-> c] : c \in told}]
        IN IF View(t, JobRow).there THEN Take(t, JobRow, View(t, JobRow), out) ELSE Set(t, out)
    /\ eventId' = eventId + 1
    /\ UNCHANGED <<db, events, queued, begun, crossed>>

(* Not part of the specification: the streak is left to the next failure. *)
EndStreakLater(t) ==
    /\ At(t, "end") /\ Set(t, Go(t, "drop"))
    /\ UNCHANGED begun /\ Rest

(* endStreak: UPDATE jobs ... AND failed_runs <> 0, then dropHeld. *)
EndStreak(t) ==
    /\ At(t, "end")
    /\ LET job == View(t, JobRow)
       IN IF job.there /\ job.failed # 0 THEN Take(t, JobRow, [job EXCEPT !.failed = 0], Go(t, "drop"))
          ELSE Set(t, Go(t, "drop"))
    /\ crossed' = (crossed \/ \E u \in Sessions : /\ JobRow \in DOMAIN tx[u].mine
                                                  /\ tx[u].mine[JobRow].failed > View(t, JobRow).failed)
    /\ UNCHANGED <<db, events, eventId, queued, begun>>

(* One UPDATE of the held failures it saw when it began; one that is not     *)
(* held any more when its turn comes is left alone.                          *)
DropHeld(t) ==
    /\ \/ /\ At(t, "drop")
          /\ Set(t, [Go(t, "dropping") EXCEPT
                !.todo = {c \in Channels : View(t, AlertRow(c)).there /\ View(t, AlertRow(c)).held # 0}])
       \/ /\ At(t, "dropping") /\ tx[t].todo # {}
          /\ LET c == Oldest(tx[t].todo)
                 a == View(t, AlertRow(c))
                 rec == [tx[t] EXCEPT !.todo = @ \ {c}]
             IN /\ ~Locked(t, AlertRow(c))
                /\ IF a.there /\ a.held # 0 THEN Take(t, AlertRow(c), [a EXCEPT !.held = 0], rec)
                   ELSE Set(t, rec)
       \/ At(t, "dropping") /\ tx[t].todo = {} /\ Set(t, Go(t, "commit"))
    /\ UNCHANGED begun /\ Rest

(* FailUnreadableJob: a failed run is inserted, its event recorded like any  *)
(* other run's, and the job taken off the schedule.                          *)
FailUnreadableJob(t, r) ==
    /\ tx[t] = NoTx /\ begun < MaxTx /\ begun' = begun + 1
    /\ db[RunRow(r)].status = "none" /\ ~Locked(t, RunRow(r))
    /\ Set(t, [NoTx EXCEPT !.op = "unreadable", !.id = r, !.status = "failed", !.at = begun + 1,
                           !.pc = "prev",
                           !.mine = Put(NoRows, RunRow(r), [status |-> "failed", ended |-> begun + 1,
                                                            claims |-> 0, there |-> TRUE])])
    /\ Rest

Unschedule(t) ==
    /\ At(t, "unschedule")
    /\ IF View(t, JobRow).there THEN Take(t, JobRow, View(t, JobRow), Go(t, "commit"))
       ELSE Set(t, Go(t, "commit"))
    /\ UNCHANGED begun /\ Rest

-----------------------------------------------------------------------------
(* DeleteJob: the runs, the job, what its channels were told *)

Present(t, rows) == {x \in rows : View(t, x).there}
AlertRows(t) ==
    {AlertRow(c) : c \in IF tx[t].op = "delete channel" THEN {tx[t].id} ELSE Channels}

DeleteJobLookup(t) ==
    /\ At(t, "lookup")
    /\ IF ~View(t, JobRow).there THEN Set(t, NoTx) /\ UNCHANGED eventId
       ELSE /\ Set(t, [Emit(Go(t, "runs"), "job.removed", 0) EXCEPT !.todo = Present(t, RunRows)])
            /\ eventId' = eventId + 1
    /\ UNCHANGED <<db, events, queued, begun, crossed>>

(* DELETE of the rows todo, which the statement saw when it began; it visits *)
(* them in the order of the index, by id.                                    *)
DeleteNext(t) ==
    \E x \in tx[t].todo :
        /\ \A y \in tx[t].todo : x[2] <= y[2]
        /\ Take(t, x, [View(t, x) EXCEPT !.there = FALSE], [tx[t] EXCEPT !.todo = @ \ {x}])

DeleteRuns(t) ==
    /\ At(t, "runs")
    /\ IF tx[t].todo # {} THEN DeleteNext(t) ELSE Set(t, Go(t, "job"))
    /\ UNCHANGED begun /\ Rest

(* Not part of the specification: the alert states go before the job. *)
DeleteJobRowLast(t) ==
    /\ At(t, "job")
    /\ \E c \in Channels :
        IF View(t, AlertRow(c)).there
        THEN Take(t, AlertRow(c), [View(t, AlertRow(c)) EXCEPT !.there = FALSE], tx[t])
        ELSE IF View(t, JobRow).there
        THEN Take(t, JobRow, [View(t, JobRow) EXCEPT !.there = FALSE], Go(t, "commit"))
        ELSE Set(t, Go(t, "commit"))
    /\ UNCHANGED begun /\ Rest

(* A job another transaction has deleted meanwhile matches nothing. *)
DeleteJobRow(t) ==
    /\ At(t, "job")
    /\ IF View(t, JobRow).there
       THEN Take(t, JobRow, [View(t, JobRow) EXCEPT !.there = FALSE], Go(t, "states"))
       ELSE Set(t, Go(t, "states"))
    /\ UNCHANGED begun /\ Rest

DeleteAlertStates(t) ==
    /\ \/ At(t, "states") /\ Set(t, [Go(t, "alerts") EXCEPT !.todo = Present(t, AlertRows(t))])
       \/ At(t, "alerts") /\ tx[t].todo # {} /\ DeleteNext(t)
       \/ At(t, "alerts") /\ tx[t].todo = {}
          /\ Set(t, Go(t, IF tx[t].op = "delete channel" THEN "deliveries" ELSE "commit"))
    /\ UNCHANGED begun /\ Rest

(* DeleteChannel: its alert states, its pending deliveries, the channel. *)
FailPending(t) ==
    /\ At(t, "deliveries")
    /\ LET pending == {d \in Dels : tx[t].id = DelChannel /\ View(t, DelRow(d)).state = "pending"}
       IN IF pending = {} THEN Set(t, Go(t, "channel"))
          ELSE LET x == DelRow(Oldest(pending))
               IN Take(t, x, [View(t, x) EXCEPT !.state = "failed"], tx[t])
    /\ UNCHANGED begun /\ Rest

DeleteChannelRow(t) ==
    /\ At(t, "channel")
    /\ LET x == ChannelRow(tx[t].id)
       IN IF View(t, x).there THEN Take(t, x, [there |-> FALSE], Go(t, "commit"))
          ELSE Set(t, Go(t, "commit"))
    /\ UNCHANGED begun /\ Rest

-----------------------------------------------------------------------------
(* releaseOne, for channel id and the event ev it held when the candidates   *)
(* were read                                                                 *)

StillHeld(t) == LET a == View(t, AlertRow(tx[t].id)) IN a.there /\ a.held = tx[t].ev

(* Not routed any more: dropped at once; not due yet: left. *)
ReleasePeek(t) ==
    /\ At(t, "peek")
    /\ \/ ~StillHeld(t) /\ Set(t, NoTx)
       \/ StillHeld(t) /\ \E pc \in {"lock", "drop one"} : Set(t, Go(t, pc))
    /\ UNCHANGED begun /\ Rest

(* Not part of the specification: the job's row is read without FOR UPDATE. *)
ReleaseLockUnlocked(t) ==
    /\ At(t, "lock")
    /\ LET job == View(t, JobRow)
       IN Set(t, Go(t, IF job.there /\ job.failed > 0 THEN "held" ELSE "drop one"))
    /\ UNCHANGED begun /\ Rest

ReleaseLock(t) ==
    /\ At(t, "lock")
    /\ LET job == View(t, JobRow)
       IN IF ~job.there THEN Set(t, Go(t, "drop one"))
          ELSE Take(t, JobRow, job, Go(t, IF job.failed > 0 THEN "held" ELSE "drop one"))
    /\ UNCHANGED begun /\ Rest

(* The job's last run decides whether it is failing; what is held is read    *)
(* again.                                                                    *)
ReleaseHeld(t) ==
    /\ At(t, "held")
    /\ IF PreviousStatus(t, 0) = "succeeded" THEN Set(t, Go(t, "drop one"))
       ELSE IF ~StillHeld(t) THEN Set(t, NoTx) ELSE Set(t, Go(t, "send"))
    /\ UNCHANGED begun /\ Rest

ReleaseSend(t) ==
    /\ At(t, "send")
    /\ LET c == tx[t].id
       IN Take(t, AlertRow(c), [there |-> TRUE, held |-> 0], Queue(Go(t, "commit"), tx[t].ev, c))
    /\ UNCHANGED begun /\ Rest

ReleaseDrop(t) ==
    /\ At(t, "drop one")
    /\ IF StillHeld(t)
       THEN Take(t, AlertRow(tx[t].id), [View(t, AlertRow(tx[t].id)) EXCEPT !.held = 0], Go(t, "commit"))
       ELSE Set(t, Go(t, "commit"))
    /\ UNCHANGED begun /\ Rest

-----------------------------------------------------------------------------
(* Deliveries *)

(* ClaimDueDeliveries: the due deliveries no older untried one of their      *)
(* channel holds back, and that no other claimer has locked.                 *)
ClaimDue(t) ==
    /\ At(t, "due")
    /\ LET due == {d \in Dels :
                     LET r == db[DelRow(d)]
                     IN /\ r.state = "pending" /\ r.due /\ ~Locked(t, DelRow(d))
                        /\ \A o \in Dels : (o < d /\ db[DelRow(o)].state = "pending") => db[DelRow(o)].tried}
       IN Set(t, [Go(t, "commit") EXCEPT
            !.mine = [x \in {DelRow(d) : d \in due} |-> [state |-> "pending", due |-> FALSE, tried |-> TRUE]]])
    /\ UNCHANGED begun /\ Rest

(* FailDeliveryAndEmit: only a delivery still pending is given up. *)
FailDeliveryAndEmit(t) ==
    /\ At(t, "give up")
    /\ LET x == DelRow(tx[t].id)
       IN IF View(t, x).state # "pending" THEN Set(t, NoTx) /\ UNCHANGED eventId
          ELSE /\ Take(t, x, [View(t, x) EXCEPT !.state = "failed"],
                       Emit(Go(t, "commit"), "notification.failed", tx[t].id))
               /\ eventId' = eventId + 1
    /\ UNCHANGED <<db, events, queued, begun, crossed>>

-----------------------------------------------------------------------------
(* A session begins one of the store's operations. *)
Start(t) ==
    /\ \/ Begin(t, "claim", 0, "none", "pick")
       \/ \E r \in Runs, st \in {"failed", "succeeded"} :
            db[RunRow(r)].status = "running" /\ Begin(t, "finish", r, st, "run")
       \/ \E r \in Runs : db[RunRow(r)].status = "running" /\ Begin(t, "reap", r, "failed", "run")
       \/ Begin(t, "delete job", 0, "none", "lookup")
       \/ \E c \in Channels : Begin(t, "delete channel", c, "none", "states")
       \/ \E c \in Channels :
            /\ tx[t] = NoTx /\ begun < MaxTx /\ begun' = begun + 1
            /\ db[AlertRow(c)].there /\ db[AlertRow(c)].held # 0
            /\ Set(t, [NoTx EXCEPT !.op = "release", !.id = c, !.ev = db[AlertRow(c)].held,
                                   !.at = begun + 1, !.pc = "peek"])
       \/ Begin(t, "deliver", 0, "none", "due")
       \/ \E d \in Dels : db[DelRow(d)].tried /\ Begin(t, "give up", d, "none", "give up")
    /\ Rest

Step(t) ==
    \/ ClaimPick(t) \/ ClaimUpdate(t)
    \/ PgFinishRun(t) \/ AfterSucceeded(t) \/ StreakOf(t) \/ InsertFailed(t) \/ Pace(t)
    \/ InsertSucceeded(t) \/ Recovering(t) \/ InsertRecovered(t) \/ EndStreak(t) \/ DropHeld(t)
    \/ Unschedule(t)
    \/ DeleteJobLookup(t) \/ DeleteRuns(t) \/ DeleteJobRow(t) \/ DeleteAlertStates(t)
    \/ FailPending(t) \/ DeleteChannelRow(t)
    \/ ReleasePeek(t) \/ ReleaseLock(t) \/ ReleaseHeld(t) \/ ReleaseSend(t) \/ ReleaseDrop(t)
    \/ ClaimDue(t) \/ FailDeliveryAndEmit(t)
    \/ Commit(t)

PgNext ==
    \/ \E t \in Sessions : Start(t) \/ Step(t) \/ Rollback(t) \/ \E r \in Runs : FailUnreadableJob(t, r)
    \/ \E r \in Runs : EnqueueRun(r)

PgSpec == PgInit /\ [][PgNext]_pgVars

-----------------------------------------------------------------------------
(* Properties *)

(* Transactions that wait for each other's rows take their turns: whatever   *)
(* overlaps (runs finishing, the reaper, a held alert's release, the job's   *)
(* and the channel's deletion, a claim), while some transaction is open one  *)
(* of them can go on.                                                        *)
NoDeadlock ==
    (\E t \in Sessions : tx[t] # NoTx) => \E t \in Sessions : tx[t] # NoTx /\ ENABLED Step(t)

(* The rows the next statement of a transaction waits for while another one  *)
(* holds them; whether it still matches them is looked at after the wait.    *)
Awaits(t) ==
    LET o == tx[t]
        pending == {d \in Dels : o.id = DelChannel /\ View(t, DelRow(d)).state = "pending"}
        First(S) == {x \in S : \A y \in S : x[2] <= y[2]}
    IN CASE o.pc = "run" -> {RunRow(o.id)}
         [] o.pc \in {"streak", "recover", "end", "unschedule", "job", "lock"} -> {JobRow}
         [] o.pc \in {"send", "drop one"} -> {AlertRow(o.id)}
         [] o.pc \in {"pace", "dropping"} -> First({AlertRow(c) : c \in o.todo})
         [] o.pc \in {"runs", "alerts"} -> First(o.todo)
         [] o.pc = "deliveries" -> First({DelRow(d) : d \in pending})
         [] o.pc = "channel" -> {ChannelRow(o.id)}
         [] o.pc = "give up" -> {DelRow(o.id)}
         [] OTHER -> {}

(* Rows are taken in one order (the runs, the job, what its channels were    *)
(* told, the deliveries, the channel; by id in each), whatever overlaps: no  *)
(* transactions wait for each other in a circle, even while others go on.    *)
(* That is what "take their turns instead of deadlocking" (pacing.go) rests  *)
(* on.                                                                       *)
NoWaitCycle ==
    \A W \in SUBSET Sessions :
        W # {} => \E t \in W : \A x \in Awaits(t) : \A u \in W \ {t} : x \notin DOMAIN tx[u].mine

(* What happens is done and recorded once, however transactions overlap: no  *)
(* run is claimed by two workers; a run that the runner finishes and the     *)
(* reaper fails at the same time has one outcome, the one its row says; a    *)
(* delivery is given up once; and a failure goes to a channel once, held     *)
(* first or not.                                                             *)
RecordedOnce ==
    /\ \A r \in Runs : db[RunRow(r)].claims <= 1
    /\ \A e, f \in events :
        (e.of = f.of /\ e.of # 0 /\ {e.type, f.type} \subseteq {"run.failed", "run.succeeded"}) => e = f
    /\ \A e, f \in events :
        (e.type = "notification.failed" /\ f.type = e.type /\ e.of = f.of) => e = f
    /\ \A p, q \in queued : (p.ev = q.ev /\ p.ch = q.ch) => p = q

(* A deleted job leaves no state of its alerts behind, whatever was under    *)
(* way about it when it was deleted.                                         *)
ForgottenWithJob ==
    ~db[JobRow].there => \A c \in Channels : ~db[AlertRow(c)].there

(* A job's failing streak agrees with its events: when nothing is under way  *)
(* and the last of its runs to be recorded succeeded, the job is not failing *)
(* (streak.go: "it can never disagree with the events"); unless a success    *)
(* read the streak while a failure counted in it was not committed yet.      *)
StreakAgrees ==
    LET ran == {e \in events : e.type \in {"run.failed", "run.succeeded"}}
    IN (ran # {} /\ \A t \in Sessions : tx[t] = NoTx) =>
         LET latest == CHOOSE e \in ran : \A f \in ran : f.id <= e.id
         IN (latest.type = "run.succeeded" /\ db[JobRow].there) => (db[JobRow].failed = 0 \/ crossed)
=============================================================================
