--------------------------- MODULE PostgresProofs ---------------------------
(***************************************************************************)
(* Proofs about Postgres: what overlapping transactions never do, for any  *)
(* number of sessions, runs, channels and deliveries.                      *)
(*                                                                         *)
(* TxInv is the inductive invariant.  It says of each open transaction     *)
(* what it has done by the statement it is at (Pcs), and relates the rows, *)
(* events and deliveries it has written to what is committed (Mine, Evs,   *)
(* Qs): an outcome is never undone, an event for a run goes with the run's *)
(* row, which was not over; a delivery is for an event of its own, or for  *)
(* a held one while the job's row is locked.  Apart says that no row is    *)
(* held twice and that no transaction deals in an event of another, and    *)
(* Forgets what a transaction that has deleted the job still has to        *)
(* delete.  A step that commits nothing changes one session, so it needs   *)
(* its new record to be Local and to move within its rights (Move); the    *)
(* lemmas TakeStep, GoStep and EmitStep say so for the three kinds of      *)
(* statement, and each action cites one of them.  Commit is the step where *)
(* every part meets every other.                                           *)
(*                                                                         *)
(* StreakInv is inductive given TxInv: while the job is failing, every     *)
(* success recorded, or past its own look at the streak, has a failure     *)
(* after it.                                                               *)
(*                                                                         *)
(* Ordered says that the rows a transaction holds come before those it has *)
(* still to take, in one order of all rows (Under).  Of transactions that  *)
(* wait for each other one would wait for the last row of all; the one     *)
(* that holds it waits for a later one.                                    *)
(***************************************************************************)
EXTENDS Postgres, FiniteSetTheorems, WellFoundedInduction, TLAPS

-----------------------------------------------------------------------------
(* The inductive invariant.                                                *)

RunRec == [status : {"none", "pending", "running", "failed", "succeeded"},
           ended : Nat, claims : {0, 1}, there : BOOLEAN]
JobRec == [there : BOOLEAN, failed : Nat]
AlertRec == [there : BOOLEAN, held : Nat]
ChannelRec == [there : BOOLEAN]
DelRec == [state : {"pending", "failed"}, due : BOOLEAN, tried : BOOLEAN]
Event == [id : Nat \ {0}, of : Nat,
          type : {"run.failed", "run.succeeded", "run.recovered", "job.removed", "notification.failed"}]
Delivery == [tx : Nat, ev : Nat \ {0}, ch : Channels]

Over(v) == v.status \in {"failed", "succeeded"}
Ran(e) == e.type \in {"run.failed", "run.succeeded"}
GivenUp(e) == e.type = "notification.failed"
Spent(e, c) == \E q \in queued : q.ev = e /\ q.ch = c
HoldsJob(m) == JobRow \in DOMAIN m /\ m[JobRow].there

\* A row holds a value of its table; a run is claimed after it is pending.
Good(x, v) ==
    /\ \A r \in Runs : x = RunRow(r) => v \in RunRec /\ (v.status \in {"none", "pending"} => v.claims = 0)
    /\ x = JobRow => v \in JobRec
    /\ \A c \in Channels : x = AlertRow(c) => v \in AlertRec
    /\ \A c \in Channels : x = ChannelRow(c) => v \in ChannelRec
    /\ \A d \in Dels : x = DelRow(d) => v \in DelRec

\* What is committed, the next event's id being n.
Committed(n) ==
    /\ db = [x \in Rows |-> db[x]]
    /\ \A x \in Rows : Good(x, db[x])
    /\ \A c \in Channels : /\ db[AlertRow(c)].held \in 0 .. n - 1
                           /\ db[AlertRow(c)].held # 0 => ~Spent(db[AlertRow(c)].held, c)
    /\ events \subseteq Event /\ queued \subseteq Delivery
    /\ \A e \in events : e.id \in 1 .. n - 1
    /\ \A q \in queued : q.ev \in 1 .. n - 1
    /\ \A e \in events : Ran(e) /\ e.of # 0 => e.of \in Runs /\ Over(db[RunRow(e.of)])
    /\ \A e \in events : GivenUp(e) => e.of \in Dels /\ db[DelRow(e.of)].state = "failed"
    /\ ~db[JobRow].there => \A c \in Channels : ~db[AlertRow(c)].there

\* o has the fields of a transaction.
Shape(o) ==
    o = [op |-> o.op, pc |-> o.pc, id |-> o.id, status |-> o.status, at |-> o.at, todo |-> o.todo,
         fresh |-> o.fresh, jobless |-> o.jobless, ev |-> o.ev,
         mine |-> o.mine, events |-> o.events, queued |-> o.queued]

\* The ids a transaction deals in have been drawn.
Drawn(o, n) ==
    /\ o.ev \in 0 .. n - 1
    /\ \A e \in o.events : e \in Event /\ e.id \in 1 .. n - 1
    /\ \A c \in Channels : AlertRow(c) \in DOMAIN o.mine => o.mine[AlertRow(c)].held \in 0 .. n - 1

\* The rows m a transaction holds, against what is committed.
Mine(m) ==
    /\ DOMAIN m \subseteq Rows
    /\ \A x \in DOMAIN m : Good(x, m[x])
    /\ JobRow \in DOMAIN m => db[JobRow].there
    /\ \A r \in Runs : RunRow(r) \in DOMAIN m /\ Over(db[RunRow(r)]) => Over(m[RunRow(r)])
    /\ \A d \in Dels : DelRow(d) \in DOMAIN m /\ db[DelRow(d)].state = "failed" => m[DelRow(d)].state = "failed"
    /\ \A c \in Channels : AlertRow(c) \in DOMAIN m =>
        /\ m[AlertRow(c)].there => db[AlertRow(c)].there \/ HoldsJob(m)
        /\ m[AlertRow(c)].held # 0 => ~Spent(m[AlertRow(c)].held, c)

\* The events a transaction has inserted, with the rows m it holds.
Evs(o) ==
    /\ \A e \in o.events :
        /\ \A c \in Channels : db[AlertRow(c)].held # e.id
        /\ \A q \in queued : q.ev # e.id
    /\ \A e \in o.events : Ran(e) =>
        /\ e.of = o.id /\ o.id \in Runs /\ RunRow(o.id) \in DOMAIN o.mine
        /\ ~Over(db[RunRow(o.id)]) /\ Over(o.mine[RunRow(o.id)])
    /\ \A e \in o.events : GivenUp(e) =>
        /\ e.of = o.id /\ o.id \in Dels /\ DelRow(o.id) \in DOMAIN o.mine
        /\ db[DelRow(o.id)].state = "pending" /\ o.mine[DelRow(o.id)].state = "failed"
    /\ \A e, f \in o.events : (Ran(e) /\ Ran(f)) \/ (GivenUp(e) /\ GivenUp(f)) => e = f

\* The deliveries a transaction has inserted.
Qs(o) ==
    \A p \in o.queued :
        /\ p \in Delivery /\ p.tx = o.at /\ ~Spent(p.ev, p.ch)
        /\ AlertRow(p.ch) \in DOMAIN o.mine => o.mine[AlertRow(p.ch)].held # p.ev
        /\ \/ \E e \in o.events : e.id = p.ev
           \/ /\ o.op = "release" /\ p.ev = o.ev /\ p.ch = o.id
              /\ HoldsJob(o.mine) /\ AlertRow(o.id) \in DOMAIN o.mine /\ o.mine[AlertRow(o.id)].held = 0

Ends == {"finish", "reap", "unreadable"}
RunPcs == {"prev", "streak", "event", "ok"}
EndPcs == RunPcs \cup {"pace", "previous", "recover", "end", "drop", "dropping", "unschedule"}
QuietPcs == RunPcs \cup {"previous", "recover", "end", "runs", "job"}
DeletePcs == {"runs", "job", "states", "alerts", "deliveries", "channel"}
ReleasePcs == {"peek", "lock", "held", "send", "drop one"}
ClearPcs == {"idle", "pick", "run", "lookup", "peek", "lock", "due", "give up"}

\* Where a transaction is, and what it has done by then.
Pcs(o) ==
    /\ o.at \in Nat /\ o.id \in Nat /\ o.fresh \in BOOLEAN /\ o.jobless \in BOOLEAN
    /\ o.pc \in ClearPcs => DOMAIN o.mine = {} /\ o.events = {} /\ o.queued = {}
    /\ o.pc \in QuietPcs => \A c \in Channels : AlertRow(c) \notin DOMAIN o.mine
    /\ o.pc = "run" => o.id \in Runs /\ o.status \in {"failed", "succeeded"} /\ o.op \in Ends
    /\ o.pc = "claim" => o.id \in Runs /\ RunRow(o.id) \in DOMAIN o.mine /\ o.mine[RunRow(o.id)].status = "pending"
                         /\ o.op = "claim" /\ o.events = {} /\ o.queued = {}
    /\ o.pc \in EndPcs => o.op \in Ends
    /\ o.pc \in RunPcs => /\ o.id \in Runs /\ RunRow(o.id) \in DOMAIN o.mine
                          /\ ~Over(db[RunRow(o.id)]) /\ Over(o.mine[RunRow(o.id)])
                          /\ o.events = {} /\ o.queued = {}
    /\ o.pc \in {"prev", "streak"} => JobRow \notin DOMAIN o.mine
    /\ o.pc \in {"event", "pace"} => o.jobless \/ HoldsJob(o.mine)
    /\ o.jobless => ~db[JobRow].there
    /\ o.pc = "pace" =>
        /\ o.todo \subseteq Channels
        /\ \A c \in o.todo : AlertRow(c) \notin DOMAIN o.mine /\ \A p \in o.queued : p.ch # c
        /\ \E e \in o.events : e.id = o.ev
    /\ o.pc = "dropping" => o.todo \subseteq Channels
    /\ o.pc \in {"previous", "recover"} => o.queued = {}
    /\ o.pc \in DeletePcs => /\ o.op \in {"delete job", "delete channel"} /\ o.queued = {}
                             /\ \A e \in o.events : e.type = "job.removed"
    /\ o.pc \in {"runs", "job"} => o.op = "delete job" /\ JobRow \notin DOMAIN o.mine
    /\ o.pc \in {"deliveries", "channel"} => o.op = "delete channel"
    /\ o.op = "delete channel" => o.id \in Channels
    /\ o.pc = "runs" => o.todo \subseteq RunRows
    /\ o.pc = "alerts" => o.todo \subseteq {AlertRow(c) : c \in Channels}
    /\ o.pc \in ReleasePcs => o.op = "release"
    /\ o.op = "release" => o.id \in Channels /\ o.ev # 0 /\ o.events = {}
    /\ o.pc \in {"held", "send", "drop one"} => DOMAIN o.mine \subseteq {JobRow} /\ o.queued = {}
    /\ o.pc \in {"held", "send"} => HoldsJob(o.mine)
    /\ o.pc = "send" => ~Spent(o.ev, o.id)
    /\ o.pc = "give up" => o.id \in Dels /\ o.op = "give up"
    /\ o.pc = "pick" => o.op = "claim"
    /\ o.pc = "lookup" => o.op = "delete job"
    /\ \A e \in o.events : e.type = "run.succeeded" => o.pc \in {"previous", "recover", "end", "drop", "dropping", "commit"}

\* A transaction that has deleted the job takes what its channels were told along.
Forgets(o) ==
    JobRow \in DOMAIN o.mine /\ ~o.mine[JobRow].there =>
        /\ o.op = "delete job" /\ o.pc \in {"states", "alerts", "commit"}
        /\ \A c \in Channels : AlertRow(c) \in DOMAIN o.mine => ~o.mine[AlertRow(c)].there
        /\ o.pc = "alerts" => \A c \in Channels : db[AlertRow(c)].there => AlertRow(c) \in o.todo \cup DOMAIN o.mine
        /\ o.pc = "commit" => \A c \in Channels : db[AlertRow(c)].there => AlertRow(c) \in DOMAIN o.mine

Local(o) == Shape(o) /\ Mine(o.mine) /\ Evs(o) /\ Qs(o) /\ Pcs(o) /\ Forgets(o)

\* Two transactions: no row is held by both, and neither deals in an event of the other.
Apart(o, p) ==
    /\ DOMAIN o.mine \cap DOMAIN p.mine = {}
    /\ \A e \in o.events : \A f \in p.events : e.id # f.id
    /\ \A e \in o.events : \A c \in Channels :
        AlertRow(c) \in DOMAIN p.mine => p.mine[AlertRow(c)].held # e.id
    /\ \A e \in o.events : p.op = "release" => p.ev # e.id

\* The inductive invariant.
TxInv ==
    /\ tx = [t \in Sessions |-> tx[t]]
    /\ begun \in Nat /\ eventId \in Nat /\ eventId >= 2 /\ crossed \in BOOLEAN
    /\ Committed(eventId)
    /\ \A t \in Sessions : Local(tx[t]) /\ Drawn(tx[t], eventId)
    /\ \A t, u \in Sessions : t # u => Apart(tx[t], tx[u])

\* Some failure of S is later than the success e.
FailedAfter(S, e) == \E f \in S : f.type = "run.failed" /\ f.id > e.id

\* The transaction o has a success, and is past the streak.
Past(o, e) == e \in o.events /\ e.type = "run.succeeded" /\ o.pc \in {"drop", "dropping", "commit"}

\* Every success that is committed, or about to be without touching the job's
\* row, has a later failure in S.
Overtaken(S) ==
    /\ \A e \in events : e.type = "run.succeeded" => FailedAfter(S, e)
    /\ \A t \in Sessions : \A e \in tx[t].events :
        Past(tx[t], e) /\ JobRow \notin DOMAIN tx[t].mine => FailedAfter(S, e)

\* A transaction that recorded a success and wrote the job's row left no streak in it; and a streak,
\* committed or about to be, is that of failures later than every success.
StreakInv ==
    /\ \A t \in Sessions : \A e \in tx[t].events :
        Past(tx[t], e) /\ JobRow \in DOMAIN tx[t].mine => tx[t].mine[JobRow].failed = 0
    /\ db[JobRow].there /\ ~crossed =>
        /\ db[JobRow].failed # 0 => Overtaken(events)
        /\ \A u \in Sessions :
            HoldsJob(tx[u].mine) /\ tx[u].mine[JobRow].failed # 0 /\ tx[u].pc # "event" =>
                Overtaken(events \cup tx[u].events)

\* The record r is one that session t may go on with: the rows, events and ids it deals in are its
\* own, new, or nobody's.
Moves(t, r) ==
    /\ \A x \in DOMAIN r.mine : x \in DOMAIN tx[t].mine \/ ~Locked(t, x)
    /\ \A e \in r.events : e \in tx[t].events \/ e.id >= eventId
    /\ \A c \in Channels : AlertRow(c) \in DOMAIN r.mine =>
        LET h == r.mine[AlertRow(c)].held
        IN  \/ h = 0 \/ h = db[AlertRow(c)].held
            \/ AlertRow(c) \in DOMAIN tx[t].mine /\ h = tx[t].mine[AlertRow(c)].held
            \/ \E e \in tx[t].events : e.id = h
    /\ r.op = "release" => \/ tx[t].op = "release" /\ r.ev = tx[t].ev
                           \/ \E c \in Channels : r.ev = db[AlertRow(c)].held

\* A transaction is judged against the committed rows and deliveries.
LEMMA LocalStable ==
    ASSUME NEW o, Local(o), UNCHANGED <<db, queued>>
    PROVE  Local(o)'
<1>1. Mine(o.mine)'
  BY DEF Local, Mine, HoldsJob, Spent
<1>2. Evs(o)'
  BY DEF Local, Evs
<1>3. Qs(o)'
  BY DEF Local, Qs, Spent
<1>4. Pcs(o)'
  BY DEF Local, Pcs, Spent
<1>5. Forgets(o)'
  BY DEF Local, Forgets
<1>. QED BY <1>1, <1>2, <1>3, <1>4, <1>5 DEF Local

\* A step of one session that commits nothing keeps the invariant when its new record is Local.
LEMMA Move ==
    ASSUME TxInv, NEW t \in Sessions, NEW r, Set(t, r),
           UNCHANGED <<db, events, queued>>, eventId' \in Nat, eventId' >= eventId,
           begun' \in Nat, crossed' \in BOOLEAN, Local(r), Drawn(r, eventId'), Moves(t, r)
    PROVE  TxInv'
<1>1. /\ tx' = [u \in Sessions |-> tx'[u]]
      /\ tx'[t] = r /\ \A u \in Sessions \ {t} : tx'[u] = tx[u]
  BY DEF TxInv, Set
<1>2. Committed(eventId)'
  BY DEF TxInv, Committed, Spent
<1>3. ASSUME NEW u \in Sessions PROVE Local(tx[u])' /\ Drawn(tx'[u], eventId')
  <2>1. PICK o : o = tx'[u] OBVIOUS
  <2>2. Local(o) /\ Drawn(o, eventId')
    <3>1. CASE u = t BY <3>1, <1>1, <2>1
    <3>2. CASE u # t
      <4>1. o = tx[u] /\ Local(tx[u]) /\ Drawn(tx[u], eventId) BY <3>2, <1>1, <2>1 DEF TxInv
      <4>. QED BY <4>1 DEF Drawn, TxInv
    <3>. QED BY <3>1, <3>2
  <2>3. Local(o)' BY <2>2, LocalStable
  <2>. QED BY <2>1, <2>2, <2>3
<1>4. ASSUME NEW u \in Sessions, u # t PROVE Apart(r, tx[u]) /\ Apart(tx[u], r)
  <2>1. PICK o : o = tx[u] OBVIOUS
  <2>2. PICK p : p = tx[t] OBVIOUS
  <2>3. /\ Apart(o, p) /\ Apart(p, o) /\ Local(o) /\ Local(p)
        /\ Drawn(o, eventId) /\ Drawn(p, eventId) /\ Committed(eventId)
    BY <1>4, <2>1, <2>2 DEF TxInv
  <2>4. /\ \A x \in DOMAIN r.mine : x \in DOMAIN p.mine \/ x \notin DOMAIN o.mine
        /\ \A e \in r.events : e \in p.events \/ e.id >= eventId
    BY <1>4, <2>1, <2>2 DEF Moves, Locked
  <2>5. DOMAIN r.mine \cap DOMAIN o.mine = {}
    BY <2>3, <2>4 DEF Apart
  <2>6. \A e \in r.events : \A f \in o.events : e.id # f.id
    BY <2>3, <2>4 DEF Apart, Drawn, Event, TxInv
  <2>7. \A e \in r.events : \A c \in Channels :
          AlertRow(c) \in DOMAIN o.mine => o.mine[AlertRow(c)].held # e.id
    BY <2>3, <2>4 DEF Apart, Drawn, TxInv
  <2>8. \A e \in r.events : o.op = "release" => o.ev # e.id
    BY <2>3, <2>4 DEF Apart, Drawn, TxInv
  <2>9. \A e \in o.events : \A c \in Channels :
          AlertRow(c) \in DOMAIN r.mine => r.mine[AlertRow(c)].held # e.id
    <3> SUFFICES ASSUME NEW e \in o.events, NEW c \in Channels, AlertRow(c) \in DOMAIN r.mine
                 PROVE  r.mine[AlertRow(c)].held # e.id
      OBVIOUS
    <3>1. PICK h : h = r.mine[AlertRow(c)].held OBVIOUS
    <3>2. \/ h = 0 \/ h = db[AlertRow(c)].held
          \/ AlertRow(c) \in DOMAIN p.mine /\ h = p.mine[AlertRow(c)].held
          \/ \E f \in p.events : f.id = h
      BY <2>2, <3>1 DEF Moves
    <3>3. e.id # 0 BY <2>3 DEF Drawn, Event
    <3>4. db[AlertRow(c)].held # e.id BY <2>3 DEF Local, Evs
    <3>. QED BY <3>1, <3>2, <3>3, <3>4, <2>3 DEF Apart
  <2>10. \A e \in o.events : r.op = "release" => r.ev # e.id
    <3>1. r.op = "release" => \/ p.op = "release" /\ r.ev = p.ev
                             \/ \E c \in Channels : r.ev = db[AlertRow(c)].held
      BY <2>2 DEF Moves
    <3>. QED BY <3>1, <2>3 DEF Apart, Local, Evs
  <2>. QED BY <2>1, <2>5, <2>6, <2>7, <2>8, <2>9, <2>10 DEF Apart
<1>5. ASSUME NEW u \in Sessions, NEW v \in Sessions, u # v PROVE Apart(tx'[u], tx'[v])
  <2>1. CASE u = t BY <1>1, <1>4, <1>5, <2>1
  <2>2. CASE v = t BY <1>1, <1>4, <1>5, <2>2
  <2>3. CASE u # t /\ v # t BY <1>1, <1>5, <2>3 DEF TxInv
  <2>. QED BY <2>1, <2>2, <2>3
<1>6. (\A u, v \in Sessions : u # v => Apart(tx[u], tx[v]))'
  BY <1>5
<1>7. (\A u \in Sessions : Local(tx[u]) /\ Drawn(tx[u], eventId))'
  BY <1>3
<1>8. eventId' >= 2 BY DEF TxInv
<1>. QED BY <1>1, <1>2, <1>6, <1>7, <1>8 DEF TxInv

-----------------------------------------------------------------------------
(* Rows.                                                                   *)

\* The rows of different tables, and of different ids, are different rows.
LEMMA RowsDiffer ==
    /\ \A a, b : RunRow(a) = RunRow(b) => a = b
    /\ \A a, b : AlertRow(a) = AlertRow(b) => a = b
    /\ \A a, b : ChannelRow(a) = ChannelRow(b) => a = b
    /\ \A a, b : DelRow(a) = DelRow(b) => a = b
    /\ \A a, b : RunRow(a) # AlertRow(b) /\ RunRow(a) # ChannelRow(b) /\ RunRow(a) # DelRow(b)
    /\ \A a, b : AlertRow(a) # ChannelRow(b) /\ AlertRow(a) # DelRow(b) /\ ChannelRow(a) # DelRow(b)
    /\ \A a : RunRow(a) # JobRow /\ AlertRow(a) # JobRow /\ ChannelRow(a) # JobRow /\ DelRow(a) # JobRow
BY DEF RunRow, AlertRow, ChannelRow, DelRow, JobRow

\* Each id has its row.
LEMMA RowsThere ==
    /\ \A r \in Runs : RunRow(r) \in Rows
    /\ JobRow \in Rows
    /\ \A c \in Channels : AlertRow(c) \in Rows /\ ChannelRow(c) \in Rows
    /\ \A d \in Dels : DelRow(d) \in Rows
BY DEF Rows, RunRows

\* Each row is of one of the tables.
LEMMA RowsAre ==
    ASSUME NEW x \in Rows
    PROVE  \/ \E r \in Runs : x = RunRow(r)
           \/ x = JobRow
           \/ \E c \in Channels : x = AlertRow(c) \/ x = ChannelRow(c)
           \/ \E d \in Dels : x = DelRow(d)
BY DEF Rows, RunRows

LEMMA GoodRows ==
    ASSUME NEW v
    PROVE  /\ \A r \in Runs : Good(RunRow(r), v) <=>
                v \in RunRec /\ (v.status \in {"none", "pending"} => v.claims = 0)
           /\ Good(JobRow, v) <=> v \in JobRec
           /\ \A c \in Channels : Good(AlertRow(c), v) <=> v \in AlertRec
           /\ \A c \in Channels : Good(ChannelRow(c), v) <=> v \in ChannelRec
           /\ \A d \in Dels : Good(DelRow(d), v) <=> v \in DelRec
BY RowsDiffer DEF Good

\* What a statement reads of a row is of the row's table.
LEMMA ViewGood ==
    ASSUME TxInv, NEW t \in Sessions, NEW x \in Rows
    PROVE  Good(x, View(t, x))
BY DEF TxInv, Committed, Local, Mine, View

LEMMA ViewRec ==
    ASSUME TxInv, NEW t \in Sessions
    PROVE  /\ \A r \in Runs : View(t, RunRow(r)) \in RunRec
           /\ View(t, JobRow) \in JobRec
           /\ \A c \in Channels : View(t, AlertRow(c)) \in AlertRec
           /\ \A c \in Channels : View(t, ChannelRow(c)) \in ChannelRec
           /\ \A d \in Dels : View(t, DelRow(d)) \in DelRec
BY ViewGood, RowsThere, GoodRows

\* k is m with the row x put in it.
IsPut(k, m, x, v) ==
    /\ DOMAIN k = DOMAIN m \cup {x} /\ k[x] = v
    /\ \A y \in DOMAIN m : y # x => k[y] = m[y]

\* A transaction may take the row x, and leave v in it, when it is of the right
\* table, does not undo an outcome, and brings back no alert state without the job.
MayPut(m, x, v) ==
    /\ Good(x, v)
    /\ x = JobRow => db[x].there /\ (v.there \/ \A c \in Channels : AlertRow(c) \notin DOMAIN m)
    /\ \A r \in Runs : x = RunRow(r) /\ Over(db[x]) => Over(v)
    /\ \A d \in Dels : x = DelRow(d) /\ db[x].state = "failed" => v.state = "failed"
    /\ \A c \in Channels : x = AlertRow(c) =>
        /\ v.there => db[x].there \/ HoldsJob(m)
        /\ v.held # 0 => ~Spent(v.held, c)

LEMMA PutMine ==
    ASSUME NEW m, Mine(m), NEW x \in Rows, NEW v, MayPut(m, x, v), NEW k, IsPut(k, m, x, v)
    PROVE  Mine(k)
<1>2. /\ DOMAIN k = DOMAIN m \cup {x} /\ k[x] = v
      /\ \A y \in DOMAIN m : y # x => k[y] = m[y]
  BY DEF IsPut
<1>3. DOMAIN k \subseteq Rows /\ \A y \in DOMAIN k : Good(y, k[y])
  BY <1>2 DEF Mine, MayPut
<1>4. JobRow \in DOMAIN k => db[JobRow].there
  BY <1>2 DEF Mine, MayPut
<1>5. \A r \in Runs : RunRow(r) \in DOMAIN k /\ Over(db[RunRow(r)]) => Over(k[RunRow(r)])
  BY <1>2 DEF Mine, MayPut
<1>6. \A d \in Dels : DelRow(d) \in DOMAIN k /\ db[DelRow(d)].state = "failed" => k[DelRow(d)].state = "failed"
  BY <1>2 DEF Mine, MayPut
<1>7. ASSUME NEW c \in Channels, AlertRow(c) \in DOMAIN k
      PROVE  /\ k[AlertRow(c)].there => db[AlertRow(c)].there \/ HoldsJob(k)
             /\ k[AlertRow(c)].held # 0 => ~Spent(k[AlertRow(c)].held, c)
  <2>1. CASE AlertRow(c) = x
    <3>1. HoldsJob(m) => HoldsJob(k) BY <2>1, <1>2, RowsDiffer DEF HoldsJob
    <3>. QED BY <2>1, <1>2, <3>1 DEF MayPut
  <2>2. CASE AlertRow(c) # x
    <3>1. HoldsJob(m) => HoldsJob(k) BY <1>7, <2>2, <1>2 DEF HoldsJob, MayPut
    <3>. QED BY <2>2, <1>2, <1>7, <3>1 DEF Mine
  <2>. QED BY <2>1, <2>2
<1>. QED BY <1>3, <1>4, <1>5, <1>6, <1>7 DEF Mine

LEMMA PutEvs ==
    ASSUME NEW o, NEW r, NEW x, NEW v, Evs(o), IsPut(r.mine, o.mine, x, v),
           r.events = o.events, r.id = o.id,
           \/ \A a : x # RunRow(a) /\ x # DelRow(a)
           \/ \A e \in o.events : ~Ran(e) /\ ~GivenUp(e)
    PROVE  Evs(r)
BY DEF Evs, IsPut

LEMMA PutQs ==
    ASSUME NEW o, NEW r, NEW x, NEW v, Qs(o), IsPut(r.mine, o.mine, x, v),
           r.queued = o.queued, r.events = o.events, r.op = o.op, r.ev = o.ev, r.id = o.id, r.at = o.at,
           \/ o.queued = {}
           \/ x = JobRow /\ v.there
           \/ \E c \in Channels : x = AlertRow(c) /\ v.held = 0
    PROVE  Qs(r)
<1> SUFFICES ASSUME NEW p \in o.queued
             PROVE  /\ AlertRow(p.ch) \in DOMAIN r.mine => r.mine[AlertRow(p.ch)].held # p.ev
                    /\ \/ \E e \in o.events : e.id = p.ev
                       \/ /\ r.op = "release" /\ p.ev = r.ev /\ p.ch = r.id
                          /\ HoldsJob(r.mine) /\ AlertRow(r.id) \in DOMAIN r.mine
                          /\ r.mine[AlertRow(r.id)].held = 0
  BY DEF Qs
<1>1. CASE x = JobRow /\ v.there
  BY <1>1, RowsDiffer DEF Qs, IsPut, HoldsJob
<1>2. CASE \E c \in Channels : x = AlertRow(c) /\ v.held = 0
  <2>1. p.ev # 0 BY DEF Qs, Delivery
  <2>. QED BY <1>2, <2>1, RowsDiffer DEF Qs, IsPut, HoldsJob
<1>. QED BY <1>1, <1>2

\* A statement takes the row x and leaves v in it.
LEMMA TakeStep ==
    ASSUME TxInv, NEW t \in Sessions, NEW o, o = tx[t], NEW r, Shape(r), NEW x \in Rows, NEW v,
           Set(t, r), UNCHANGED <<db, events, queued, eventId>>,
           begun' \in Nat, crossed' \in BOOLEAN, ~Locked(t, x), r.mine = Put(o.mine, x, v),
           r.op = o.op, r.ev = o.ev, r.events = o.events, r.id = o.id \/ o.events = {},
           MayPut(o.mine, x, v),
           \A c \in Channels : x = AlertRow(c) => \/ v.held = 0
                                                  \/ v.held = View(t, x).held
                                                  \/ \E e \in o.events : e.id = v.held,
           \/ \A a : x # RunRow(a) /\ x # DelRow(a)
           \/ \A e \in o.events : ~Ran(e) /\ ~GivenUp(e),
           Qs(r), Pcs(r), Forgets(r)
    PROVE  TxInv'
<1>1. Local(o) /\ Drawn(o, eventId) /\ Committed(eventId) /\ eventId \in Nat /\ eventId >= 2
  BY DEF TxInv
<1>2. IsPut(r.mine, o.mine, x, v)
  BY DEF IsPut, Put
<1>3. Mine(r.mine)
  BY <1>1, <1>2, PutMine DEF Local
<1>4. Evs(r)
  <2>1. CASE r.id = o.id BY <1>1, <1>2, <2>1, PutEvs DEF Local
  <2>2. CASE o.events = {} BY <2>2 DEF Evs
  <2>. QED BY <2>1, <2>2
<1>5. \A c \in Channels : x = AlertRow(c) =>
        \/ v.held = 0 \/ v.held = db[x].held
        \/ x \in DOMAIN o.mine /\ v.held = o.mine[x].held
        \/ \E e \in o.events : e.id = v.held
  BY DEF View
<1>6. Drawn(r, eventId)
  <2>1. \A c \in Channels : x = AlertRow(c) => v.held \in 0 .. eventId - 1
    BY <1>1, <1>5 DEF Drawn, Committed
  <2>. QED BY <1>1, <1>2, <2>1 DEF Drawn, IsPut
<1>7. Moves(t, r)
  <2>1. \A y \in DOMAIN r.mine : y \in DOMAIN o.mine \/ y = x
    BY <1>2 DEF IsPut
  <2>2. \A c \in Channels : AlertRow(c) \in DOMAIN r.mine =>
          \/ r.mine[AlertRow(c)].held = 0 \/ r.mine[AlertRow(c)].held = db[AlertRow(c)].held
          \/ AlertRow(c) \in DOMAIN o.mine /\ r.mine[AlertRow(c)].held = o.mine[AlertRow(c)].held
          \/ \E e \in o.events : e.id = r.mine[AlertRow(c)].held
    BY <1>2, <1>5 DEF IsPut
  <2>. QED BY <2>1, <2>2 DEF Moves
<1>8. Local(r) BY <1>3, <1>4 DEF Local
<1>9. eventId' \in Nat /\ eventId' >= eventId /\ Drawn(r, eventId')
  BY <1>1, <1>6
<1>. QED BY <1>7, <1>8, <1>9, Move

\* A statement takes no row, or the transaction moves on.
LEMMA GoStep ==
    ASSUME TxInv, NEW t \in Sessions, NEW o, o = tx[t], NEW r, Shape(r),
           Set(t, r), UNCHANGED <<db, events, queued, eventId>>,
           begun' \in Nat, crossed' \in BOOLEAN, r.mine = o.mine,
           r.op = o.op, r.ev = o.ev, r.events = o.events, r.id = o.id,
           Qs(r), Pcs(r), Forgets(r)
    PROVE  TxInv'
<1>1. Local(o) /\ Drawn(o, eventId) /\ eventId \in Nat
  BY DEF TxInv
<1>2. Local(r) BY <1>1 DEF Local, Evs
<1>3. Drawn(r, eventId) BY <1>1 DEF Drawn
<1>4. Moves(t, r) BY DEF Moves
<1>5. eventId' \in Nat /\ eventId' >= eventId /\ Drawn(r, eventId')
  BY <1>1, <1>3
<1>. QED BY <1>2, <1>4, <1>5, Move

\* A transaction ends without a trace.
LEMMA Reset ==
    ASSUME TxInv, NEW t \in Sessions, Set(t, NoTx),
           UNCHANGED <<db, events, queued, eventId>>, begun' \in Nat, crossed' \in BOOLEAN
    PROVE  TxInv'
<1>1. PICK r : r = NoTx OBVIOUS
<1>2. /\ r.op = "idle" /\ r.pc = "idle" /\ r.id = 0 /\ r.at = 0 /\ r.ev = 0
      /\ r.fresh \in BOOLEAN /\ r.jobless \in BOOLEAN /\ ~r.jobless
      /\ DOMAIN r.mine = {} /\ r.events = {} /\ r.queued = {} /\ Shape(r)
  BY <1>1 DEF NoTx, NoRows, Shape
<1>3. Local(r)
  <2>1. Mine(r.mine) BY <1>2 DEF Mine
  <2>2. Evs(r) /\ Qs(r) /\ Forgets(r) BY <1>2 DEF Evs, Qs, Forgets
  <2>3. Pcs(r)
    BY <1>2 DEF Pcs, ClearPcs, RunPcs, EndPcs, QuietPcs, DeletePcs, ReleasePcs, Ends
  <2>. QED BY <1>2, <2>1, <2>2, <2>3 DEF Local
<1>4. eventId' \in Nat /\ eventId' >= eventId /\ Drawn(r, eventId')
  <2>1. eventId \in Nat /\ eventId >= 2 BY DEF TxInv
  <2>. QED BY <1>2, <2>1 DEF Drawn
<1>5. Moves(t, r) BY <1>2 DEF Moves
<1>6. Set(t, r) BY <1>1
<1>. QED BY <1>3, <1>4, <1>5, <1>6, Move

-----------------------------------------------------------------------------
(* The statements.                                                         *)

\* What holds of an open transaction before any statement.
LEMMA Before ==
    ASSUME TxInv, NEW t \in Sessions, NEW o, o = tx[t]
    PROVE  /\ Local(o) /\ Shape(o) /\ Mine(o.mine) /\ Evs(o) /\ Qs(o) /\ Pcs(o) /\ Forgets(o)
           /\ Drawn(o, eventId) /\ Committed(eventId)
           /\ begun \in Nat /\ eventId \in Nat /\ eventId >= 2 /\ crossed \in BOOLEAN
BY DEF TxInv, Local

LEMMA LeastNatural ==
    ASSUME NEW T \in SUBSET Nat, T # {}
    PROVE  \E x \in T : \A y \in T : x <= y
<1> DEFINE R == {ss \in Nat \X Nat : ss[1] < ss[2]}
<1>1. IsWellFoundedOn(R, Nat)
  BY NatLessThanWellFounded DEF OpToRel
<1>2. \A x, y \in Nat : <<y, x>> \in R <=> y < x
  OBVIOUS
<1> HIDE DEF R
<1>3. PICK x \in T : \A y \in T : ~ (<<y, x>> \in R)
  BY <1>1, WFMin
<1>4. ASSUME NEW y \in T
      PROVE  x <= y
  <2>1. x \in Nat /\ y \in Nat
    OBVIOUS
  <2>2. ~(y < x)
    BY <1>2, <1>3, <2>1
  <2> QED BY <2>1, <2>2
<1> QED BY <1>4

\* The oldest of some ids is one of them.
LEMMA OldestIn ==
    ASSUME NEW S, S \subseteq Nat, S # {}
    PROVE  Oldest(S) \in S
<1>1. \E r \in S : \A q \in S : r <= q BY LeastNatural
<1>. QED BY <1>1 DEF Oldest

LEMMA ClaimPickStep ==
    ASSUME TxInv, NEW t \in Sessions, NEW o, o = tx[t], ClaimPick(t)
    PROVE  TxInv'
<1>1. /\ UNCHANGED <<db, events, queued, eventId>> /\ begun' \in Nat /\ crossed' \in BOOLEAN
      /\ o.pc = "pick"
  BY Before DEF ClaimPick, Rest, At
<1>2. Shape(o) /\ Pcs(o)
  BY Before
<1>3. o.op = "claim" /\ DOMAIN o.mine = {} /\ o.events = {} /\ o.queued = {}
  BY <1>1, <1>2 DEF Pcs, ClearPcs
<1> DEFINE free == {i \in Pending : ~Locked(t, RunRow(i))}
<1>4. CASE free = {}
  <2>1. Set(t, NoTx) BY <1>4 DEF ClaimPick
  <2>. QED BY <1>1, <2>1, Reset
<1>5. CASE free # {}
  <2>1. PICK i : i = Oldest(free) OBVIOUS
  <2>2. i \in Runs /\ db[RunRow(i)].status = "pending" /\ ~Locked(t, RunRow(i))
    <3>1. free \subseteq Nat BY PgAssumption DEF Pending
    <3>2. i \in free BY <1>5, <2>1, <3>1, OldestIn
    <3>. QED BY <3>2 DEF Pending
  <2>3. PICK x : x = RunRow(i) OBVIOUS
  <2>4. PICK r : r = [[[o EXCEPT !.pc = "claim"] EXCEPT !.id = i] EXCEPT !.mine = Put(@, x, db[x])]
    OBVIOUS
  <2>5. Set(t, r)
    BY <1>5, <2>1, <2>3, <2>4 DEF ClaimPick, Go, Take
  <2>6. /\ Shape(r) /\ r.pc = "claim" /\ r.mine = Put(o.mine, x, db[x]) /\ r.id = i
        /\ r.op = o.op /\ r.ev = o.ev /\ r.events = o.events /\ r.queued = o.queued
        /\ r.at = o.at /\ r.fresh = o.fresh /\ r.jobless = o.jobless
    BY <1>2, <2>4 DEF Shape
  <2>7. IsPut(r.mine, o.mine, x, db[x]) BY <2>6 DEF IsPut, Put
  <2>8. Pcs(r)
    <3>1. RunRow(i) \in DOMAIN r.mine /\ r.mine[RunRow(i)].status = "pending"
      BY <2>2, <2>3, <2>7 DEF IsPut
    <3>2. i \in Nat BY <2>2, PgAssumption
    <3>. QED BY <1>2, <1>3, <2>2, <2>6, <3>1, <3>2
         DEF Pcs, ClearPcs, RunPcs, EndPcs, QuietPcs, DeletePcs, ReleasePcs, Ends
  <2>9. Forgets(r) /\ Qs(r)
    BY <1>3, <2>3, <2>6, <2>7, RowsDiffer DEF Forgets, Qs, IsPut
  <2>10. x \in Rows /\ MayPut(o.mine, x, db[x])
    <3>1. x \in Rows BY <2>2, <2>3, RowsThere
    <3>2. Good(x, db[x]) BY <3>1, Before DEF Committed
    <3>. QED BY <2>2, <2>3, <3>1, <3>2, RowsDiffer DEF MayPut
  <2>11. /\ \A c \in Channels : x # AlertRow(c)
         /\ \A e \in o.events : ~Ran(e) /\ ~GivenUp(e)
    BY <1>3, <2>3, RowsDiffer
  <2>12. ~Locked(t, x) BY <2>2, <2>3
  <2>. QED BY <1>1, <1>3, <2>5, <2>6, <2>8, <2>9, <2>10, <2>11, <2>12, TakeStep
<1>. QED BY <1>4, <1>5

LEMMA ClaimUpdateStep ==
    ASSUME TxInv, NEW t \in Sessions, NEW o, o = tx[t], ClaimUpdate(t)
    PROVE  TxInv'
<1>1. /\ UNCHANGED <<db, events, queued, eventId>> /\ begun' \in Nat /\ crossed' \in BOOLEAN
      /\ o.pc = "claim"
  BY Before DEF ClaimUpdate, Rest, At
<1>2. Shape(o) /\ Mine(o.mine) /\ Pcs(o) /\ Forgets(o)
  BY Before
<1>3. PICK x : x = RunRow(o.id) OBVIOUS
<1>4. /\ o.op = "claim" /\ o.events = {} /\ o.queued = {} /\ o.id \in Runs
      /\ x \in DOMAIN o.mine /\ o.mine[x].status = "pending"
  BY <1>1, <1>2, <1>3 DEF Pcs
<1>5. PICK w : w = o.mine[x] OBVIOUS
<1>6. View(t, x) = w BY <1>4, <1>5 DEF View
<1>7. w \in RunRec /\ w.status = "pending" /\ w.claims = 0 /\ x \in Rows
  BY <1>2, <1>3, <1>4, <1>5, GoodRows DEF Mine
<1>8. PICK v : v = [w EXCEPT !.status = "running", !.claims = @ + 1] OBVIOUS
<1>9. v \in RunRec /\ v.status = "running"
  <2>1. w.claims + 1 = 1 BY <1>7
  <2>2. v = [w EXCEPT !.status = "running", !.claims = 1] BY <1>8, <2>1
  <2>3. w = [status |-> w.status, ended |-> w.ended, claims |-> w.claims, there |-> w.there]
        /\ w.ended \in Nat /\ w.there \in BOOLEAN
    BY <1>7 DEF RunRec
  <2>4. v = [status |-> "running", ended |-> w.ended, claims |-> 1, there |-> w.there]
    BY <2>2, <2>3
  <2>. QED BY <2>3, <2>4 DEF RunRec
<1>10. PICK r : r = [[o EXCEPT !.pc = "commit"] EXCEPT !.mine = Put(@, x, v)] OBVIOUS
<1>11. Set(t, r) /\ ~Locked(t, x)
  BY <1>3, <1>6, <1>8, <1>10 DEF ClaimUpdate, Go, Take
<1>12. /\ Shape(r) /\ r.pc = "commit" /\ r.mine = Put(o.mine, x, v) /\ r.id = o.id
       /\ r.op = o.op /\ r.ev = o.ev /\ r.events = o.events /\ r.queued = o.queued
       /\ r.at = o.at /\ r.fresh = o.fresh /\ r.jobless = o.jobless
  BY <1>2, <1>10 DEF Shape
<1>13. IsPut(r.mine, o.mine, x, v) BY <1>12 DEF IsPut, Put
<1>14. Pcs(r)
  BY <1>2, <1>4, <1>12 DEF Pcs, ClearPcs, RunPcs, EndPcs, QuietPcs, DeletePcs, ReleasePcs, Ends
<1>15. Forgets(r) /\ Qs(r)
  BY <1>2, <1>3, <1>4, <1>12, <1>13, RowsDiffer DEF Forgets, Qs, IsPut
<1>16. MayPut(o.mine, x, v)
  <2>1. ~Over(db[x]) BY <1>2, <1>3, <1>4 DEF Mine, Over
  <2>2. Good(x, v) BY <1>3, <1>4, <1>9, GoodRows
  <2>. QED BY <1>3, <2>1, <2>2, RowsDiffer DEF MayPut
<1>17. /\ \A c \in Channels : x # AlertRow(c)
       /\ \A e \in o.events : ~Ran(e) /\ ~GivenUp(e)
  BY <1>3, <1>4, RowsDiffer
<1>. QED BY <1>1, <1>7, <1>11, <1>12, <1>14, <1>15, <1>16, <1>17, TakeStep

LEMMA PgFinishRunStep ==
    ASSUME TxInv, NEW t \in Sessions, NEW o, o = tx[t], PgFinishRun(t)
    PROVE  TxInv'
<1>1. /\ UNCHANGED <<db, events, queued, eventId>> /\ begun' \in Nat /\ crossed' \in BOOLEAN
      /\ o.pc = "run"
  BY Before DEF PgFinishRun, Rest, At
<1>2. Shape(o) /\ Pcs(o)
  BY Before
<1>3. /\ o.id \in Runs /\ o.status \in {"failed", "succeeded"} /\ o.op \in Ends
      /\ DOMAIN o.mine = {} /\ o.events = {} /\ o.queued = {} /\ o.at \in Nat
  BY <1>1, <1>2 DEF Pcs, ClearPcs
<1>4. PICK x : x = RunRow(o.id) OBVIOUS
<1>5. PICK w : w = db[x] OBVIOUS
<1>6. View(t, x) = w BY <1>3, <1>5 DEF View
<1>7. x \in Rows /\ Good(x, w) BY <1>3, <1>4, <1>5, Before, RowsThere DEF Committed
<1>8. w \in RunRec BY <1>3, <1>4, <1>7, GoodRows
<1>9. CASE ~w.there \/ w.status # "running"
  <2>1. Set(t, NoTx) BY <1>4, <1>6, <1>9 DEF PgFinishRun
  <2>. QED BY <1>1, <2>1, Reset
<1>10. CASE w.there /\ w.status = "running"
  <2>1. PICK pc : pc = IF o.status = "failed" THEN "prev" ELSE "ok" OBVIOUS
  <2>2. PICK v : v = [w EXCEPT !.status = o.status, !.ended = o.at] OBVIOUS
  <2>3. v \in RunRec /\ v.status = o.status BY <1>3, <1>8, <2>2 DEF RunRec
  <2>4. PICK r : r = [[o EXCEPT !.pc = pc] EXCEPT !.mine = Put(@, x, v)] OBVIOUS
  <2>5. Set(t, r) /\ ~Locked(t, x)
    BY <1>4, <1>6, <1>10, <2>1, <2>2, <2>4 DEF PgFinishRun, Go, Take
  <2>6. /\ Shape(r) /\ r.pc = pc /\ r.mine = Put(o.mine, x, v) /\ r.id = o.id
        /\ r.op = o.op /\ r.ev = o.ev /\ r.events = o.events /\ r.queued = o.queued
        /\ r.at = o.at /\ r.fresh = o.fresh /\ r.jobless = o.jobless
    BY <1>2, <2>4 DEF Shape
  <2>7. IsPut(r.mine, o.mine, x, v) BY <2>6 DEF IsPut, Put
  <2>8. ~Over(db[x]) BY <1>5, <1>10 DEF Over
  <2>9. Pcs(r)
    <3>1. /\ RunRow(o.id) \in DOMAIN r.mine /\ Over(r.mine[RunRow(o.id)])
          /\ JobRow \notin DOMAIN r.mine /\ \A c \in Channels : AlertRow(c) \notin DOMAIN r.mine
      BY <1>3, <1>4, <2>3, <2>7, RowsDiffer DEF IsPut, Over
    <3>2. r.pc \in {"prev", "ok"} BY <2>1, <2>6
    <3>3. ~Over(db[RunRow(r.id)]) BY <1>4, <2>6, <2>8
    <3>. QED BY <1>2, <1>3, <2>6, <3>1, <3>2, <3>3
         DEF Pcs, ClearPcs, RunPcs, EndPcs, QuietPcs, DeletePcs, ReleasePcs, Ends
  <2>10. Forgets(r) /\ Qs(r)
    BY <1>3, <1>4, <2>6, <2>7, RowsDiffer DEF Forgets, Qs, IsPut
  <2>11. MayPut(o.mine, x, v)
    <3>1. Good(x, v) BY <1>3, <1>4, <2>3, GoodRows
    <3>. QED BY <1>4, <2>8, <3>1, RowsDiffer DEF MayPut
  <2>12. /\ \A c \in Channels : x # AlertRow(c)
         /\ \A e \in o.events : ~Ran(e) /\ ~GivenUp(e)
    BY <1>3, <1>4, RowsDiffer
  <2>. QED BY <1>1, <1>7, <2>5, <2>6, <2>9, <2>10, <2>11, <2>12, TakeStep
<1>. QED BY <1>8, <1>9, <1>10

LEMMA AfterSucceededStep ==
    ASSUME TxInv, NEW t \in Sessions, NEW o, o = tx[t], AfterSucceeded(t)
    PROVE  TxInv'
<1>1. /\ UNCHANGED <<db, events, queued, eventId>> /\ begun' \in Nat /\ crossed' \in BOOLEAN
      /\ o.pc = "prev"
  BY Before DEF AfterSucceeded, Rest, At
<1>2. Shape(o) /\ Pcs(o) /\ Forgets(o) /\ Qs(o)
  BY Before
<1>3. PICK b : b = (PreviousStatus(t, o.id) = "succeeded") OBVIOUS
<1>4. PICK r : r = [[o EXCEPT !.pc = "streak"] EXCEPT !.fresh = b] OBVIOUS
<1>5. Set(t, r) BY <1>3, <1>4 DEF AfterSucceeded, Go
<1>6. /\ Shape(r) /\ r.pc = "streak" /\ r.mine = o.mine /\ r.id = o.id
      /\ r.op = o.op /\ r.ev = o.ev /\ r.events = o.events /\ r.queued = o.queued
      /\ r.at = o.at /\ r.fresh = b /\ r.jobless = o.jobless
  BY <1>2, <1>4 DEF Shape
<1>7. Pcs(r)
  <2>1. b \in BOOLEAN BY <1>3
  <2>2. r.fresh \in BOOLEAN BY <1>6, <2>1
  <2>. QED BY <1>1, <1>2, <1>6, <2>2
       DEF Pcs, ClearPcs, RunPcs, EndPcs, QuietPcs, DeletePcs, ReleasePcs, Ends
<1>8. Forgets(r) /\ Qs(r) BY <1>1, <1>2, <1>6 DEF Forgets, Qs
<1>. QED BY <1>1, <1>5, <1>6, <1>7, <1>8, GoStep

LEMMA StreakOfStep ==
    ASSUME TxInv, NEW t \in Sessions, NEW o, o = tx[t], StreakOf(t)
    PROVE  TxInv'
<1>1. /\ UNCHANGED <<db, events, queued, eventId>> /\ begun' \in Nat /\ crossed' \in BOOLEAN
      /\ o.pc = "streak"
  BY Before DEF StreakOf, Rest, At
<1>2. Shape(o) /\ Pcs(o)
  BY Before
<1>3. /\ o.id \in Runs /\ RunRow(o.id) \in DOMAIN o.mine
      /\ ~Over(db[RunRow(o.id)]) /\ Over(o.mine[RunRow(o.id)])
      /\ o.events = {} /\ o.queued = {} /\ o.op \in Ends /\ JobRow \notin DOMAIN o.mine
      /\ \A c \in Channels : AlertRow(c) \notin DOMAIN o.mine
  BY <1>1, <1>2 DEF Pcs, RunPcs, EndPcs, QuietPcs
<1>4. PICK job : job = db[JobRow] OBVIOUS
<1>5. View(t, JobRow) = job BY <1>3, <1>4 DEF View
<1>6. job \in JobRec BY <1>5, ViewRec
<1>7. CASE ~job.there
  <2>1. PICK r : r = [[o EXCEPT !.pc = "event"] EXCEPT !.jobless = TRUE] OBVIOUS
  <2>2. Set(t, r) BY <1>5, <1>7, <2>1 DEF StreakOf, Go
  <2>3. /\ Shape(r) /\ r.pc = "event" /\ r.jobless /\ r.jobless \in BOOLEAN /\ r.mine = o.mine
        /\ r.op = o.op /\ r.ev = o.ev /\ r.events = o.events /\ r.id = o.id /\ r.queued = o.queued
        /\ r.at = o.at /\ r.fresh = o.fresh
    BY <1>2, <2>1 DEF Shape
  <2>4. Pcs(r)
    BY <1>2, <1>3, <1>4, <1>7, <2>3
    DEF Pcs, ClearPcs, RunPcs, EndPcs, QuietPcs, DeletePcs, ReleasePcs, Ends
  <2>5. Forgets(r) /\ Qs(r)
    BY <1>3, <2>3 DEF Forgets, Qs
  <2>. QED BY <1>1, <2>2, <2>3, <2>4, <2>5, GoStep
<1>8. CASE job.there
  <2>1. PICK v : v = [job EXCEPT !.failed = IF o.fresh THEN 1 ELSE @ + 1] OBVIOUS
  <2>2. PICK r : r = [[o EXCEPT !.pc = "event"] EXCEPT !.mine = Put(@, JobRow, v)] OBVIOUS
  <2>3. Set(t, r) /\ ~Locked(t, JobRow)
    BY <1>5, <1>8, <2>1, <2>2 DEF StreakOf, Go, Take
  <2>4. /\ Shape(r) /\ r.pc = "event" /\ r.jobless = o.jobless /\ r.mine = Put(o.mine, JobRow, v)
        /\ r.op = o.op /\ r.ev = o.ev /\ r.events = o.events /\ r.id = o.id /\ r.queued = o.queued
        /\ r.at = o.at /\ r.fresh = o.fresh
    BY <1>2, <2>2 DEF Shape
  <2>5. v \in JobRec /\ v.there BY <1>6, <1>8, <2>1 DEF JobRec
  <2>6. IsPut(r.mine, o.mine, JobRow, v) BY <2>4 DEF IsPut, Put
  <2>7. HoldsJob(r.mine) BY <2>5, <2>6 DEF HoldsJob, IsPut
  <2>8. /\ RunRow(o.id) \in DOMAIN r.mine /\ Over(r.mine[RunRow(o.id)])
        /\ \A c \in Channels : AlertRow(c) \notin DOMAIN r.mine
    BY <1>3, <2>6, RowsDiffer DEF IsPut
  <2>9. Pcs(r)
    BY <1>2, <1>3, <2>4, <2>7, <2>8
    DEF Pcs, ClearPcs, RunPcs, EndPcs, QuietPcs, DeletePcs, ReleasePcs, Ends
  <2>10. Forgets(r) /\ Qs(r)
    BY <1>3, <2>4, <2>7 DEF Forgets, Qs, HoldsJob
  <2>11. MayPut(o.mine, JobRow, v)
    BY <1>4, <1>8, <2>5, RowsDiffer, GoodRows DEF MayPut
  <2>. QED BY <1>1, <2>3, <2>4, <2>9, <2>10, <2>11, RowsThere, RowsDiffer, TakeStep
<1>. QED BY <1>7, <1>8

\* An id that is drawn now is not in use.
LEMMA NewId ==
    ASSUME TxInv
    PROVE  /\ \A c \in Channels : db[AlertRow(c)].held # eventId
           /\ \A q \in queued : q.ev # eventId
           /\ eventId \in Nat \ {0} /\ eventId \in 1 .. (eventId + 1) - 1 /\ eventId \in 0 .. (eventId + 1) - 1
<1>1. Committed(eventId) /\ eventId \in Nat /\ eventId >= 2 BY DEF TxInv
<1>2. \A c \in Channels : db[AlertRow(c)].held # eventId BY <1>1 DEF Committed
<1>3. \A q \in queued : q.ev # eventId BY <1>1 DEF Committed
<1>. QED BY <1>1, <1>2, <1>3

\* An event is inserted, and rows other than alert states may be taken.
LEMMA EmitStep ==
    ASSUME TxInv, NEW t \in Sessions, NEW o, o = tx[t], NEW r, Shape(r), Set(t, r),
           UNCHANGED <<db, events, queued>>, eventId' = eventId + 1, begun' \in Nat, crossed' \in BOOLEAN,
           NEW e, e \in Event, e.id = eventId, r.events = o.events \cup {e}, r.ev = eventId,
           r.op # "release", Mine(r.mine),
           \A x \in DOMAIN r.mine : x \in DOMAIN o.mine \/ ~Locked(t, x),
           \A c \in Channels : AlertRow(c) \in DOMAIN r.mine =>
                AlertRow(c) \in DOMAIN o.mine /\ r.mine[AlertRow(c)] = o.mine[AlertRow(c)],
           Evs(r), Qs(r), Pcs(r), Forgets(r)
    PROVE  TxInv'
<1>1. Local(r) BY DEF Local
<1>2. Drawn(o, eventId) /\ eventId \in Nat BY Before
<1>3. eventId' \in Nat /\ eventId' >= eventId /\ Drawn(r, eventId')
  <2>1. \A f \in r.events : f \in Event /\ f.id \in 1 .. eventId' - 1
    BY <1>2, NewId DEF Drawn
  <2>2. \A c \in Channels : AlertRow(c) \in DOMAIN r.mine =>
          r.mine[AlertRow(c)].held \in 0 .. eventId' - 1
    BY <1>2 DEF Drawn
  <2>3. r.ev \in 0 .. eventId' - 1 BY NewId
  <2>. QED BY <1>2, <2>1, <2>2, <2>3 DEF Drawn
<1>4. Moves(t, r)
  <2>1. \A f \in r.events : f \in o.events \/ f.id >= eventId BY <1>2
  <2>2. \A c \in Channels : AlertRow(c) \in DOMAIN r.mine =>
          AlertRow(c) \in DOMAIN o.mine /\ r.mine[AlertRow(c)].held = o.mine[AlertRow(c)].held
    OBVIOUS
  <2>. QED BY <2>1, <2>2 DEF Moves
<1>. QED BY <1>1, <1>3, <1>4, Move

LEMMA InsertFailedStep ==
    ASSUME TxInv, NEW t \in Sessions, NEW o, o = tx[t], InsertFailed(t)
    PROVE  TxInv'
<1>1. /\ UNCHANGED <<db, events, queued>> /\ begun' \in Nat /\ crossed' \in BOOLEAN
      /\ o.pc = "event" /\ eventId' = eventId + 1
  BY Before DEF InsertFailed, At
<1>2. Shape(o) /\ Pcs(o) /\ Mine(o.mine) /\ Forgets(o)
  BY Before
<1>3. /\ o.id \in Runs /\ RunRow(o.id) \in DOMAIN o.mine
      /\ ~Over(db[RunRow(o.id)]) /\ Over(o.mine[RunRow(o.id)])
      /\ o.events = {} /\ o.queued = {} /\ o.op \in Ends
      /\ \A c \in Channels : AlertRow(c) \notin DOMAIN o.mine
  BY <1>1, <1>2 DEF Pcs, RunPcs, EndPcs, QuietPcs
<1>4. PICK e : e = [id |-> eventId, type |-> "run.failed", of |-> o.id] OBVIOUS
<1>5. e \in Event /\ e.id = eventId /\ e.type = "run.failed" /\ e.of = o.id
  <2>1. o.id \in Nat BY <1>3, PgAssumption
  <2>. QED BY <1>4, <2>1, NewId DEF Event
<1>6. PICK s : s = Routed(t) /\ s \subseteq Channels BY DEF Routed
<1>7. PICK r : r = [[[o EXCEPT !.pc = "pace"] EXCEPT !.events = @ \cup {e}, !.ev = eventId]
                        EXCEPT !.todo = s] OBVIOUS
<1>8. Set(t, r) BY <1>4, <1>6, <1>7 DEF InsertFailed, Go, Emit
<1>9. /\ Shape(r) /\ r.pc = "pace" /\ r.mine = o.mine /\ r.id = o.id
      /\ r.op = o.op /\ r.ev = eventId /\ r.events = o.events \cup {e} /\ r.queued = o.queued
      /\ r.at = o.at /\ r.fresh = o.fresh /\ r.jobless = o.jobless /\ r.todo = s
  BY <1>2, <1>7 DEF Shape
<1>10. Pcs(r)
  BY <1>1, <1>2, <1>3, <1>5, <1>6, <1>9
  DEF Pcs, ClearPcs, RunPcs, EndPcs, QuietPcs, DeletePcs, ReleasePcs, Ends
<1>11. Forgets(r) /\ Qs(r) BY <1>1, <1>2, <1>3, <1>9 DEF Forgets, Qs
<1>12. Evs(r) BY <1>3, <1>5, <1>9, NewId DEF Evs, GivenUp
<1>13. r.op # "release" BY <1>3, <1>9 DEF Ends
<1>. QED BY <1>1, <1>2, <1>5, <1>8, <1>9, <1>10, <1>11, <1>12, <1>13, EmitStep

LEMMA InsertSucceededStep ==
    ASSUME TxInv, NEW t \in Sessions, NEW o, o = tx[t], InsertSucceeded(t)
    PROVE  TxInv'
<1>1. /\ UNCHANGED <<db, events, queued>> /\ begun' \in Nat /\ crossed' \in BOOLEAN
      /\ o.pc = "ok" /\ eventId' = eventId + 1
  BY Before DEF InsertSucceeded, At
<1>2. Shape(o) /\ Pcs(o) /\ Mine(o.mine) /\ Forgets(o)
  BY Before
<1>3. /\ o.id \in Runs /\ RunRow(o.id) \in DOMAIN o.mine
      /\ ~Over(db[RunRow(o.id)]) /\ Over(o.mine[RunRow(o.id)])
      /\ o.events = {} /\ o.queued = {} /\ o.op \in Ends
      /\ \A c \in Channels : AlertRow(c) \notin DOMAIN o.mine
  BY <1>1, <1>2 DEF Pcs, RunPcs, EndPcs, QuietPcs
<1>4. PICK e : e = [id |-> eventId, type |-> "run.succeeded", of |-> o.id] OBVIOUS
<1>5. e \in Event /\ e.id = eventId /\ e.type = "run.succeeded" /\ e.of = o.id
  <2>1. o.id \in Nat BY <1>3, PgAssumption
  <2>. QED BY <1>4, <2>1, NewId DEF Event
<1>7. PICK r : r = [[o EXCEPT !.pc = "previous"] EXCEPT !.events = @ \cup {e}, !.ev = eventId] OBVIOUS
<1>8. Set(t, r) BY <1>4, <1>7 DEF InsertSucceeded, Go, Emit
<1>9. /\ Shape(r) /\ r.pc = "previous" /\ r.mine = o.mine /\ r.id = o.id
      /\ r.op = o.op /\ r.ev = eventId /\ r.events = o.events \cup {e} /\ r.queued = o.queued
      /\ r.at = o.at /\ r.fresh = o.fresh /\ r.jobless = o.jobless
  BY <1>2, <1>7 DEF Shape
<1>10. Pcs(r)
  BY <1>1, <1>2, <1>3, <1>5, <1>9
  DEF Pcs, ClearPcs, RunPcs, EndPcs, QuietPcs, DeletePcs, ReleasePcs, Ends
<1>11. Forgets(r) /\ Qs(r) BY <1>1, <1>2, <1>3, <1>9 DEF Forgets, Qs
<1>12. Evs(r) BY <1>3, <1>5, <1>9, NewId DEF Evs, GivenUp
<1>13. r.op # "release" BY <1>3, <1>9 DEF Ends
<1>. QED BY <1>1, <1>2, <1>5, <1>8, <1>9, <1>10, <1>11, <1>12, <1>13, EmitStep

LEMMA RecoveringStep ==
    ASSUME TxInv, NEW t \in Sessions, NEW o, o = tx[t], Recovering(t)
    PROVE  TxInv'
<1>1. /\ UNCHANGED <<db, events, queued, eventId>> /\ begun' \in Nat /\ crossed' \in BOOLEAN
      /\ o.pc = "previous"
  BY Before DEF Recovering, Rest, At
<1>2. Shape(o) /\ Pcs(o) /\ Forgets(o) /\ Qs(o)
  BY Before
<1>3. PICK pc : pc = IF PreviousStatus(t, o.id) \in {"none", "succeeded"} THEN "end" ELSE "recover" OBVIOUS
<1>4. PICK r : r = [o EXCEPT !.pc = pc] OBVIOUS
<1>5. Set(t, r) BY <1>3, <1>4 DEF Recovering, Go
<1>6. /\ Shape(r) /\ r.pc = pc /\ r.mine = o.mine /\ r.id = o.id
      /\ r.op = o.op /\ r.ev = o.ev /\ r.events = o.events /\ r.queued = o.queued
      /\ r.at = o.at /\ r.fresh = o.fresh /\ r.jobless = o.jobless
  BY <1>2, <1>4 DEF Shape
<1>7. Pcs(r)
  <2>1. pc \in {"end", "recover"} BY <1>3
  <2>. QED BY <1>1, <1>2, <1>6, <2>1
       DEF Pcs, ClearPcs, RunPcs, EndPcs, QuietPcs, DeletePcs, ReleasePcs, Ends
<1>8. Forgets(r) /\ Qs(r) BY <1>1, <1>2, <1>6 DEF Forgets, Qs
<1>. QED BY <1>1, <1>5, <1>6, <1>7, <1>8, GoStep

\* A channel is told of the failure, or the failure is held for it.
LEMMA PaceQs ==
    ASSUME NEW o, NEW r, NEW c \in Channels, NEW v, NEW p, Qs(o),
           IsPut(r.mine, o.mine, AlertRow(c), v), \A q \in o.queued : q.ch # c,
           r.queued \subseteq o.queued \cup {p}, o.op # "release", r.events = o.events, r.at = o.at,
           p \in r.queued => /\ p \in Delivery /\ p.tx = o.at /\ p.ch = c /\ ~Spent(p.ev, c)
                             /\ v.held # p.ev /\ \E e \in o.events : e.id = p.ev
    PROVE  Qs(r)
<1> SUFFICES ASSUME NEW q \in r.queued
             PROVE  /\ q \in Delivery /\ q.tx = r.at /\ ~Spent(q.ev, q.ch)
                    /\ AlertRow(q.ch) \in DOMAIN r.mine => r.mine[AlertRow(q.ch)].held # q.ev
                    /\ \E e \in r.events : e.id = q.ev
  BY DEF Qs
<1>1. CASE q = p
  BY <1>1 DEF IsPut
<1>2. CASE q \in o.queued
  BY <1>2, RowsDiffer DEF Qs, IsPut
<1>. QED BY <1>1, <1>2

LEMMA PaceStep ==
    ASSUME TxInv, NEW t \in Sessions, NEW o, o = tx[t], Pace(t)
    PROVE  TxInv'
<1>1. /\ UNCHANGED <<db, events, queued, eventId>> /\ begun' \in Nat /\ crossed' \in BOOLEAN
      /\ o.pc = "pace"
  BY Before DEF Pace, Rest, At
<1>2. Shape(o) /\ Pcs(o) /\ Mine(o.mine) /\ Evs(o) /\ Forgets(o) /\ Qs(o) /\ Drawn(o, eventId)
  BY Before
<1>3. /\ o.op \in Ends /\ o.op # "release" /\ o.todo \subseteq Channels /\ o.at \in Nat
      /\ \A c \in o.todo : AlertRow(c) \notin DOMAIN o.mine /\ \A p \in o.queued : p.ch # c
      /\ \E e \in o.events : e.id = o.ev
      /\ o.jobless \/ HoldsJob(o.mine)
  BY <1>1, <1>2 DEF Pcs, EndPcs, Ends
<1>4. CASE o.todo = {}
  <2>1. PICK pc : pc = IF o.op = "unreadable" THEN "unschedule" ELSE "commit" OBVIOUS
  <2>2. PICK r : r = [o EXCEPT !.pc = pc] OBVIOUS
  <2>3. Set(t, r) BY <1>4, <2>1, <2>2 DEF Pace, Go
  <2>4. /\ Shape(r) /\ r.pc = pc /\ r.mine = o.mine /\ r.id = o.id
        /\ r.op = o.op /\ r.ev = o.ev /\ r.events = o.events /\ r.queued = o.queued
        /\ r.at = o.at /\ r.fresh = o.fresh /\ r.jobless = o.jobless
    BY <1>2, <2>2 DEF Shape
  <2>5. Pcs(r)
    <3>1. pc \in {"unschedule", "commit"} BY <2>1
    <3>. QED BY <1>1, <1>2, <2>4, <3>1
         DEF Pcs, ClearPcs, RunPcs, EndPcs, QuietPcs, DeletePcs, ReleasePcs, Ends
  <2>6. Forgets(r) /\ Qs(r) BY <1>1, <1>2, <2>4 DEF Forgets, Qs
  <2>. QED BY <1>1, <2>3, <2>4, <2>5, <2>6, GoStep
<1>5. CASE o.todo # {}
  <2>1. PICK c : c = Oldest(o.todo) OBVIOUS
  <2>2. c \in o.todo /\ c \in Channels /\ AlertRow(c) \notin DOMAIN o.mine /\ \A p \in o.queued : p.ch # c
    <3>1. o.todo \subseteq Nat BY <1>3, PgAssumption
    <3>2. c \in o.todo BY <1>5, <2>1, <3>1, OldestIn
    <3>. QED BY <1>3, <3>2
  <2>3. PICK p : p = [tx |-> o.at, ev |-> o.ev, ch |-> c] OBVIOUS
  <2>4. /\ p \in Delivery /\ p.tx = o.at /\ p.ch = c /\ p.ev = o.ev /\ ~Spent(p.ev, c)
        /\ \E e \in o.events : e.id = p.ev
    <3>1. PICK e \in o.events : e.id = o.ev BY <1>3
    <3>2. o.ev \in Nat \ {0} BY <1>2, <3>1 DEF Drawn, Event
    <3>3. ~Spent(o.ev, c) BY <1>2, <3>1 DEF Evs, Spent
    <3>. QED BY <1>3, <2>2, <2>3, <3>1, <3>2, <3>3 DEF Delivery
  <2>5. PICK s : s = o.todo \ {c} OBVIOUS
  <2>6. PICK rec : rec = [o EXCEPT !.todo = s] OBVIOUS
  <2>7. PICK x : x = AlertRow(c) OBVIOUS
  <2>8. CASE o.jobless
    <3>1. PICK r : r = [[o EXCEPT !.todo = s] EXCEPT !.queued = @ \cup {p}] OBVIOUS
    <3>2. Set(t, r)
      <4>1. rec.at = o.at BY <1>2, <2>6 DEF Shape
      <4>2. r = Queue(rec, o.ev, c) BY <2>3, <2>6, <3>1, <4>1 DEF Queue
      <4>3. rec = [tx[t] EXCEPT !.todo = @ \ {Oldest(tx[t].todo)}] BY <2>1, <2>5, <2>6
      <4>. QED BY <1>5, <2>1, <2>8, <4>2, <4>3 DEF Pace
    <3>3. /\ Shape(r) /\ r.pc = o.pc /\ r.mine = o.mine /\ r.id = o.id
          /\ r.op = o.op /\ r.ev = o.ev /\ r.events = o.events /\ r.queued = o.queued \cup {p}
          /\ r.at = o.at /\ r.fresh = o.fresh /\ r.jobless = o.jobless /\ r.todo = s
      BY <1>2, <3>1 DEF Shape
    <3>4. Pcs(r)
      <4>1. /\ s \subseteq Channels
            /\ \A b \in s : AlertRow(b) \notin DOMAIN r.mine /\ \A q \in r.queued : q.ch # b
        BY <1>3, <2>4, <2>5, <3>3
      <4>. QED BY <1>1, <1>2, <1>3, <3>3, <4>1
           DEF Pcs, ClearPcs, RunPcs, EndPcs, QuietPcs, DeletePcs, ReleasePcs, Ends
    <3>5. Qs(r) BY <1>2, <1>3, <2>2, <2>4, <3>3 DEF Qs
    <3>6. Forgets(r) BY <1>1, <1>2, <3>3 DEF Forgets
    <3>. QED BY <1>1, <3>2, <3>3, <3>4, <3>5, <3>6, GoStep
  <2>9. CASE ~o.jobless
    <3>1. HoldsJob(o.mine) BY <1>3, <2>9
    <3>2. ASSUME NEW v, v \in AlertRec, v.there, v.held = 0 \/ v.held = o.ev, ~Locked(t, x), NEW new \in SUBSET {p},
                 v.held = 0 \/ new = {},
                 NEW r, r = [[[o EXCEPT !.todo = s] EXCEPT !.queued = @ \cup new] EXCEPT !.mine = Put(@, x, v)], Set(t, r)
          PROVE  TxInv'
      <4>1. /\ Shape(r) /\ r.pc = o.pc /\ r.mine = Put(o.mine, x, v) /\ r.id = o.id
            /\ r.op = o.op /\ r.ev = o.ev /\ r.events = o.events /\ r.queued = o.queued \cup new
            /\ r.at = o.at /\ r.fresh = o.fresh /\ r.jobless = o.jobless /\ r.todo = s
        BY <1>2, <3>2 DEF Shape
      <4>2. IsPut(r.mine, o.mine, x, v) BY <4>1 DEF IsPut, Put
      <4>3. HoldsJob(r.mine) BY <2>7, <3>1, <4>2, RowsDiffer DEF HoldsJob, IsPut
      <4>4. Pcs(r)
        <5>1. \A b \in s : AlertRow(b) \notin DOMAIN r.mine /\ \A q \in r.queued : q.ch # b
          BY <1>3, <2>4, <2>5, <2>7, <4>1, <4>2, RowsDiffer DEF IsPut
        <5>2. s \subseteq Channels BY <1>3, <2>5
        <5>. QED BY <1>1, <1>2, <1>3, <4>1, <4>3, <5>1, <5>2
             DEF Pcs, ClearPcs, RunPcs, EndPcs, QuietPcs, DeletePcs, ReleasePcs, Ends
      <4>5. Qs(r)
        <5>1. v.held = 0 => v.held # p.ev BY <2>4 DEF Delivery
        <5>2. p \in r.queued => v.held = 0
          <6>1. p \notin o.queued BY <2>2, <2>4
          <6>. QED BY <3>2, <4>1, <6>1
        <5>3. r.queued \subseteq o.queued \cup {p} BY <4>1
        <5>. QED BY <1>2, <1>3, <2>2, <2>4, <2>7, <4>1, <4>2, <5>1, <5>2, <5>3, PaceQs
      <4>6. Forgets(r) BY <4>3 DEF Forgets, HoldsJob
      <4>7. x \in Rows /\ MayPut(o.mine, x, v)
        <5>1. x \in Rows /\ Good(x, v) BY <2>2, <2>7, <3>2, RowsThere, GoodRows
        <5>2. v.held # 0 => ~Spent(v.held, c) BY <2>4, <3>2
        <5>. QED BY <2>7, <3>1, <5>1, <5>2, RowsDiffer DEF MayPut
      <4>8. \A d \in Channels : x = AlertRow(d) => \/ v.held = 0
                                                   \/ v.held = View(t, x).held
                                                   \/ \E e \in o.events : e.id = v.held
        BY <1>3, <3>2
      <4>9. \A a : x # RunRow(a) /\ x # DelRow(a) BY <2>7, RowsDiffer
      <4>10. Set(t, r) /\ ~Locked(t, x) BY <3>2
      <4>. QED BY <1>1, <4>1, <4>4, <4>5, <4>6, <4>7, <4>8, <4>9, <4>10, TakeStep
    <3>3. CASE Take(t, x, [there |-> TRUE, held |-> 0], Queue(rec, o.ev, c))
      <4>1. PICK v : v = [there |-> TRUE, held |-> 0] OBVIOUS
      <4>2. v \in AlertRec /\ v.there /\ v.held = 0 BY <4>1 DEF AlertRec
      <4>3. rec.at = o.at BY <1>2, <2>6 DEF Shape
      <4>4. Queue(rec, o.ev, c) = [[o EXCEPT !.todo = s] EXCEPT !.queued = @ \cup {p}]
        BY <2>3, <2>6, <4>3 DEF Queue
      <4>5. PICK r : r = [[[o EXCEPT !.todo = s] EXCEPT !.queued = @ \cup {p}] EXCEPT !.mine = Put(@, x, v)]
        OBVIOUS
      <4>6. Set(t, r) /\ ~Locked(t, x) BY <3>3, <4>1, <4>4, <4>5 DEF Take
      <4>. QED BY <3>2, <4>2, <4>5, <4>6
    <3>4. CASE Take(t, x, [there |-> TRUE, held |-> o.ev], rec)
      <4>1. PICK v : v = [there |-> TRUE, held |-> o.ev] OBVIOUS
      <4>2. v \in AlertRec /\ v.there /\ v.held = o.ev
        <5>1. o.ev \in Nat BY <1>2 DEF Drawn
        <5>. QED BY <4>1, <5>1 DEF AlertRec
      <4>3. PICK r : r = [[[o EXCEPT !.todo = s] EXCEPT !.queued = @ \cup {}] EXCEPT !.mine = Put(@, x, v)]
        OBVIOUS
      <4>4. r = [rec EXCEPT !.mine = Put(@, x, v)]
        <5>1. rec = [[o EXCEPT !.todo = s] EXCEPT !.queued = @ \cup {}] BY <1>2, <2>6 DEF Shape
        <5>. QED BY <4>3, <5>1
      <4>5. Set(t, r) /\ ~Locked(t, x) BY <3>4, <4>1, <4>4 DEF Take
      <4>. QED BY <3>2, <4>2, <4>3, <4>5
    <3>5. rec = [tx[t] EXCEPT !.todo = @ \ {Oldest(tx[t].todo)}] BY <2>1, <2>5, <2>6
    <3>. QED BY <1>5, <2>1, <2>7, <2>9, <3>3, <3>4, <3>5 DEF Pace
  <2>10. o.jobless \in BOOLEAN BY <1>2 DEF Pcs
  <2>. QED BY <2>8, <2>9
<1>. QED BY <1>4, <1>5

LEMMA InsertRecoveredStep ==
    ASSUME TxInv, NEW t \in Sessions, NEW o, o = tx[t], InsertRecovered(t)
    PROVE  TxInv'
<1>1. /\ UNCHANGED <<db, events, queued>> /\ begun' \in Nat /\ crossed' \in BOOLEAN
      /\ o.pc = "recover" /\ eventId' = eventId + 1
  BY Before DEF InsertRecovered, At
<1>2. Shape(o) /\ Pcs(o) /\ Mine(o.mine) /\ Evs(o) /\ Forgets(o)
  BY Before
<1>3. /\ o.queued = {} /\ o.op \in Ends /\ o.at \in Nat /\ o.id \in Nat
      /\ \A c \in Channels : AlertRow(c) \notin DOMAIN o.mine
  BY <1>1, <1>2 DEF Pcs, EndPcs, QuietPcs
<1>4. PICK e : e = [id |-> eventId, type |-> "run.recovered", of |-> o.id] OBVIOUS
<1>5. e \in Event /\ e.id = eventId /\ e.type = "run.recovered" /\ e.of = o.id
  BY <1>3, <1>4, NewId DEF Event
<1>6. PICK job : job = View(t, JobRow) OBVIOUS
<1>7. job \in JobRec BY <1>6, ViewRec
<1>8. PICK told \in SUBSET Routed(t) :
        LET rec == Emit(Go(t, "end"), "run.recovered", tx[t].id)
            out == [rec EXCEPT !.queued = @ \cup {[tx |-> rec.at, ev |-> rec.ev, ch |-> c] : c \in told}]
        IN IF View(t, JobRow).there THEN Take(t, JobRow, View(t, JobRow), out) ELSE Set(t, out)
  BY DEF InsertRecovered
<1>9. told \subseteq Channels BY <1>8 DEF Routed
<1>10. PICK sent : sent = {[tx |-> o.at, ev |-> eventId, ch |-> c] : c \in told} OBVIOUS
<1>11. PICK rec : rec = [[o EXCEPT !.pc = "end"] EXCEPT !.events = @ \cup {e}, !.ev = eventId] OBVIOUS
<1>12. rec = Emit(Go(t, "end"), "run.recovered", tx[t].id) BY <1>4, <1>11 DEF Emit, Go
<1>13. rec.at = o.at /\ rec.ev = eventId BY <1>2, <1>11 DEF Shape
<1>14. PICK out : out = [[[o EXCEPT !.pc = "end"] EXCEPT !.events = @ \cup {e}, !.ev = eventId]
                           EXCEPT !.queued = @ \cup sent] OBVIOUS
<1>15. IF job.there THEN Take(t, JobRow, job, out) ELSE Set(t, out)
  <2>1. out = [rec EXCEPT !.queued = @ \cup {[tx |-> rec.at, ev |-> rec.ev, ch |-> c] : c \in told}]
    BY <1>10, <1>11, <1>13, <1>14
  <2>. QED BY <1>6, <1>8, <1>12, <2>1
<1>16. \A p \in sent : /\ p \in Delivery /\ p.tx = o.at /\ p.ev = eventId /\ p.ch \in Channels
                       /\ ~Spent(p.ev, p.ch)
  <2> SUFFICES ASSUME NEW c \in Channels, NEW p, p = [tx |-> o.at, ev |-> eventId, ch |-> c]
               PROVE  /\ p \in Delivery /\ p.tx = o.at /\ p.ev = eventId /\ p.ch \in Channels
                      /\ ~Spent(p.ev, p.ch)
    BY <1>9, <1>10
  <2>1. /\ p \in Delivery /\ p.tx = o.at /\ p.ev = eventId /\ p.ch \in Channels
    BY <1>3, NewId DEF Delivery
  <2>2. ~Spent(p.ev, p.ch) BY <2>1, NewId DEF Spent
  <2>. QED BY <2>1, <2>2
<1>17. ASSUME NEW r, Shape(r), r.pc = "end", r.id = o.id, r.op = o.op, r.ev = eventId,
              r.events = o.events \cup {e}, r.queued = sent, r.at = o.at, r.fresh = o.fresh, r.jobless = o.jobless,
              Mine(r.mine), Set(t, r), JobRow \in DOMAIN r.mine => r.mine[JobRow].there,
              \A x \in DOMAIN r.mine : x \in DOMAIN o.mine \/ (x = JobRow /\ ~Locked(t, x)),
              \A x \in DOMAIN o.mine : x # JobRow => x \in DOMAIN r.mine /\ r.mine[x] = o.mine[x]
       PROVE  TxInv'
  <2>1. \A c \in Channels : AlertRow(c) \notin DOMAIN r.mine
    BY <1>3, <1>17, RowsDiffer
  <2>2. \A f \in r.events : f.type = "run.succeeded" => r.pc \in {"previous", "recover", "end", "drop", "dropping", "commit"}
    BY <1>17
  <2>3. Pcs(r)
    BY <1>1, <1>2, <1>3, <1>17, <2>1, <2>2
    DEF Pcs, ClearPcs, RunPcs, EndPcs, QuietPcs, DeletePcs, ReleasePcs, Ends
  <2>4. Qs(r)
    <3>1. e \in r.events /\ e.id = eventId BY <1>5, <1>17
    <3>. QED BY <1>16, <1>17, <2>1, <3>1 DEF Qs
  <2>5. Forgets(r) BY <1>17 DEF Forgets
  <2>6. Evs(r)
    <3>1. ~Ran(e) /\ ~GivenUp(e) BY <1>5 DEF Ran, GivenUp
    <3>2. \A f \in r.events : f \in o.events \/ f = e BY <1>17
    <3>3. \A f \in r.events : /\ \A c \in Channels : db[AlertRow(c)].held # f.id
                              /\ \A q \in queued : q.ev # f.id
      BY <1>2, <1>5, <3>2, NewId DEF Evs
    <3>4. \A f \in r.events : Ran(f) =>
            /\ f.of = r.id /\ r.id \in Runs /\ RunRow(r.id) \in DOMAIN r.mine
            /\ ~Over(db[RunRow(r.id)]) /\ Over(r.mine[RunRow(r.id)])
      BY <1>2, <1>17, <3>1, <3>2, RowsDiffer DEF Evs
    <3>5. \A f \in r.events : GivenUp(f) =>
            /\ f.of = r.id /\ r.id \in Dels /\ DelRow(r.id) \in DOMAIN r.mine
            /\ db[DelRow(r.id)].state = "pending" /\ r.mine[DelRow(r.id)].state = "failed"
      BY <1>2, <1>17, <3>1, <3>2, RowsDiffer DEF Evs
    <3>6. \A f, g \in r.events : (Ran(f) /\ Ran(g)) \/ (GivenUp(f) /\ GivenUp(g)) => f = g
      BY <1>2, <3>1, <3>2 DEF Evs
    <3>. QED BY <3>3, <3>4, <3>5, <3>6 DEF Evs
  <2>7. r.op # "release" BY <1>3, <1>17 DEF Ends
  <2>8. \A x \in DOMAIN r.mine : x \in DOMAIN o.mine \/ ~Locked(t, x) BY <1>17
  <2>9. \A c \in Channels : AlertRow(c) \in DOMAIN r.mine =>
          AlertRow(c) \in DOMAIN o.mine /\ r.mine[AlertRow(c)] = o.mine[AlertRow(c)]
    BY <2>1
  <2>10. Shape(r) /\ Set(t, r) /\ r.events = o.events \cup {e} /\ r.ev = eventId /\ Mine(r.mine) BY <1>17
  <2>. QED BY <1>1, <1>5, <2>3, <2>4, <2>5, <2>6, <2>7, <2>8, <2>9, <2>10, EmitStep
<1>18. /\ Shape(out) /\ out.pc = "end" /\ out.id = o.id /\ out.op = o.op /\ out.ev = eventId
       /\ out.events = o.events \cup {e} /\ out.queued = sent /\ out.at = o.at /\ out.fresh = o.fresh
       /\ out.jobless = o.jobless /\ out.mine = o.mine
  BY <1>2, <1>3, <1>14 DEF Shape
<1>19. CASE ~job.there
  <2>1. Set(t, out) BY <1>15, <1>19
  <2>2. JobRow \in DOMAIN out.mine => out.mine[JobRow].there
    BY <1>1, <1>2, <1>18 DEF Forgets
  <2>. QED BY <1>2, <1>17, <1>18, <2>1, <2>2
<1>20. CASE job.there
  <2>1. PICK r : r = [out EXCEPT !.mine = Put(@, JobRow, job)] OBVIOUS
  <2>2. Set(t, r) /\ ~Locked(t, JobRow) BY <1>15, <1>20, <2>1 DEF Take
  <2>3. /\ Shape(r) /\ r.pc = "end" /\ r.id = o.id /\ r.op = o.op /\ r.ev = eventId
        /\ r.events = o.events \cup {e} /\ r.queued = sent /\ r.at = o.at /\ r.fresh = o.fresh
        /\ r.jobless = o.jobless /\ r.mine = Put(o.mine, JobRow, job)
    BY <1>18, <2>1 DEF Shape
  <2>4. IsPut(r.mine, o.mine, JobRow, job) BY <2>3 DEF IsPut, Put
  <2>5. MayPut(o.mine, JobRow, job)
    <3>1. db[JobRow].there BY <1>2, <1>6, <1>20 DEF Mine, View
    <3>. QED BY <1>7, <1>20, <3>1, RowsDiffer, GoodRows DEF MayPut
  <2>6. Mine(r.mine) BY <1>2, <2>4, <2>5, RowsThere, PutMine
  <2>7. /\ r.mine[JobRow].there
        /\ \A x \in DOMAIN r.mine : x \in DOMAIN o.mine \/ (x = JobRow /\ ~Locked(t, x))
        /\ \A x \in DOMAIN o.mine : x # JobRow => x \in DOMAIN r.mine /\ r.mine[x] = o.mine[x]
    BY <1>20, <2>2, <2>4 DEF IsPut
  <2>. QED BY <1>17, <2>2, <2>3, <2>6, <2>7
<1>. QED BY <1>7, <1>19, <1>20

LEMMA EndStreakStep ==
    ASSUME TxInv, NEW t \in Sessions, NEW o, o = tx[t], EndStreak(t)
    PROVE  TxInv'
<1>1. /\ UNCHANGED <<db, events, queued, eventId>> /\ begun' \in Nat /\ crossed' \in BOOLEAN
      /\ o.pc = "end"
  BY Before DEF EndStreak, At
<1>2. Shape(o) /\ Pcs(o) /\ Mine(o.mine) /\ Forgets(o) /\ Qs(o)
  BY Before
<1>3. o.op \in Ends /\ \A c \in Channels : AlertRow(c) \notin DOMAIN o.mine
  BY <1>1, <1>2 DEF Pcs, EndPcs, QuietPcs
<1>4. PICK job : job = View(t, JobRow) OBVIOUS
<1>5. job \in JobRec BY <1>4, ViewRec
<1>6. CASE ~(job.there /\ job.failed # 0)
  <2>1. PICK r : r = [o EXCEPT !.pc = "drop"] OBVIOUS
  <2>2. Set(t, r) BY <1>4, <1>6, <2>1 DEF EndStreak, Go
  <2>3. /\ Shape(r) /\ r.pc = "drop" /\ r.mine = o.mine /\ r.id = o.id
        /\ r.op = o.op /\ r.ev = o.ev /\ r.events = o.events /\ r.queued = o.queued
        /\ r.at = o.at /\ r.fresh = o.fresh /\ r.jobless = o.jobless
    BY <1>2, <2>1 DEF Shape
  <2>4. Pcs(r)
    BY <1>1, <1>2, <1>3, <2>3
    DEF Pcs, ClearPcs, RunPcs, EndPcs, QuietPcs, DeletePcs, ReleasePcs, Ends
  <2>5. Forgets(r) /\ Qs(r) BY <1>1, <1>2, <2>3 DEF Forgets, Qs
  <2>. QED BY <1>1, <2>2, <2>3, <2>4, <2>5, GoStep
<1>7. CASE job.there /\ job.failed # 0
  <2>1. PICK v : v = [job EXCEPT !.failed = 0] OBVIOUS
  <2>2. v \in JobRec /\ v.there BY <1>5, <1>7, <2>1 DEF JobRec
  <2>3. PICK r : r = [[o EXCEPT !.pc = "drop"] EXCEPT !.mine = Put(@, JobRow, v)] OBVIOUS
  <2>4. Set(t, r) /\ ~Locked(t, JobRow)
    BY <1>4, <1>7, <2>1, <2>3 DEF EndStreak, Go, Take
  <2>5. /\ Shape(r) /\ r.pc = "drop" /\ r.mine = Put(o.mine, JobRow, v) /\ r.id = o.id
        /\ r.op = o.op /\ r.ev = o.ev /\ r.events = o.events /\ r.queued = o.queued
        /\ r.at = o.at /\ r.fresh = o.fresh /\ r.jobless = o.jobless
    BY <1>2, <2>3 DEF Shape
  <2>6. IsPut(r.mine, o.mine, JobRow, v) BY <2>5 DEF IsPut, Put
  <2>7. Pcs(r)
    BY <1>1, <1>2, <1>3, <2>5
    DEF Pcs, ClearPcs, RunPcs, EndPcs, QuietPcs, DeletePcs, ReleasePcs, Ends
  <2>8. Qs(r) BY <1>2, <2>2, <2>5, <2>6, PutQs
  <2>9. Forgets(r) BY <2>2, <2>6 DEF Forgets, IsPut
  <2>10. MayPut(o.mine, JobRow, v)
    <3>1. db[JobRow].there BY <1>2, <1>4, <1>7 DEF Mine, View
    <3>. QED BY <2>2, <3>1, RowsDiffer, GoodRows DEF MayPut
  <2>. QED BY <1>1, <2>4, <2>5, <2>7, <2>8, <2>9, <2>10, RowsThere, RowsDiffer, TakeStep
<1>. QED BY <1>6, <1>7

\* The oldest of the channels left is one of them.
LEMMA OldestTodo ==
    ASSUME NEW S, S \subseteq Channels, S # {}
    PROVE  Oldest(S) \in S /\ Oldest(S) \in Channels
<1>1. S \subseteq Nat BY PgAssumption
<1>. QED BY <1>1, OldestIn

LEMMA DropHeldStep ==
    ASSUME TxInv, NEW t \in Sessions, NEW o, o = tx[t], DropHeld(t)
    PROVE  TxInv'
<1>1. /\ UNCHANGED <<db, events, queued, eventId>> /\ begun' \in Nat /\ crossed' \in BOOLEAN
      /\ o.pc \in {"drop", "dropping"}
  BY Before DEF DropHeld, Rest, At
<1>2. Shape(o) /\ Pcs(o) /\ Mine(o.mine) /\ Forgets(o) /\ Qs(o)
  BY Before
<1>3. JobRow \in DOMAIN o.mine => o.mine[JobRow].there
  BY <1>1, <1>2 DEF Forgets
<1>4. ASSUME NEW r, Set(t, r), Shape(r), r.pc \in {"dropping", "commit"}, r.mine = o.mine, r.id = o.id,
             r.op = o.op, r.ev = o.ev, r.events = o.events, r.queued = o.queued,
             r.at = o.at, r.fresh = o.fresh, r.jobless = o.jobless, r.todo \subseteq Channels \/ r.pc = "commit"
      PROVE  TxInv'
  <2>4. Pcs(r)
    BY <1>1, <1>2, <1>4
    DEF Pcs, ClearPcs, RunPcs, EndPcs, QuietPcs, DeletePcs, ReleasePcs, Ends
  <2>5. Forgets(r) BY <1>3, <1>4 DEF Forgets
  <2>6. Qs(r) BY <1>2, <1>4 DEF Qs
  <2>. QED BY <1>1, <1>4, <2>4, <2>5, <2>6, GoStep
<1>5. CASE o.pc = "drop"
  <2>1. PICK held : held = {c \in Channels : View(t, AlertRow(c)).there /\ View(t, AlertRow(c)).held # 0}
    OBVIOUS
  <2>2. PICK r : r = [[o EXCEPT !.pc = "dropping"] EXCEPT !.todo = held] OBVIOUS
  <2>3. Set(t, r) BY <1>5, <2>1, <2>2 DEF DropHeld, Go, At
  <2>4. /\ Shape(r) /\ r.pc = "dropping" /\ r.mine = o.mine /\ r.id = o.id /\ r.todo = held
        /\ r.op = o.op /\ r.ev = o.ev /\ r.events = o.events /\ r.queued = o.queued
        /\ r.at = o.at /\ r.fresh = o.fresh /\ r.jobless = o.jobless
    BY <1>2, <2>2 DEF Shape
  <2>. QED BY <1>4, <2>1, <2>3, <2>4
<1>6. CASE o.pc = "dropping" /\ o.todo = {}
  <2>1. PICK r : r = [o EXCEPT !.pc = "commit"] OBVIOUS
  <2>2. Set(t, r) BY <1>6, <2>1 DEF DropHeld, Go, At
  <2>3. /\ Shape(r) /\ r.pc = "commit" /\ r.mine = o.mine /\ r.id = o.id
        /\ r.op = o.op /\ r.ev = o.ev /\ r.events = o.events /\ r.queued = o.queued
        /\ r.at = o.at /\ r.fresh = o.fresh /\ r.jobless = o.jobless
    BY <1>2, <2>1 DEF Shape
  <2>. QED BY <1>4, <2>2, <2>3
<1>7. CASE o.pc = "dropping" /\ o.todo # {}
  <2>0. o.todo \subseteq Channels BY <1>2, <1>7 DEF Pcs
  <2>1. PICK c : c = Oldest(o.todo) OBVIOUS
  <2>2. c \in Channels BY <1>7, <2>0, <2>1, OldestTodo
  <2>3. PICK x : x = AlertRow(c) OBVIOUS
  <2>4. PICK w : w = View(t, x) /\ w \in AlertRec BY <2>2, <2>3, ViewRec
  <2>5. PICK v : v = [w EXCEPT !.held = 0] OBVIOUS
  <2>6. v \in AlertRec /\ v.held = 0 /\ v.there = w.there BY <2>4, <2>5 DEF AlertRec
  <2>7. PICK q : q = [o EXCEPT !.todo = @ \ {c}] OBVIOUS
  <2>8. /\ Shape(q) /\ q.pc = "dropping" /\ q.mine = o.mine /\ q.id = o.id /\ q.todo = o.todo \ {c}
        /\ q.op = o.op /\ q.ev = o.ev /\ q.events = o.events /\ q.queued = o.queued
        /\ q.at = o.at /\ q.fresh = o.fresh /\ q.jobless = o.jobless
    BY <1>2, <1>7, <2>7 DEF Shape
  <2>9. Set(t, q) \/ Take(t, x, v, q)
    BY <1>7, <2>1, <2>3, <2>4, <2>5, <2>7 DEF DropHeld, At
  <2>10. CASE Set(t, q) BY <1>4, <2>0, <2>8, <2>10
  <2>11. CASE Take(t, x, v, q)
    <3>1. PICK r : r = [q EXCEPT !.mine = Put(@, x, v)] OBVIOUS
    <3>2. Set(t, r) /\ ~Locked(t, x) BY <2>11, <3>1 DEF Take
    <3>3. /\ Shape(r) /\ r.pc = "dropping" /\ r.mine = Put(o.mine, x, v) /\ r.id = o.id
          /\ r.op = o.op /\ r.ev = o.ev /\ r.events = o.events /\ r.queued = o.queued
          /\ r.at = o.at /\ r.fresh = o.fresh /\ r.jobless = o.jobless /\ r.todo \subseteq Channels
      BY <2>0, <2>8, <3>1 DEF Shape
    <3>4. IsPut(r.mine, o.mine, x, v) BY <3>3 DEF IsPut, Put
    <3>5. Pcs(r)
      BY <1>1, <1>2, <3>3
      DEF Pcs, ClearPcs, RunPcs, EndPcs, QuietPcs, DeletePcs, ReleasePcs, Ends
    <3>6. Qs(r) BY <1>2, <2>2, <2>3, <2>6, <3>3, <3>4, PutQs
    <3>7. Forgets(r) BY <1>3, <2>3, <3>4, RowsDiffer DEF Forgets, IsPut
    <3>8. MayPut(o.mine, x, v)
      <4>1. w.there => db[x].there \/ HoldsJob(o.mine) BY <1>2, <2>2, <2>3, <2>4 DEF Mine, View
      <4>. QED BY <2>2, <2>3, <2>6, <4>1, RowsDiffer, GoodRows DEF MayPut
    <3>9. x \in Rows /\ \A a : x # RunRow(a) /\ x # DelRow(a) BY <2>2, <2>3, RowsThere, RowsDiffer
    <3>. QED BY <1>1, <2>6, <3>2, <3>3, <3>5, <3>6, <3>7, <3>8, <3>9, TakeStep
  <2>. QED BY <2>9, <2>10, <2>11
<1>. QED BY <1>1, <1>5, <1>6, <1>7

LEMMA UnscheduleStep ==
    ASSUME TxInv, NEW t \in Sessions, NEW o, o = tx[t], Unschedule(t)
    PROVE  TxInv'
<1>1. /\ UNCHANGED <<db, events, queued, eventId>> /\ begun' \in Nat /\ crossed' \in BOOLEAN
      /\ o.pc = "unschedule"
  BY Before DEF Unschedule, Rest, At
<1>2. Shape(o) /\ Pcs(o) /\ Mine(o.mine) /\ Forgets(o) /\ Qs(o)
  BY Before
<1>3. PICK job : job = View(t, JobRow) OBVIOUS
<1>4. job \in JobRec BY <1>3, ViewRec
<1>5. CASE ~job.there
  <2>1. PICK r : r = [o EXCEPT !.pc = "commit"] OBVIOUS
  <2>2. Set(t, r) BY <1>3, <1>5, <2>1 DEF Unschedule, Go
  <2>3. /\ Shape(r) /\ r.pc = "commit" /\ r.mine = o.mine /\ r.id = o.id
        /\ r.op = o.op /\ r.ev = o.ev /\ r.events = o.events /\ r.queued = o.queued
        /\ r.at = o.at /\ r.fresh = o.fresh /\ r.jobless = o.jobless
    BY <1>2, <2>1 DEF Shape
  <2>4. Pcs(r)
    BY <1>1, <1>2, <2>3
    DEF Pcs, ClearPcs, RunPcs, EndPcs, QuietPcs, DeletePcs, ReleasePcs, Ends
  <2>5. Forgets(r) /\ Qs(r) BY <1>1, <1>2, <2>3 DEF Forgets, Qs
  <2>. QED BY <1>1, <2>2, <2>3, <2>4, <2>5, GoStep
<1>6. CASE job.there
  <2>1. PICK r : r = [[o EXCEPT !.pc = "commit"] EXCEPT !.mine = Put(@, JobRow, job)] OBVIOUS
  <2>2. Set(t, r) /\ ~Locked(t, JobRow)
    BY <1>3, <1>6, <2>1 DEF Unschedule, Go, Take
  <2>3. /\ Shape(r) /\ r.pc = "commit" /\ r.mine = Put(o.mine, JobRow, job) /\ r.id = o.id
        /\ r.op = o.op /\ r.ev = o.ev /\ r.events = o.events /\ r.queued = o.queued
        /\ r.at = o.at /\ r.fresh = o.fresh /\ r.jobless = o.jobless
    BY <1>2, <2>1 DEF Shape
  <2>4. IsPut(r.mine, o.mine, JobRow, job) BY <2>3 DEF IsPut, Put
  <2>5. Pcs(r)
    BY <1>1, <1>2, <2>3
    DEF Pcs, ClearPcs, RunPcs, EndPcs, QuietPcs, DeletePcs, ReleasePcs, Ends
  <2>6. Qs(r) BY <1>2, <1>6, <2>3, <2>4, PutQs
  <2>7. Forgets(r) BY <1>6, <2>4 DEF Forgets, IsPut
  <2>8. MayPut(o.mine, JobRow, job)
    <3>1. db[JobRow].there BY <1>2, <1>3, <1>6 DEF Mine, View
    <3>. QED BY <1>4, <1>6, <3>1, RowsDiffer, GoodRows DEF MayPut
  <2>. QED BY <1>1, <2>2, <2>3, <2>5, <2>6, <2>7, <2>8, RowsThere, RowsDiffer, TakeStep
<1>. QED BY <1>4, <1>5, <1>6

\* DELETE takes the rows todo one by one; the transaction has no delivery and no
\* outcome of its own.
LEMMA DeleteNextStep ==
    ASSUME TxInv, NEW t \in Sessions, NEW o, o = tx[t], DeleteNext(t),
           UNCHANGED <<db, events, queued, eventId>>, begun' \in Nat, crossed' \in BOOLEAN,
           o.pc \in {"runs", "alerts"}
    PROVE  TxInv'
<1>1. Shape(o) /\ Pcs(o) /\ Mine(o.mine) /\ Forgets(o) /\ Committed(eventId)
  BY Before
<1>2. /\ o.queued = {} /\ o.op \in {"delete job", "delete channel"}
      /\ \A e \in o.events : e.type = "job.removed"
      /\ o.pc = "runs" => o.todo \subseteq RunRows /\ o.op = "delete job" /\ JobRow \notin DOMAIN o.mine
                          /\ \A c \in Channels : AlertRow(c) \notin DOMAIN o.mine
      /\ o.pc = "alerts" => o.todo \subseteq {AlertRow(c) : c \in Channels}
  BY <1>1 DEF Pcs, DeletePcs, QuietPcs
<1>3. PICK x \in o.todo : Take(t, x, [View(t, x) EXCEPT !.there = FALSE], [o EXCEPT !.todo = @ \ {x}])
  BY DEF DeleteNext
<1>4. /\ o.pc = "runs" => \E i \in Runs : x = RunRow(i)
      /\ o.pc = "alerts" => \E c \in Channels : x = AlertRow(c)
  BY <1>2, <1>3 DEF RunRows
<1>5. PICK w : w = View(t, x) OBVIOUS
<1>6. x \in Rows /\ Good(x, w) BY <1>4, <1>5, RowsThere, ViewGood
<1>7. PICK v : v = [w EXCEPT !.there = FALSE] OBVIOUS
<1>8. PICK s : s = o.todo \ {x} OBVIOUS
<1>9. PICK r : r = [[o EXCEPT !.todo = s] EXCEPT !.mine = Put(@, x, v)] OBVIOUS
<1>10. Set(t, r) /\ ~Locked(t, x) BY <1>3, <1>5, <1>7, <1>8, <1>9 DEF Take
<1>11. /\ Shape(r) /\ r.pc = o.pc /\ r.mine = Put(o.mine, x, v) /\ r.id = o.id
       /\ r.op = o.op /\ r.ev = o.ev /\ r.events = o.events /\ r.queued = o.queued
       /\ r.at = o.at /\ r.fresh = o.fresh /\ r.jobless = o.jobless /\ r.todo = s
  BY <1>1, <1>9 DEF Shape
<1>12. IsPut(r.mine, o.mine, x, v) BY <1>11 DEF IsPut, Put
<1>13. MayPut(o.mine, x, v) /\ (o.pc = "alerts" => ~v.there /\ v.held = View(t, x).held)
  <2>1. CASE o.pc = "runs"
    <3>1. PICK i \in Runs : x = RunRow(i) BY <1>4, <2>1
    <3>2. w \in RunRec /\ (w.status \in {"none", "pending"} => w.claims = 0) BY <1>6, <3>1, GoodRows
    <3>3. v \in RunRec /\ v.status = w.status /\ v.claims = w.claims BY <1>7, <3>2 DEF RunRec
    <3>4. Over(db[x]) => Over(w) BY <1>1, <1>5, <3>1 DEF Mine, View
    <3>5. Over(db[x]) => Over(v) BY <3>3, <3>4 DEF Over
    <3>6. Good(x, v) BY <3>1, <3>2, <3>3, GoodRows
    <3>. QED BY <2>1, <3>1, <3>5, <3>6, RowsDiffer DEF MayPut
  <2>2. CASE o.pc = "alerts"
    <3>1. PICK c \in Channels : x = AlertRow(c) BY <1>4, <2>2
    <3>2. w \in AlertRec BY <1>6, <3>1, GoodRows
    <3>3. v \in AlertRec /\ v.held = w.held /\ ~v.there BY <1>7, <3>2 DEF AlertRec
    <3>4. w.held # 0 => ~Spent(w.held, c) BY <1>1, <1>5, <3>1 DEF Mine, View, Committed
    <3>5. Good(x, v) BY <3>1, <3>3, GoodRows
    <3>6. v.held # 0 => ~Spent(v.held, c) BY <3>3, <3>4
    <3>7. \A d \in Channels : x = AlertRow(d) => d = c BY <3>1, RowsDiffer
    <3>8. MayPut(o.mine, x, v) BY <3>1, <3>3, <3>5, <3>6, <3>7, RowsDiffer DEF MayPut
    <3>. QED BY <1>5, <3>3, <3>8
  <2>. QED BY <2>1, <2>2
<1>14. Pcs(r)
  <2>1. /\ o.pc = "runs" => /\ JobRow \notin DOMAIN r.mine
                            /\ \A c \in Channels : AlertRow(c) \notin DOMAIN r.mine
        /\ s \subseteq o.todo
    BY <1>2, <1>4, <1>8, <1>12, RowsDiffer DEF IsPut
  <2>2. /\ o.pc = "runs" => s \subseteq RunRows
        /\ o.pc = "alerts" => s \subseteq {AlertRow(c) : c \in Channels}
    BY <1>2, <2>1
  <2>. QED BY <1>1, <1>2, <1>11, <2>1, <2>2
       DEF Pcs, ClearPcs, RunPcs, EndPcs, QuietPcs, DeletePcs, ReleasePcs, Ends
<1>15. Forgets(r)
  <2>1. x # JobRow BY <1>4, RowsDiffer
  <2>2. SUFFICES ASSUME JobRow \in DOMAIN r.mine, ~r.mine[JobRow].there
                 PROVE  /\ r.op = "delete job" /\ r.pc = "alerts"
                        /\ \A c \in Channels : AlertRow(c) \in DOMAIN r.mine => ~r.mine[AlertRow(c)].there
                        /\ \A c \in Channels : db[AlertRow(c)].there => AlertRow(c) \in r.todo \cup DOMAIN r.mine
    BY DEF Forgets
  <2>3. JobRow \in DOMAIN o.mine /\ ~o.mine[JobRow].there BY <1>12, <2>1, <2>2 DEF IsPut
  <2>4. o.op = "delete job" /\ o.pc = "alerts" BY <1>1, <2>3 DEF Forgets
  <2>5. \A c \in Channels : AlertRow(c) \in DOMAIN r.mine => ~r.mine[AlertRow(c)].there
    BY <1>1, <1>12, <1>13, <2>3, <2>4 DEF Forgets, IsPut
  <2>6. \A c \in Channels : db[AlertRow(c)].there => AlertRow(c) \in s \cup DOMAIN r.mine
    BY <1>1, <1>8, <1>12, <2>3, <2>4 DEF Forgets, IsPut
  <2>. QED BY <1>11, <2>4, <2>5, <2>6
<1>16. Qs(r) BY <1>2, <1>11 DEF Qs
<1>17. \A c \in Channels : x = AlertRow(c) => \/ v.held = 0
                                              \/ v.held = View(t, x).held
                                              \/ \E e \in o.events : e.id = v.held
  BY <1>4, <1>13, RowsDiffer
<1>18. \A e \in o.events : ~Ran(e) /\ ~GivenUp(e) BY <1>2 DEF Ran, GivenUp
<1>19. MayPut(o.mine, x, v) BY <1>13
<1>. QED BY <1>6, <1>10, <1>11, <1>14, <1>15, <1>16, <1>17, <1>18, <1>19, TakeStep

LEMMA DeleteJobLookupStep ==
    ASSUME TxInv, NEW t \in Sessions, NEW o, o = tx[t], DeleteJobLookup(t)
    PROVE  TxInv'
<1>1. /\ UNCHANGED <<db, events, queued>> /\ begun' \in Nat /\ crossed' \in BOOLEAN
      /\ o.pc = "lookup"
  BY Before DEF DeleteJobLookup, At
<1>2. Shape(o) /\ Pcs(o) /\ Mine(o.mine)
  BY Before
<1>3. o.op = "delete job" /\ DOMAIN o.mine = {} /\ o.events = {} /\ o.queued = {}
  BY <1>1, <1>2 DEF Pcs, ClearPcs
<1>4. View(t, JobRow) \in JobRec BY ViewRec
<1>5. CASE ~View(t, JobRow).there
  <2>1. Set(t, NoTx) /\ eventId' = eventId BY <1>5 DEF DeleteJobLookup
  <2>. QED BY <1>1, <2>1, Reset
<1>6. CASE View(t, JobRow).there
  <2>1. PICK e : e = [id |-> eventId, type |-> "job.removed", of |-> 0] OBVIOUS
  <2>2. e \in Event /\ e.id = eventId /\ e.type = "job.removed"
    BY <2>1, NewId DEF Event
  <2>3. PICK s : s = Present(t, RunRows) /\ s \subseteq RunRows BY DEF Present
  <2>4. PICK r : r = [[[o EXCEPT !.pc = "runs"] EXCEPT !.events = @ \cup {e}, !.ev = eventId]
                        EXCEPT !.todo = s] OBVIOUS
  <2>5. Set(t, r) /\ eventId' = eventId + 1 BY <1>6, <2>1, <2>3, <2>4 DEF DeleteJobLookup, Go, Emit
  <2>6. /\ Shape(r) /\ r.pc = "runs" /\ r.mine = o.mine /\ r.id = o.id
        /\ r.op = o.op /\ r.ev = eventId /\ r.events = o.events \cup {e} /\ r.queued = o.queued
        /\ r.at = o.at /\ r.fresh = o.fresh /\ r.jobless = o.jobless /\ r.todo = s
    BY <1>2, <2>4 DEF Shape
  <2>7. Pcs(r)
    BY <1>2, <1>3, <2>2, <2>3, <2>6
    DEF Pcs, ClearPcs, RunPcs, EndPcs, QuietPcs, DeletePcs, ReleasePcs, Ends
  <2>8. Forgets(r) /\ Qs(r) BY <1>3, <2>6 DEF Forgets, Qs
  <2>9. Evs(r) BY <1>3, <2>2, <2>6, NewId DEF Evs, GivenUp, Ran
  <2>10. r.op # "release" BY <1>3, <2>6
  <2>. QED BY <1>1, <1>2, <2>2, <2>5, <2>6, <2>7, <2>8, <2>9, <2>10, EmitStep
<1>. QED BY <1>4, <1>5, <1>6

LEMMA DeleteRunsStep ==
    ASSUME TxInv, NEW t \in Sessions, NEW o, o = tx[t], DeleteRuns(t)
    PROVE  TxInv'
<1>1. /\ UNCHANGED <<db, events, queued, eventId>> /\ begun' \in Nat /\ crossed' \in BOOLEAN
      /\ o.pc = "runs"
  BY Before DEF DeleteRuns, Rest, At
<1>2. Shape(o) /\ Pcs(o) /\ Forgets(o) /\ Qs(o)
  BY Before
<1>3. CASE o.todo # {}
  <2>1. DeleteNext(t) BY <1>3 DEF DeleteRuns
  <2>. QED BY <1>1, <2>1, DeleteNextStep
<1>4. CASE o.todo = {}
  <2>1. PICK r : r = [o EXCEPT !.pc = "job"] OBVIOUS
  <2>2. Set(t, r) BY <1>4, <2>1 DEF DeleteRuns, Go
  <2>3. /\ Shape(r) /\ r.pc = "job" /\ r.mine = o.mine /\ r.id = o.id
        /\ r.op = o.op /\ r.ev = o.ev /\ r.events = o.events /\ r.queued = o.queued
        /\ r.at = o.at /\ r.fresh = o.fresh /\ r.jobless = o.jobless
    BY <1>2, <2>1 DEF Shape
  <2>4. Pcs(r)
    BY <1>1, <1>2, <2>3
    DEF Pcs, ClearPcs, RunPcs, EndPcs, QuietPcs, DeletePcs, ReleasePcs, Ends
  <2>5. Forgets(r) /\ Qs(r) BY <1>1, <1>2, <2>3 DEF Forgets, Qs
  <2>. QED BY <1>1, <2>2, <2>3, <2>4, <2>5, GoStep
<1>. QED BY <1>3, <1>4

LEMMA DeleteJobRowStep ==
    ASSUME TxInv, NEW t \in Sessions, NEW o, o = tx[t], DeleteJobRow(t)
    PROVE  TxInv'
<1>1. /\ UNCHANGED <<db, events, queued, eventId>> /\ begun' \in Nat /\ crossed' \in BOOLEAN
      /\ o.pc = "job"
  BY Before DEF DeleteJobRow, Rest, At
<1>2. Shape(o) /\ Pcs(o) /\ Forgets(o) /\ Qs(o)
  BY Before
<1>3. /\ o.op = "delete job" /\ JobRow \notin DOMAIN o.mine /\ o.queued = {}
      /\ \A c \in Channels : AlertRow(c) \notin DOMAIN o.mine
  BY <1>1, <1>2 DEF Pcs, DeletePcs, QuietPcs
<1>4. PICK job : job = db[JobRow] OBVIOUS
<1>5. View(t, JobRow) = job BY <1>3, <1>4 DEF View
<1>6. job \in JobRec BY <1>5, ViewRec
<1>7. CASE ~job.there
  <2>1. PICK r : r = [o EXCEPT !.pc = "states"] OBVIOUS
  <2>2. Set(t, r) BY <1>5, <1>7, <2>1 DEF DeleteJobRow, Go
  <2>3. /\ Shape(r) /\ r.pc = "states" /\ r.mine = o.mine /\ r.id = o.id
        /\ r.op = o.op /\ r.ev = o.ev /\ r.events = o.events /\ r.queued = o.queued
        /\ r.at = o.at /\ r.fresh = o.fresh /\ r.jobless = o.jobless
    BY <1>2, <2>1 DEF Shape
  <2>4. Pcs(r)
    BY <1>1, <1>2, <2>3
    DEF Pcs, ClearPcs, RunPcs, EndPcs, QuietPcs, DeletePcs, ReleasePcs, Ends
  <2>5. Forgets(r) /\ Qs(r) BY <1>3, <2>3 DEF Forgets, Qs
  <2>. QED BY <1>1, <2>2, <2>3, <2>4, <2>5, GoStep
<1>8. CASE job.there
  <2>1. PICK v : v = [job EXCEPT !.there = FALSE] OBVIOUS
  <2>2. v \in JobRec /\ ~v.there BY <1>6, <2>1 DEF JobRec
  <2>3. PICK r : r = [[o EXCEPT !.pc = "states"] EXCEPT !.mine = Put(@, JobRow, v)] OBVIOUS
  <2>4. Set(t, r) /\ ~Locked(t, JobRow)
    BY <1>5, <1>8, <2>1, <2>3 DEF DeleteJobRow, Go, Take
  <2>5. /\ Shape(r) /\ r.pc = "states" /\ r.mine = Put(o.mine, JobRow, v) /\ r.id = o.id
        /\ r.op = o.op /\ r.ev = o.ev /\ r.events = o.events /\ r.queued = o.queued
        /\ r.at = o.at /\ r.fresh = o.fresh /\ r.jobless = o.jobless
    BY <1>2, <2>3 DEF Shape
  <2>6. IsPut(r.mine, o.mine, JobRow, v) BY <2>5 DEF IsPut, Put
  <2>7. Pcs(r)
    BY <1>1, <1>2, <2>5
    DEF Pcs, ClearPcs, RunPcs, EndPcs, QuietPcs, DeletePcs, ReleasePcs, Ends
  <2>8. Qs(r) BY <1>3, <2>5 DEF Qs
  <2>9. Forgets(r) BY <1>3, <2>5, <2>6, RowsDiffer DEF Forgets, IsPut
  <2>10. MayPut(o.mine, JobRow, v) BY <1>3, <1>4, <1>8, <2>2, RowsDiffer, GoodRows DEF MayPut
  <2>. QED BY <1>1, <2>4, <2>5, <2>7, <2>8, <2>9, <2>10, RowsThere, RowsDiffer, TakeStep
<1>. QED BY <1>6, <1>7, <1>8

LEMMA DeleteAlertStatesStep ==
    ASSUME TxInv, NEW t \in Sessions, NEW o, o = tx[t], DeleteAlertStates(t)
    PROVE  TxInv'
<1>1. /\ UNCHANGED <<db, events, queued, eventId>> /\ begun' \in Nat /\ crossed' \in BOOLEAN
      /\ o.pc \in {"states", "alerts"}
  BY Before DEF DeleteAlertStates, Rest, At
<1>2. Shape(o) /\ Pcs(o) /\ Forgets(o) /\ Qs(o)
  BY Before
<1>3. /\ o.op \in {"delete job", "delete channel"} /\ o.queued = {}
      /\ o.op = "delete channel" => o.id \in Channels
      /\ \A e \in o.events : e.type = "job.removed"
  BY <1>1, <1>2 DEF Pcs, DeletePcs
<1>4. CASE At(t, "states") /\ Set(t, [Go(t, "alerts") EXCEPT !.todo = Present(t, AlertRows(t))])
  <2>1. PICK s : s = Present(t, AlertRows(t)) OBVIOUS
  <2>2. /\ s \subseteq {AlertRow(c) : c \in Channels}
        /\ o.op = "delete job" => \A c \in Channels : View(t, AlertRow(c)).there => AlertRow(c) \in s
    BY <1>3, <2>1 DEF Present, AlertRows
  <2>3. PICK r : r = [[o EXCEPT !.pc = "alerts"] EXCEPT !.todo = s] OBVIOUS
  <2>4. Set(t, r) /\ o.pc = "states" BY <1>4, <2>1, <2>3 DEF Go, At
  <2>5. /\ Shape(r) /\ r.pc = "alerts" /\ r.mine = o.mine /\ r.id = o.id
        /\ r.op = o.op /\ r.ev = o.ev /\ r.events = o.events /\ r.queued = o.queued
        /\ r.at = o.at /\ r.fresh = o.fresh /\ r.jobless = o.jobless /\ r.todo = s
    BY <1>2, <2>3 DEF Shape
  <2>6. Pcs(r)
    BY <1>2, <1>3, <2>2, <2>5
    DEF Pcs, ClearPcs, RunPcs, EndPcs, QuietPcs, DeletePcs, ReleasePcs, Ends
  <2>7. Qs(r) BY <1>3, <2>5 DEF Qs
  <2>8. Forgets(r)
    <3>1. SUFFICES ASSUME JobRow \in DOMAIN o.mine, ~o.mine[JobRow].there
                   PROVE  /\ o.op = "delete job"
                          /\ \A c \in Channels : AlertRow(c) \in DOMAIN o.mine => ~o.mine[AlertRow(c)].there
                          /\ \A c \in Channels : db[AlertRow(c)].there => AlertRow(c) \in s \cup DOMAIN o.mine
      BY <2>5 DEF Forgets
    <3>2. /\ o.op = "delete job"
          /\ \A c \in Channels : AlertRow(c) \in DOMAIN o.mine => ~o.mine[AlertRow(c)].there
      BY <1>2, <3>1 DEF Forgets
    <3>3. \A c \in Channels : AlertRow(c) \notin DOMAIN o.mine => View(t, AlertRow(c)) = db[AlertRow(c)]
      BY DEF View
    <3>. QED BY <2>2, <3>2, <3>3
  <2>. QED BY <1>1, <2>4, <2>5, <2>6, <2>7, <2>8, GoStep
<1>5. CASE At(t, "alerts") /\ DeleteNext(t)
  <2>1. o.pc \in {"runs", "alerts"} BY <1>5 DEF At
  <2>. QED BY <1>1, <1>5, <2>1, DeleteNextStep
<1>6. CASE /\ At(t, "alerts") /\ tx[t].todo = {}
           /\ Set(t, Go(t, IF tx[t].op = "delete channel" THEN "deliveries" ELSE "commit"))
  <2>1. PICK pc : pc = IF o.op = "delete channel" THEN "deliveries" ELSE "commit" OBVIOUS
  <2>2. PICK r : r = [o EXCEPT !.pc = pc] OBVIOUS
  <2>3. Set(t, r) /\ o.pc = "alerts" /\ o.todo = {} BY <1>6, <2>1, <2>2 DEF Go, At
  <2>4. /\ Shape(r) /\ r.pc = pc /\ r.mine = o.mine /\ r.id = o.id
        /\ r.op = o.op /\ r.ev = o.ev /\ r.events = o.events /\ r.queued = o.queued
        /\ r.at = o.at /\ r.fresh = o.fresh /\ r.jobless = o.jobless
    BY <1>2, <2>2 DEF Shape
  <2>5. pc \in {"deliveries", "commit"} /\ (pc = "deliveries" <=> o.op = "delete channel") BY <2>1
  <2>6. Pcs(r)
    BY <1>2, <1>3, <2>4, <2>5
    DEF Pcs, ClearPcs, RunPcs, EndPcs, QuietPcs, DeletePcs, ReleasePcs, Ends
  <2>7. Qs(r) BY <1>3, <2>4 DEF Qs
  <2>8. Forgets(r) BY <1>2, <2>3, <2>4, <2>5 DEF Forgets
  <2>. QED BY <1>1, <2>3, <2>4, <2>6, <2>7, <2>8, GoStep
<1>. QED BY <1>4, <1>5, <1>6 DEF DeleteAlertStates

LEMMA FailPendingStep ==
    ASSUME TxInv, NEW t \in Sessions, NEW o, o = tx[t], FailPending(t)
    PROVE  TxInv'
<1>1. /\ UNCHANGED <<db, events, queued, eventId>> /\ begun' \in Nat /\ crossed' \in BOOLEAN
      /\ o.pc = "deliveries"
  BY Before DEF FailPending, Rest, At
<1>2. Shape(o) /\ Pcs(o) /\ Forgets(o) /\ Qs(o) /\ Mine(o.mine)
  BY Before
<1>3. o.queued = {} /\ \A e \in o.events : e.type = "job.removed"
  BY <1>1, <1>2 DEF Pcs, DeletePcs
<1>4. JobRow \in DOMAIN o.mine => o.mine[JobRow].there
  BY <1>1, <1>2 DEF Forgets
<1> DEFINE pending == {d \in Dels : tx[t].id = DelChannel /\ View(t, DelRow(d)).state = "pending"}
<1>5. CASE pending = {}
  <2>1. PICK r : r = [o EXCEPT !.pc = "channel"] OBVIOUS
  <2>2. Set(t, r) BY <1>5, <2>1 DEF FailPending, Go
  <2>3. /\ Shape(r) /\ r.pc = "channel" /\ r.mine = o.mine /\ r.id = o.id
        /\ r.op = o.op /\ r.ev = o.ev /\ r.events = o.events /\ r.queued = o.queued
        /\ r.at = o.at /\ r.fresh = o.fresh /\ r.jobless = o.jobless
    BY <1>2, <2>1 DEF Shape
  <2>4. Pcs(r)
    BY <1>1, <1>2, <2>3
    DEF Pcs, ClearPcs, RunPcs, EndPcs, QuietPcs, DeletePcs, ReleasePcs, Ends
  <2>5. Forgets(r) BY <1>4, <2>3 DEF Forgets
  <2>6. Qs(r) BY <1>3, <2>3 DEF Qs
  <2>. QED BY <1>1, <2>2, <2>3, <2>4, <2>5, <2>6, GoStep
<1>6. CASE pending # {}
  <2>1. PICK d : d = Oldest(pending) OBVIOUS
  <2>2. d \in Dels
    <3>1. pending \subseteq Nat BY PgAssumption
    <3>2. d \in pending BY <1>6, <2>1, <3>1, OldestIn
    <3>. QED BY <3>2
  <2>3. PICK x : x = DelRow(d) OBVIOUS
  <2>4. PICK w : w = View(t, x) /\ w \in DelRec BY <2>2, <2>3, ViewRec
  <2>5. PICK v : v = [w EXCEPT !.state = "failed"] OBVIOUS
  <2>6. v \in DelRec /\ v.state = "failed" BY <2>4, <2>5 DEF DelRec
  <2>7. PICK r : r = [o EXCEPT !.mine = Put(@, x, v)] OBVIOUS
  <2>8. Set(t, r) /\ ~Locked(t, x)
    BY <1>6, <2>1, <2>3, <2>4, <2>5, <2>7 DEF FailPending, Take
  <2>9. /\ Shape(r) /\ r.pc = "deliveries" /\ r.mine = Put(o.mine, x, v) /\ r.id = o.id
        /\ r.op = o.op /\ r.ev = o.ev /\ r.events = o.events /\ r.queued = o.queued
        /\ r.at = o.at /\ r.fresh = o.fresh /\ r.jobless = o.jobless
    BY <1>1, <1>2, <2>7 DEF Shape
  <2>10. IsPut(r.mine, o.mine, x, v) BY <2>9 DEF IsPut, Put
  <2>11. Pcs(r)
    BY <1>1, <1>2, <2>9
    DEF Pcs, ClearPcs, RunPcs, EndPcs, QuietPcs, DeletePcs, ReleasePcs, Ends
  <2>12. Qs(r) BY <1>3, <2>9 DEF Qs
  <2>13. Forgets(r) BY <1>4, <2>3, <2>10, RowsDiffer DEF Forgets, IsPut
  <2>14. MayPut(o.mine, x, v) BY <2>2, <2>3, <2>6, RowsDiffer, GoodRows DEF MayPut
  <2>15. /\ x \in Rows /\ \A c \in Channels : x # AlertRow(c)
         /\ \A e \in o.events : ~Ran(e) /\ ~GivenUp(e)
    BY <1>3, <2>2, <2>3, RowsThere, RowsDiffer DEF Ran, GivenUp
  <2>. QED BY <1>1, <2>8, <2>9, <2>11, <2>12, <2>13, <2>14, <2>15, TakeStep
<1>. QED BY <1>5, <1>6

LEMMA DeleteChannelRowStep ==
    ASSUME TxInv, NEW t \in Sessions, NEW o, o = tx[t], DeleteChannelRow(t)
    PROVE  TxInv'
<1>1. /\ UNCHANGED <<db, events, queued, eventId>> /\ begun' \in Nat /\ crossed' \in BOOLEAN
      /\ o.pc = "channel"
  BY Before DEF DeleteChannelRow, Rest, At
<1>2. Shape(o) /\ Pcs(o) /\ Forgets(o) /\ Qs(o) /\ Mine(o.mine)
  BY Before
<1>3. o.queued = {} /\ o.op = "delete channel" /\ o.id \in Channels
      /\ \A e \in o.events : e.type = "job.removed"
  BY <1>1, <1>2 DEF Pcs, DeletePcs
<1>4. JobRow \in DOMAIN o.mine => o.mine[JobRow].there
  BY <1>1, <1>2 DEF Forgets
<1>5. PICK x : x = ChannelRow(o.id) OBVIOUS
<1>6. View(t, x) \in ChannelRec BY <1>3, <1>5, ViewRec
<1>7. CASE ~View(t, x).there
  <2>1. PICK r : r = [o EXCEPT !.pc = "commit"] OBVIOUS
  <2>2. Set(t, r) BY <1>5, <1>7, <2>1 DEF DeleteChannelRow, Go
  <2>3. /\ Shape(r) /\ r.pc = "commit" /\ r.mine = o.mine /\ r.id = o.id
        /\ r.op = o.op /\ r.ev = o.ev /\ r.events = o.events /\ r.queued = o.queued
        /\ r.at = o.at /\ r.fresh = o.fresh /\ r.jobless = o.jobless
    BY <1>2, <2>1 DEF Shape
  <2>4. Pcs(r)
    BY <1>1, <1>2, <1>3, <2>3
    DEF Pcs, ClearPcs, RunPcs, EndPcs, QuietPcs, DeletePcs, ReleasePcs, Ends
  <2>5. Forgets(r) BY <1>4, <2>3 DEF Forgets
  <2>6. Qs(r) BY <1>3, <2>3 DEF Qs
  <2>. QED BY <1>1, <2>2, <2>3, <2>4, <2>5, <2>6, GoStep
<1>8. CASE View(t, x).there
  <2>1. PICK v : v = [there |-> FALSE] OBVIOUS
  <2>2. v \in ChannelRec BY <2>1 DEF ChannelRec
  <2>3. PICK r : r = [[o EXCEPT !.pc = "commit"] EXCEPT !.mine = Put(@, x, v)] OBVIOUS
  <2>4. Set(t, r) /\ ~Locked(t, x)
    BY <1>5, <1>8, <2>1, <2>3 DEF DeleteChannelRow, Go, Take
  <2>5. /\ Shape(r) /\ r.pc = "commit" /\ r.mine = Put(o.mine, x, v) /\ r.id = o.id
        /\ r.op = o.op /\ r.ev = o.ev /\ r.events = o.events /\ r.queued = o.queued
        /\ r.at = o.at /\ r.fresh = o.fresh /\ r.jobless = o.jobless
    BY <1>2, <2>3 DEF Shape
  <2>6. IsPut(r.mine, o.mine, x, v) BY <2>5 DEF IsPut, Put
  <2>7. Pcs(r)
    BY <1>1, <1>2, <1>3, <2>5
    DEF Pcs, ClearPcs, RunPcs, EndPcs, QuietPcs, DeletePcs, ReleasePcs, Ends
  <2>8. Qs(r) BY <1>3, <2>5 DEF Qs
  <2>9. Forgets(r) BY <1>4, <1>5, <2>6, RowsDiffer DEF Forgets, IsPut
  <2>10. MayPut(o.mine, x, v) BY <1>3, <1>5, <2>2, RowsDiffer, GoodRows DEF MayPut
  <2>11. /\ x \in Rows /\ \A c \in Channels : x # AlertRow(c)
         /\ \A a : x # RunRow(a) /\ x # DelRow(a)
    BY <1>3, <1>5, RowsThere, RowsDiffer
  <2>. QED BY <1>1, <2>4, <2>5, <2>7, <2>8, <2>9, <2>10, <2>11, TakeStep
<1>. QED BY <1>6, <1>7, <1>8

LEMMA ReleasePeekStep ==
    ASSUME TxInv, NEW t \in Sessions, NEW o, o = tx[t], ReleasePeek(t)
    PROVE  TxInv'
<1>1. /\ UNCHANGED <<db, events, queued, eventId>> /\ begun' \in Nat /\ crossed' \in BOOLEAN
      /\ o.pc = "peek"
  BY Before DEF ReleasePeek, Rest, At
<1>2. Shape(o) /\ Pcs(o) /\ Forgets(o) /\ Qs(o)
  BY Before
<1>3. /\ o.op = "release" /\ o.id \in Channels /\ o.ev # 0
      /\ DOMAIN o.mine = {} /\ o.events = {} /\ o.queued = {}
  BY <1>1, <1>2 DEF Pcs, ClearPcs, ReleasePcs
<1>4. CASE Set(t, NoTx)
  BY <1>1, <1>4, Reset
<1>5. ASSUME NEW pc \in {"lock", "drop one"}, Set(t, Go(t, pc))
      PROVE  TxInv'
  <2>1. PICK r : r = [o EXCEPT !.pc = pc] OBVIOUS
  <2>2. Set(t, r) BY <1>5, <2>1 DEF Go
  <2>3. /\ Shape(r) /\ r.pc = pc /\ r.mine = o.mine /\ r.id = o.id
        /\ r.op = o.op /\ r.ev = o.ev /\ r.events = o.events /\ r.queued = o.queued
        /\ r.at = o.at /\ r.fresh = o.fresh /\ r.jobless = o.jobless
    BY <1>2, <2>1 DEF Shape
  <2>4. Pcs(r)
    BY <1>2, <1>3, <1>5, <2>3
    DEF Pcs, ClearPcs, RunPcs, EndPcs, QuietPcs, DeletePcs, ReleasePcs, Ends
  <2>5. Forgets(r) /\ Qs(r) BY <1>3, <2>3 DEF Forgets, Qs
  <2>. QED BY <1>1, <2>2, <2>3, <2>4, <2>5, GoStep
<1>. QED BY <1>4, <1>5 DEF ReleasePeek

LEMMA ReleaseLockStep ==
    ASSUME TxInv, NEW t \in Sessions, NEW o, o = tx[t], ReleaseLock(t)
    PROVE  TxInv'
<1>1. /\ UNCHANGED <<db, events, queued, eventId>> /\ begun' \in Nat /\ crossed' \in BOOLEAN
      /\ o.pc = "lock"
  BY Before DEF ReleaseLock, Rest, At
<1>2. Shape(o) /\ Pcs(o)
  BY Before
<1>3. /\ o.op = "release" /\ o.id \in Channels /\ o.ev # 0
      /\ DOMAIN o.mine = {} /\ o.events = {} /\ o.queued = {}
  BY <1>1, <1>2 DEF Pcs, ClearPcs, ReleasePcs
<1>4. PICK job : job = db[JobRow] OBVIOUS
<1>5. View(t, JobRow) = job BY <1>3, <1>4 DEF View
<1>6. job \in JobRec BY <1>5, ViewRec
<1>7. CASE ~job.there
  <2>1. PICK r : r = [o EXCEPT !.pc = "drop one"] OBVIOUS
  <2>2. Set(t, r) BY <1>5, <1>7, <2>1 DEF ReleaseLock, Go
  <2>3. /\ Shape(r) /\ r.pc = "drop one" /\ r.mine = o.mine /\ r.id = o.id
        /\ r.op = o.op /\ r.ev = o.ev /\ r.events = o.events /\ r.queued = o.queued
        /\ r.at = o.at /\ r.fresh = o.fresh /\ r.jobless = o.jobless
    BY <1>2, <2>1 DEF Shape
  <2>4. Pcs(r)
    BY <1>2, <1>3, <2>3
    DEF Pcs, ClearPcs, RunPcs, EndPcs, QuietPcs, DeletePcs, ReleasePcs, Ends
  <2>5. Forgets(r) /\ Qs(r) BY <1>3, <2>3 DEF Forgets, Qs
  <2>. QED BY <1>1, <2>2, <2>3, <2>4, <2>5, GoStep
<1>8. CASE job.there
  <2>1. PICK pc : pc = IF job.failed > 0 THEN "held" ELSE "drop one" OBVIOUS
  <2>2. PICK r : r = [[o EXCEPT !.pc = pc] EXCEPT !.mine = Put(@, JobRow, job)] OBVIOUS
  <2>3. Set(t, r) /\ ~Locked(t, JobRow)
    BY <1>5, <1>8, <2>1, <2>2 DEF ReleaseLock, Go, Take
  <2>4. /\ Shape(r) /\ r.pc = pc /\ r.mine = Put(o.mine, JobRow, job) /\ r.id = o.id
        /\ r.op = o.op /\ r.ev = o.ev /\ r.events = o.events /\ r.queued = o.queued
        /\ r.at = o.at /\ r.fresh = o.fresh /\ r.jobless = o.jobless
    BY <1>2, <2>2 DEF Shape
  <2>5. IsPut(r.mine, o.mine, JobRow, job) BY <2>4 DEF IsPut, Put
  <2>6. HoldsJob(r.mine) /\ DOMAIN r.mine \subseteq {JobRow}
    BY <1>3, <1>8, <2>5 DEF HoldsJob, IsPut
  <2>7. Pcs(r)
    <3>1. pc \in {"held", "drop one"} BY <2>1
    <3>. QED BY <1>2, <1>3, <2>4, <2>6, <3>1
         DEF Pcs, ClearPcs, RunPcs, EndPcs, QuietPcs, DeletePcs, ReleasePcs, Ends
  <2>8. Qs(r) BY <1>3, <2>4 DEF Qs
  <2>9. Forgets(r) BY <2>6 DEF Forgets, HoldsJob
  <2>10. MayPut(o.mine, JobRow, job) BY <1>4, <1>6, <1>8, RowsDiffer, GoodRows DEF MayPut
  <2>. QED BY <1>1, <2>3, <2>4, <2>7, <2>8, <2>9, <2>10, RowsThere, RowsDiffer, TakeStep
<1>. QED BY <1>6, <1>7, <1>8

LEMMA ReleaseHeldStep ==
    ASSUME TxInv, NEW t \in Sessions, NEW o, o = tx[t], ReleaseHeld(t)
    PROVE  TxInv'
<1>1. /\ UNCHANGED <<db, events, queued, eventId>> /\ begun' \in Nat /\ crossed' \in BOOLEAN
      /\ o.pc = "held"
  BY Before DEF ReleaseHeld, Rest, At
<1>2. Shape(o) /\ Pcs(o) /\ Forgets(o) /\ Committed(eventId)
  BY Before
<1>3. /\ o.op = "release" /\ o.id \in Channels /\ o.ev # 0 /\ HoldsJob(o.mine)
      /\ DOMAIN o.mine \subseteq {JobRow} /\ o.events = {} /\ o.queued = {}
  BY <1>1, <1>2 DEF Pcs, ReleasePcs
<1>4. ASSUME NEW pc \in {"drop one", "send"}, Set(t, Go(t, pc)), pc = "send" => StillHeld(t)
      PROVE  TxInv'
  <2>1. PICK r : r = [o EXCEPT !.pc = pc] OBVIOUS
  <2>2. Set(t, r) BY <1>4, <2>1 DEF Go
  <2>3. /\ Shape(r) /\ r.pc = pc /\ r.mine = o.mine /\ r.id = o.id
        /\ r.op = o.op /\ r.ev = o.ev /\ r.events = o.events /\ r.queued = o.queued
        /\ r.at = o.at /\ r.fresh = o.fresh /\ r.jobless = o.jobless
    BY <1>2, <2>1 DEF Shape
  <2>4. pc = "send" => ~Spent(o.ev, o.id)
    <3>1. View(t, AlertRow(o.id)) = db[AlertRow(o.id)] BY <1>3, RowsDiffer DEF View
    <3>2. pc = "send" => db[AlertRow(o.id)].held = o.ev BY <1>4, <3>1 DEF StillHeld
    <3>. QED BY <1>2, <1>3, <3>2 DEF Committed
  <2>5. Pcs(r)
    BY <1>2, <1>3, <1>4, <2>3, <2>4
    DEF Pcs, ClearPcs, RunPcs, EndPcs, QuietPcs, DeletePcs, ReleasePcs, Ends
  <2>6. Forgets(r) /\ Qs(r) BY <1>1, <1>2, <1>3, <2>3 DEF Forgets, Qs
  <2>. QED BY <1>1, <2>2, <2>3, <2>5, <2>6, GoStep
<1>5. CASE PreviousStatus(t, 0) = "succeeded"
  <2>1. Set(t, Go(t, "drop one")) BY <1>5 DEF ReleaseHeld
  <2>. QED BY <1>4, <2>1
<1>6. CASE PreviousStatus(t, 0) # "succeeded" /\ ~StillHeld(t)
  <2>1. Set(t, NoTx) BY <1>6 DEF ReleaseHeld
  <2>. QED BY <1>1, <2>1, Reset
<1>7. CASE PreviousStatus(t, 0) # "succeeded" /\ StillHeld(t)
  <2>1. Set(t, Go(t, "send")) BY <1>7 DEF ReleaseHeld
  <2>. QED BY <1>4, <1>7, <2>1
<1>. QED BY <1>5, <1>6, <1>7

LEMMA ReleaseSendStep ==
    ASSUME TxInv, NEW t \in Sessions, NEW o, o = tx[t], ReleaseSend(t)
    PROVE  TxInv'
<1>1. /\ UNCHANGED <<db, events, queued, eventId>> /\ begun' \in Nat /\ crossed' \in BOOLEAN
      /\ o.pc = "send"
  BY Before DEF ReleaseSend, Rest, At
<1>2. Shape(o) /\ Pcs(o) /\ Drawn(o, eventId)
  BY Before
<1>3. /\ o.op = "release" /\ o.id \in Channels /\ o.ev # 0 /\ HoldsJob(o.mine) /\ o.at \in Nat
      /\ DOMAIN o.mine \subseteq {JobRow} /\ o.events = {} /\ o.queued = {} /\ ~Spent(o.ev, o.id)
  BY <1>1, <1>2 DEF Pcs, ReleasePcs
<1>4. PICK p : p = [tx |-> o.at, ev |-> o.ev, ch |-> o.id] OBVIOUS
<1>5. p \in Delivery /\ p.tx = o.at /\ p.ev = o.ev /\ p.ch = o.id /\ o.ev \in Nat
  <2>1. o.ev \in Nat BY <1>2 DEF Drawn
  <2>. QED BY <1>3, <1>4, <2>1 DEF Delivery
<1>6. PICK x : x = AlertRow(o.id) OBVIOUS
<1>7. PICK v : v = [there |-> TRUE, held |-> 0] OBVIOUS
<1>8. v \in AlertRec /\ v.held = 0 BY <1>7 DEF AlertRec
<1>9. PICK r : r = [[[o EXCEPT !.pc = "commit"] EXCEPT !.queued = @ \cup {p}] EXCEPT !.mine = Put(@, x, v)]
  OBVIOUS
<1>10. Set(t, r) /\ ~Locked(t, x)
  <2>1. [o EXCEPT !.pc = "commit"].at = o.at BY <1>2 DEF Shape
  <2>2. Queue(Go(t, "commit"), tx[t].ev, o.id) = [[o EXCEPT !.pc = "commit"] EXCEPT !.queued = @ \cup {p}]
    BY <1>4, <2>1 DEF Queue, Go
  <2>. QED BY <1>6, <1>7, <1>9, <2>2 DEF ReleaseSend, Take
<1>11. /\ Shape(r) /\ r.pc = "commit" /\ r.mine = Put(o.mine, x, v) /\ r.id = o.id
       /\ r.op = o.op /\ r.ev = o.ev /\ r.events = o.events /\ r.queued = {p}
       /\ r.at = o.at /\ r.fresh = o.fresh /\ r.jobless = o.jobless
  BY <1>2, <1>3, <1>9 DEF Shape
<1>12. IsPut(r.mine, o.mine, x, v) BY <1>11 DEF IsPut, Put
<1>13. HoldsJob(r.mine) /\ x \in DOMAIN r.mine /\ r.mine[x].held = 0
  BY <1>3, <1>6, <1>8, <1>12, RowsDiffer DEF HoldsJob, IsPut
<1>14. Pcs(r)
  BY <1>2, <1>3, <1>11
  DEF Pcs, ClearPcs, RunPcs, EndPcs, QuietPcs, DeletePcs, ReleasePcs, Ends
<1>15. Qs(r) BY <1>3, <1>5, <1>6, <1>11, <1>13 DEF Qs
<1>16. Forgets(r) BY <1>13 DEF Forgets, HoldsJob
<1>17. MayPut(o.mine, x, v) BY <1>3, <1>6, <1>8, RowsDiffer, GoodRows DEF MayPut
<1>18. x \in Rows /\ \A a : x # RunRow(a) /\ x # DelRow(a) BY <1>3, <1>6, RowsThere, RowsDiffer
<1>. QED BY <1>1, <1>8, <1>10, <1>11, <1>14, <1>15, <1>16, <1>17, <1>18, TakeStep

LEMMA ReleaseDropStep ==
    ASSUME TxInv, NEW t \in Sessions, NEW o, o = tx[t], ReleaseDrop(t)
    PROVE  TxInv'
<1>1. /\ UNCHANGED <<db, events, queued, eventId>> /\ begun' \in Nat /\ crossed' \in BOOLEAN
      /\ o.pc = "drop one"
  BY Before DEF ReleaseDrop, Rest, At
<1>2. Shape(o) /\ Pcs(o) /\ Forgets(o)
  BY Before
<1>3. /\ o.op = "release" /\ o.id \in Channels /\ o.ev # 0
      /\ DOMAIN o.mine \subseteq {JobRow} /\ o.events = {} /\ o.queued = {}
  BY <1>1, <1>2 DEF Pcs, ReleasePcs
<1>4. JobRow \in DOMAIN o.mine => o.mine[JobRow].there
  BY <1>1, <1>2 DEF Forgets
<1>5. CASE ~StillHeld(t)
  <2>1. PICK r : r = [o EXCEPT !.pc = "commit"] OBVIOUS
  <2>2. Set(t, r) BY <1>5, <2>1 DEF ReleaseDrop, Go
  <2>3. /\ Shape(r) /\ r.pc = "commit" /\ r.mine = o.mine /\ r.id = o.id
        /\ r.op = o.op /\ r.ev = o.ev /\ r.events = o.events /\ r.queued = o.queued
        /\ r.at = o.at /\ r.fresh = o.fresh /\ r.jobless = o.jobless
    BY <1>2, <2>1 DEF Shape
  <2>4. Pcs(r)
    BY <1>2, <1>3, <2>3
    DEF Pcs, ClearPcs, RunPcs, EndPcs, QuietPcs, DeletePcs, ReleasePcs, Ends
  <2>5. Forgets(r) BY <1>4, <2>3 DEF Forgets
  <2>6. Qs(r) BY <1>3, <2>3 DEF Qs
  <2>. QED BY <1>1, <2>2, <2>3, <2>4, <2>5, <2>6, GoStep
<1>6. CASE StillHeld(t)
  <2>1. PICK x : x = AlertRow(o.id) OBVIOUS
  <2>2. PICK w : w = db[x] OBVIOUS
  <2>3. View(t, x) = w BY <1>3, <2>1, <2>2, RowsDiffer DEF View
  <2>4. w \in AlertRec BY <1>3, <2>1, <2>3, ViewRec
  <2>5. PICK v : v = [w EXCEPT !.held = 0] OBVIOUS
  <2>6. v \in AlertRec /\ v.held = 0 /\ v.there = w.there BY <2>4, <2>5 DEF AlertRec
  <2>7. PICK r : r = [[o EXCEPT !.pc = "commit"] EXCEPT !.mine = Put(@, x, v)] OBVIOUS
  <2>8. Set(t, r) /\ ~Locked(t, x)
    BY <1>6, <2>1, <2>3, <2>5, <2>7 DEF ReleaseDrop, Go, Take
  <2>9. /\ Shape(r) /\ r.pc = "commit" /\ r.mine = Put(o.mine, x, v) /\ r.id = o.id
        /\ r.op = o.op /\ r.ev = o.ev /\ r.events = o.events /\ r.queued = o.queued
        /\ r.at = o.at /\ r.fresh = o.fresh /\ r.jobless = o.jobless
    BY <1>2, <2>7 DEF Shape
  <2>10. IsPut(r.mine, o.mine, x, v) BY <2>9 DEF IsPut, Put
  <2>11. Pcs(r)
    BY <1>2, <1>3, <2>9
    DEF Pcs, ClearPcs, RunPcs, EndPcs, QuietPcs, DeletePcs, ReleasePcs, Ends
  <2>12. Qs(r) BY <1>3, <2>9 DEF Qs
  <2>13. Forgets(r) BY <1>4, <2>1, <2>10, RowsDiffer DEF Forgets, IsPut
  <2>14. MayPut(o.mine, x, v)
    BY <1>3, <2>1, <2>2, <2>6, RowsDiffer, GoodRows DEF MayPut
  <2>15. x \in Rows /\ \A a : x # RunRow(a) /\ x # DelRow(a) BY <1>3, <2>1, RowsThere, RowsDiffer
  <2>. QED BY <1>1, <2>6, <2>8, <2>9, <2>11, <2>12, <2>13, <2>14, <2>15, TakeStep
<1>. QED BY <1>5, <1>6

LEMMA ClaimDueStep ==
    ASSUME TxInv, NEW t \in Sessions, NEW o, o = tx[t], ClaimDue(t)
    PROVE  TxInv'
<1>1. /\ UNCHANGED <<db, events, queued, eventId>> /\ begun' \in Nat /\ crossed' \in BOOLEAN
      /\ o.pc = "due" /\ eventId \in Nat
  BY Before DEF ClaimDue, Rest, At
<1>2. Shape(o) /\ Pcs(o) /\ Drawn(o, eventId)
  BY Before
<1>3. DOMAIN o.mine = {} /\ o.events = {} /\ o.queued = {}
  BY <1>1, <1>2 DEF Pcs, ClearPcs
<1>4. PICK due : due = {d \in Dels :
                     LET r == db[DelRow(d)]
                     IN /\ r.state = "pending" /\ r.due /\ ~Locked(t, DelRow(d))
                        /\ \A q \in Dels : (q < d /\ db[DelRow(q)].state = "pending") => db[DelRow(q)].tried}
  OBVIOUS
<1>5. \A d \in due : d \in Dels /\ db[DelRow(d)].state = "pending" /\ ~Locked(t, DelRow(d))
  BY <1>4
<1>6. PICK v : v = [state |-> "pending", due |-> FALSE, tried |-> TRUE] OBVIOUS
<1>7. v \in DelRec BY <1>6 DEF DelRec
<1>8. PICK k : k = [x \in {DelRow(d) : d \in due} |-> v] OBVIOUS
<1>9. PICK r : r = [[o EXCEPT !.pc = "commit"] EXCEPT !.mine = k] OBVIOUS
<1>10. Set(t, r) BY <1>4, <1>6, <1>8, <1>9 DEF ClaimDue, Go
<1>11. /\ Shape(r) /\ r.pc = "commit" /\ r.mine = k /\ r.id = o.id
       /\ r.op = o.op /\ r.ev = o.ev /\ r.events = o.events /\ r.queued = o.queued
       /\ r.at = o.at /\ r.fresh = o.fresh /\ r.jobless = o.jobless
  BY <1>2, <1>9 DEF Shape
<1>12. \A x \in DOMAIN k : k[x] = v /\ \E d \in due : x = DelRow(d) BY <1>8
<1>13. Pcs(r)
  BY <1>1, <1>2, <1>3, <1>11
  DEF Pcs, ClearPcs, RunPcs, EndPcs, QuietPcs, DeletePcs, ReleasePcs, Ends
<1>14. /\ \A a : AlertRow(a) \notin DOMAIN k /\ RunRow(a) \notin DOMAIN k
       /\ JobRow \notin DOMAIN k
  BY <1>12, RowsDiffer
<1>15. Mine(k)
  <2>1. \A x \in DOMAIN k : x \in Rows /\ Good(x, k[x]) BY <1>5, <1>7, <1>12, RowsThere, GoodRows
  <2>2. \A d \in Dels : DelRow(d) \in DOMAIN k => db[DelRow(d)].state = "pending"
    BY <1>5, <1>12, RowsDiffer
  <2>. QED BY <1>14, <2>1, <2>2 DEF Mine
<1>16. Evs(r) /\ Qs(r) BY <1>3, <1>11 DEF Evs, Qs
<1>17. Forgets(r) BY <1>11, <1>14 DEF Forgets
<1>18. eventId' \in Nat /\ eventId' >= eventId /\ Drawn(r, eventId')
  BY <1>1, <1>2, <1>3, <1>11, <1>14 DEF Drawn
<1>19. Moves(t, r)
  <2>1. \A x \in DOMAIN r.mine : ~Locked(t, x) BY <1>5, <1>11, <1>12
  <2>. QED BY <1>3, <1>11, <1>14, <2>1 DEF Moves
<1>20. Local(r) BY <1>11, <1>13, <1>15, <1>16, <1>17 DEF Local
<1>. QED BY <1>1, <1>10, <1>18, <1>19, <1>20, Move

LEMMA FailDeliveryAndEmitStep ==
    ASSUME TxInv, NEW t \in Sessions, NEW o, o = tx[t], FailDeliveryAndEmit(t)
    PROVE  TxInv'
<1>1. /\ UNCHANGED <<db, events, queued>> /\ begun' \in Nat /\ crossed' \in BOOLEAN
      /\ o.pc = "give up"
  BY Before DEF FailDeliveryAndEmit, At
<1>2. Shape(o) /\ Pcs(o) /\ Mine(o.mine)
  BY Before
<1>3. /\ o.id \in Dels /\ o.op = "give up" /\ o.id \in Nat
      /\ DOMAIN o.mine = {} /\ o.events = {} /\ o.queued = {}
  BY <1>1, <1>2 DEF Pcs, ClearPcs
<1>4. PICK x : x = DelRow(o.id) OBVIOUS
<1>5. PICK w : w = db[x] OBVIOUS
<1>6. View(t, x) = w BY <1>3, <1>5 DEF View
<1>7. w \in DelRec BY <1>3, <1>4, <1>6, ViewRec
<1>8. CASE w.state # "pending"
  <2>1. Set(t, NoTx) /\ eventId' = eventId BY <1>4, <1>6, <1>8 DEF FailDeliveryAndEmit
  <2>. QED BY <1>1, <2>1, Reset
<1>9. CASE w.state = "pending"
  <2>1. PICK e : e = [id |-> eventId, type |-> "notification.failed", of |-> o.id] OBVIOUS
  <2>2. e \in Event /\ e.id = eventId /\ e.type = "notification.failed" /\ e.of = o.id
    BY <1>3, <2>1, NewId DEF Event
  <2>3. PICK v : v = [w EXCEPT !.state = "failed"] OBVIOUS
  <2>4. v \in DelRec /\ v.state = "failed" BY <1>7, <2>3 DEF DelRec
  <2>5. PICK r : r = [[[o EXCEPT !.pc = "commit"] EXCEPT !.events = @ \cup {e}, !.ev = eventId]
                        EXCEPT !.mine = Put(@, x, v)] OBVIOUS
  <2>6. Set(t, r) /\ ~Locked(t, x) /\ eventId' = eventId + 1
    BY <1>4, <1>6, <1>9, <2>1, <2>3, <2>5 DEF FailDeliveryAndEmit, Take, Go, Emit
  <2>7. /\ Shape(r) /\ r.pc = "commit" /\ r.mine = Put(o.mine, x, v) /\ r.id = o.id
        /\ r.op = o.op /\ r.ev = eventId /\ r.events = o.events \cup {e} /\ r.queued = o.queued
        /\ r.at = o.at /\ r.fresh = o.fresh /\ r.jobless = o.jobless
    BY <1>2, <2>5 DEF Shape
  <2>8. IsPut(r.mine, o.mine, x, v) BY <2>7 DEF IsPut, Put
  <2>9. Pcs(r)
    BY <1>2, <1>3, <2>2, <2>7
    DEF Pcs, ClearPcs, RunPcs, EndPcs, QuietPcs, DeletePcs, ReleasePcs, Ends
  <2>10. Qs(r) BY <1>3, <2>7 DEF Qs
  <2>11. Forgets(r) BY <1>3, <1>4, <2>8, RowsDiffer DEF Forgets, IsPut
  <2>12. x \in Rows /\ MayPut(o.mine, x, v) BY <1>3, <1>4, <2>4, RowsThere, RowsDiffer, GoodRows DEF MayPut
  <2>13. Mine(r.mine) BY <1>2, <2>8, <2>12, PutMine
  <2>14. Evs(r)
    <3>1. r.events = {e} /\ ~Ran(e) BY <1>3, <2>2, <2>7 DEF Ran
    <3>2. DelRow(r.id) \in DOMAIN r.mine /\ r.mine[DelRow(r.id)].state = "failed" /\ db[DelRow(r.id)].state = "pending"
      BY <1>4, <1>5, <1>9, <2>4, <2>7, <2>8 DEF IsPut
    <3>3. \A f \in r.events : /\ \A c \in Channels : db[AlertRow(c)].held # f.id
                              /\ \A q \in queued : q.ev # f.id
      BY <2>2, <3>1, NewId
    <3>4. e.of = r.id /\ r.id \in Dels BY <1>3, <2>2, <2>7
    <3>. QED BY <3>1, <3>2, <3>3, <3>4 DEF Evs
  <2>15. r.op # "release" BY <1>3, <2>7
  <2>16. /\ \A y \in DOMAIN r.mine : y \in DOMAIN o.mine \/ ~Locked(t, y)
         /\ \A c \in Channels : AlertRow(c) \in DOMAIN r.mine =>
              AlertRow(c) \in DOMAIN o.mine /\ r.mine[AlertRow(c)] = o.mine[AlertRow(c)]
    BY <1>3, <1>4, <2>6, <2>8, RowsDiffer DEF IsPut
  <2>17. /\ Shape(r) /\ Set(t, r) /\ eventId' = eventId + 1
         /\ r.events = o.events \cup {e} /\ r.ev = eventId
    BY <2>6, <2>7
  <2>18. e \in Event /\ e.id = eventId BY <2>2
  <2>. QED BY <1>1, <2>9, <2>10, <2>11, <2>13, <2>14, <2>15, <2>16, <2>17, <2>18, EmitStep
<1>. QED BY <1>8, <1>9

\* A transaction begins: it holds nothing yet.
LEMMA BeginStep ==
    ASSUME TxInv, NEW t \in Sessions, NEW r, Shape(r), Set(t, r),
           UNCHANGED <<db, events, queued, eventId, crossed>>, begun' = begun + 1,
           DOMAIN r.mine = {}, r.events = {}, r.queued = {}, Pcs(r), r.ev \in 0 .. eventId - 1,
           r.op = "release" => \E c \in Channels : r.ev = db[AlertRow(c)].held
    PROVE  TxInv'
<1>1. begun \in Nat /\ eventId \in Nat /\ crossed \in BOOLEAN BY DEF TxInv
<1>2. Local(r) BY DEF Local, Mine, Evs, Qs, Forgets
<1>3. eventId' \in Nat /\ eventId' >= eventId /\ Drawn(r, eventId') BY <1>1 DEF Drawn
<1>4. Moves(t, r) BY DEF Moves
<1>5. begun' \in Nat /\ crossed' \in BOOLEAN BY <1>1
<1>. QED BY <1>2, <1>3, <1>4, <1>5, Move

LEMMA StartStep ==
    ASSUME TxInv, NEW t \in Sessions, Start(t)
    PROVE  TxInv'
<1>1. UNCHANGED <<db, events, queued, eventId, crossed>> BY DEF Start, Rest
<1>2. begun \in Nat /\ eventId \in Nat /\ eventId >= 2 /\ Committed(eventId) BY DEF TxInv
<1>3. ASSUME NEW op, NEW i \in Nat, NEW status, NEW pc, Begin(t, op, i, status, pc),
             \/ op = "claim" /\ pc = "pick"
             \/ op \in {"finish", "reap"} /\ pc = "run" /\ i \in Runs /\ status \in {"failed", "succeeded"}
             \/ op = "delete job" /\ pc = "lookup"
             \/ op = "delete channel" /\ pc = "states" /\ i \in Channels
             \/ op = "deliver" /\ pc = "due"
             \/ op = "give up" /\ pc = "give up" /\ i \in Dels
      PROVE  TxInv'
  <2>1. PICK r : r = [NoTx EXCEPT !.op = op, !.id = i, !.status = status, !.at = begun + 1, !.pc = pc] OBVIOUS
  <2>2. Set(t, r) /\ begun' = begun + 1 BY <1>3, <2>1 DEF Begin
  <2>3. /\ Shape(r) /\ r.op = op /\ r.pc = pc /\ r.id = i /\ r.status = status /\ r.at = begun + 1 /\ r.ev = 0
        /\ r.fresh \in BOOLEAN /\ r.jobless \in BOOLEAN /\ ~r.jobless
        /\ DOMAIN r.mine = {} /\ r.events = {} /\ r.queued = {}
    BY <2>1 DEF NoTx, NoRows, Shape
  <2>4. \/ r.op = "claim" /\ r.pc = "pick"
        \/ r.op \in {"finish", "reap"} /\ r.pc = "run" /\ r.id \in Runs /\ r.status \in {"failed", "succeeded"}
        \/ r.op = "delete job" /\ r.pc = "lookup"
        \/ r.op = "delete channel" /\ r.pc = "states" /\ r.id \in Channels
        \/ r.op = "deliver" /\ r.pc = "due"
        \/ r.op = "give up" /\ r.pc = "give up" /\ r.id \in Dels
    BY <1>3, <2>3
  <2>5. r.id \in Nat /\ r.at \in Nat /\ r.ev = 0
    <3>1. r.id = i /\ r.at = begun + 1 /\ r.ev = 0 BY <2>3
    <3>2. i \in Nat OBVIOUS
    <3>3. begun + 1 \in Nat BY <1>2
    <3>. QED BY <3>1, <3>2, <3>3
  <2>6. Pcs(r)
    BY <2>3, <2>4, <2>5
    DEF Pcs, ClearPcs, RunPcs, EndPcs, QuietPcs, DeletePcs, ReleasePcs, Ends
  <2>7. r.ev \in 0 .. eventId - 1 BY <1>2, <2>5
  <2>8. r.op # "release" BY <2>4
  <2>. QED BY <1>1, <2>2, <2>3, <2>6, <2>7, <2>8, BeginStep
<1>4. ASSUME NEW c \in Channels, begun' = begun + 1, db[AlertRow(c)].there, db[AlertRow(c)].held # 0,
             Set(t, [NoTx EXCEPT !.op = "release", !.id = c, !.ev = db[AlertRow(c)].held,
                                 !.at = begun + 1, !.pc = "peek"])
      PROVE  TxInv'
  <2>1. PICK h : h = db[AlertRow(c)].held OBVIOUS
  <2>2. PICK r : r = [NoTx EXCEPT !.op = "release", !.id = c, !.ev = h, !.at = begun + 1, !.pc = "peek"] OBVIOUS
  <2>3. Set(t, r) BY <1>4, <2>1, <2>2
  <2>4. /\ Shape(r) /\ r.op = "release" /\ r.pc = "peek" /\ r.id = c /\ r.at = begun + 1 /\ r.ev = h
        /\ r.fresh \in BOOLEAN /\ r.jobless \in BOOLEAN /\ ~r.jobless
        /\ DOMAIN r.mine = {} /\ r.events = {} /\ r.queued = {}
    BY <2>2 DEF NoTx, NoRows, Shape
  <2>5. h # 0 /\ h \in 0 .. eventId - 1 /\ c \in Nat BY <1>2, <1>4, <2>1, PgAssumption DEF Committed
  <2>6. Pcs(r)
    BY <1>2, <2>4, <2>5
    DEF Pcs, ClearPcs, RunPcs, EndPcs, QuietPcs, DeletePcs, ReleasePcs, Ends
  <2>7. r.ev \in 0 .. eventId - 1 BY <2>4, <2>5
  <2>8. \E d \in Channels : r.ev = db[AlertRow(d)].held BY <2>1, <2>4
  <2>. QED BY <1>1, <1>4, <2>3, <2>4, <2>6, <2>7, <2>8, BeginStep
<1>5. CASE Begin(t, "claim", 0, "none", "pick") BY <1>3, <1>5
<1>6. CASE \E r \in Runs, st \in {"failed", "succeeded"} :
            db[RunRow(r)].status = "running" /\ Begin(t, "finish", r, st, "run")
  <2>1. PICK r \in Runs, st \in {"failed", "succeeded"} : Begin(t, "finish", r, st, "run") BY <1>6
  <2>2. r \in Nat /\ "finish" \in {"finish", "reap"} BY PgAssumption
  <2>. QED BY <1>3, <2>1, <2>2
<1>7. CASE \E r \in Runs : db[RunRow(r)].status = "running" /\ Begin(t, "reap", r, "failed", "run")
  <2>1. PICK r \in Runs : Begin(t, "reap", r, "failed", "run") BY <1>7
  <2>2. r \in Nat /\ "reap" \in {"finish", "reap"} /\ "failed" \in {"failed", "succeeded"} BY PgAssumption
  <2>. QED BY <1>3, <2>1, <2>2
<1>8. CASE Begin(t, "delete job", 0, "none", "lookup") BY <1>3, <1>8
<1>9. CASE \E c \in Channels : Begin(t, "delete channel", c, "none", "states")
  <2>1. PICK c \in Channels : Begin(t, "delete channel", c, "none", "states") BY <1>9
  <2>2. c \in Nat BY PgAssumption
  <2>. QED BY <1>3, <2>1, <2>2
<1>10. CASE Begin(t, "deliver", 0, "none", "due") BY <1>3, <1>10
<1>11. CASE \E d \in Dels : db[DelRow(d)].tried /\ Begin(t, "give up", d, "none", "give up")
  <2>1. PICK d \in Dels : Begin(t, "give up", d, "none", "give up") BY <1>11
  <2>2. d \in Nat BY PgAssumption
  <2>. QED BY <1>3, <2>1, <2>2
<1>12. CASE \E c \in Channels :
            /\ tx[t] = NoTx /\ begun < MaxTx /\ begun' = begun + 1
            /\ db[AlertRow(c)].there /\ db[AlertRow(c)].held # 0
            /\ Set(t, [NoTx EXCEPT !.op = "release", !.id = c, !.ev = db[AlertRow(c)].held,
                                   !.at = begun + 1, !.pc = "peek"])
  BY <1>4, <1>12
<1>. QED BY <1>5, <1>6, <1>7, <1>8, <1>9, <1>10, <1>11, <1>12 DEF Start

LEMMA FailUnreadableJobStep ==
    ASSUME TxInv, NEW t \in Sessions, NEW i \in Runs, FailUnreadableJob(t, i)
    PROVE  TxInv'
<1>1. /\ UNCHANGED <<db, events, queued, eventId, crossed>> /\ begun' = begun + 1
      /\ db[RunRow(i)].status = "none" /\ ~Locked(t, RunRow(i))
  BY DEF FailUnreadableJob, Rest
<1>2. begun \in Nat /\ eventId \in Nat /\ eventId >= 2 /\ Committed(eventId) /\ crossed \in BOOLEAN
  BY DEF TxInv
<1>3. PICK x : x = RunRow(i) OBVIOUS
<1>4. PICK v : v = [status |-> "failed", ended |-> begun + 1, claims |-> 0, there |-> TRUE] OBVIOUS
<1>5. v \in RunRec /\ v.status = "failed"
  <2>1. begun + 1 \in Nat BY <1>2
  <2>. QED BY <1>4, <2>1 DEF RunRec
<1>6. PICK k : k = Put(NoRows, x, v) OBVIOUS
<1>7. DOMAIN k = {x} /\ k[x] = v BY <1>6 DEF Put, NoRows
<1>8. PICK r : r = [NoTx EXCEPT !.op = "unreadable", !.id = i, !.status = "failed", !.at = begun + 1,
                                !.pc = "prev", !.mine = k] OBVIOUS
<1>9. Set(t, r) BY <1>3, <1>4, <1>6, <1>8 DEF FailUnreadableJob
<1>10. /\ Shape(r) /\ r.op = "unreadable" /\ r.pc = "prev" /\ r.id = i /\ r.at = begun + 1 /\ r.ev = 0
       /\ r.fresh \in BOOLEAN /\ r.jobless \in BOOLEAN /\ ~r.jobless
       /\ r.mine = k /\ r.events = {} /\ r.queued = {}
  BY <1>8 DEF NoTx, Shape
<1>11. ~Over(db[x]) BY <1>1, <1>3 DEF Over
<1>12. Pcs(r)
  <2>1. /\ RunRow(i) \in DOMAIN r.mine /\ Over(r.mine[RunRow(i)])
        /\ JobRow \notin DOMAIN r.mine /\ \A c \in Channels : AlertRow(c) \notin DOMAIN r.mine
    BY <1>3, <1>5, <1>7, <1>10, RowsDiffer DEF Over
  <2>2. i \in Nat BY PgAssumption
  <2>. QED BY <1>2, <1>3, <1>10, <1>11, <2>1, <2>2
       DEF Pcs, ClearPcs, RunPcs, EndPcs, QuietPcs, DeletePcs, ReleasePcs, Ends
<1>13. Mine(k)
  <2>1. x \in Rows /\ Good(x, v) BY <1>3, <1>5, RowsThere, GoodRows
  <2>2. \A a : AlertRow(a) \notin DOMAIN k /\ DelRow(a) \notin DOMAIN k BY <1>3, <1>7, RowsDiffer
  <2>3. JobRow \notin DOMAIN k BY <1>3, <1>7, RowsDiffer
  <2>. QED BY <1>7, <1>11, <2>1, <2>2, <2>3 DEF Mine
<1>14. Evs(r) /\ Qs(r) BY <1>10 DEF Evs, Qs
<1>15. Forgets(r) BY <1>3, <1>7, <1>10, RowsDiffer DEF Forgets
<1>16. Local(r) BY <1>10, <1>12, <1>13, <1>14, <1>15 DEF Local
<1>17. \A c \in Channels : AlertRow(c) \notin DOMAIN r.mine BY <1>3, <1>7, <1>10, RowsDiffer
<1>18. eventId' \in Nat /\ eventId' >= eventId /\ Drawn(r, eventId')
  BY <1>1, <1>2, <1>10, <1>17 DEF Drawn
<1>19. Moves(t, r)
  <2>1. \A y \in DOMAIN r.mine : ~Locked(t, y) BY <1>1, <1>3, <1>7, <1>10
  <2>. QED BY <1>10, <1>17, <2>1 DEF Moves
<1>20. begun' \in Nat /\ crossed' \in BOOLEAN BY <1>1, <1>2
<1>. QED BY <1>1, <1>9, <1>16, <1>18, <1>19, <1>20, Move

-----------------------------------------------------------------------------
(* Commits.                                                                *)

\* What another transaction commits leaves a transaction o as it was, when it wrote
\* none of o's rows, used none of o's events, and brought no alert state back.
LEMMA Elsewhere ==
    ASSUME NEW o, Local(o),
           \A x \in DOMAIN o.mine : db'[x] = db[x],
           ~db[JobRow].there => ~db'[JobRow].there,
           \A e \in o.events : /\ \A c \in Channels : db'[AlertRow(c)].held # e.id
                               /\ \A q \in queued' : q.ev # e.id,
           \A p \in o.queued : ~Spent(p.ev, p.ch)',
           \A c \in Channels : AlertRow(c) \in DOMAIN o.mine /\ o.mine[AlertRow(c)].held # 0 =>
                ~Spent(o.mine[AlertRow(c)].held, c)',
           o.pc = "send" => ~Spent(o.ev, o.id)',
           JobRow \in DOMAIN o.mine =>
                \A c \in Channels : db'[AlertRow(c)].there => db[AlertRow(c)].there
    PROVE  Local(o)'
<1>1. Mine(o.mine)'
  BY DEF Local, Mine, HoldsJob
<1>2. Evs(o)'
  BY DEF Local, Evs
<1>3. Qs(o)'
  BY DEF Local, Qs, HoldsJob
<1>4. Pcs(o)'
  BY DEF Local, Pcs, HoldsJob, RunPcs
<1>5. Forgets(o)'
  BY DEF Local, Forgets
<1>. QED BY <1>1, <1>2, <1>3, <1>4, <1>5 DEF Local

LEMMA RollbackStep ==
    ASSUME TxInv, NEW t \in Sessions, Rollback(t)
    PROVE  TxInv'
<1>1. /\ UNCHANGED <<db, events, queued, eventId>> /\ begun' \in Nat /\ crossed' \in BOOLEAN
      /\ Set(t, NoTx)
  BY DEF Rollback, Rest, TxInv
<1>. QED BY <1>1, Reset

LEMMA EnqueueRunStep ==
    ASSUME TxInv, NEW i \in Runs, EnqueueRun(i)
    PROVE  TxInv'
<1>1. /\ UNCHANGED <<tx, events, eventId, queued, crossed>> /\ begun' = begun + 1
      /\ db[RunRow(i)].status = "none" /\ \A t \in Sessions : RunRow(i) \notin DOMAIN tx[t].mine
  BY DEF EnqueueRun
<1>2. PICK v : v = [status |-> "pending", ended |-> 0, claims |-> 0, there |-> TRUE] OBVIOUS
<1>3. v \in RunRec /\ v.claims = 0 BY <1>2 DEF RunRec
<1>4. Committed(eventId) /\ begun \in Nat /\ eventId \in Nat BY DEF TxInv
<1>5. /\ db' = [x \in Rows |-> db'[x]] /\ db'[RunRow(i)] = v
      /\ \A x \in Rows : x # RunRow(i) => db'[x] = db[x]
  BY <1>2, <1>4, RowsThere DEF EnqueueRun, Committed
<1>6. ~Over(db[RunRow(i)]) BY <1>1 DEF Over
<1>7. /\ db'[JobRow] = db[JobRow] /\ \A c \in Channels : db'[AlertRow(c)] = db[AlertRow(c)]
      /\ \A d \in Dels : db'[DelRow(d)] = db[DelRow(d)]
  BY <1>5, RowsThere, RowsDiffer
<1>8. Committed(eventId)'
  <2>1. (\A x \in Rows : Good(x, db[x]))'
    <3>1. Good(RunRow(i), v) BY <1>3, GoodRows
    <3>2. \A x \in Rows : Good(x, db[x]) BY <1>4 DEF Committed
    <3>3. ASSUME NEW x \in Rows PROVE Good(x, db'[x])
      <4>1. CASE x = RunRow(i) BY <1>5, <3>1, <4>1
      <4>2. CASE x # RunRow(i) BY <1>5, <3>2, <4>2
      <4>. QED BY <4>1, <4>2
    <3>. QED BY <3>3
  <2>2. \A e \in events : Ran(e) /\ e.of # 0 => e.of \in Runs /\ Over(db'[RunRow(e.of)])
    <3>1. \A e \in events : Ran(e) /\ e.of # 0 => e.of \in Runs /\ Over(db[RunRow(e.of)])
      BY <1>4 DEF Committed
    <3>. QED BY <1>5, <1>6, <3>1, RowsThere
  <2>. QED BY <1>1, <1>4, <1>5, <1>7, <2>1, <2>2 DEF Committed, Spent
<1>9. ASSUME NEW u \in Sessions PROVE Local(tx[u])' /\ Drawn(tx'[u], eventId')
  <2>1. PICK o : o = tx'[u] OBVIOUS
  <2>2. Local(o) /\ Drawn(o, eventId) /\ o = tx[u] BY <1>1, <2>1 DEF TxInv
  <2>3. \A x \in DOMAIN o.mine : db'[x] = db[x] BY <1>1, <1>5, <2>2 DEF Local, Mine
  <2>4. \A e \in o.events : /\ \A c \in Channels : db'[AlertRow(c)].held # e.id
                            /\ \A q \in queued' : q.ev # e.id
    BY <1>1, <1>7, <2>2 DEF Local, Evs
  <2>5. /\ \A p \in o.queued : ~Spent(p.ev, p.ch)'
        /\ \A c \in Channels : AlertRow(c) \in DOMAIN o.mine /\ o.mine[AlertRow(c)].held # 0 =>
             ~Spent(o.mine[AlertRow(c)].held, c)'
        /\ o.pc = "send" => ~Spent(o.ev, o.id)'
    BY <1>1, <2>2 DEF Local, Qs, Mine, Pcs, Spent
  <2>6. Local(o)' BY <1>7, <2>2, <2>3, <2>4, <2>5, Elsewhere
  <2>. QED BY <1>1, <2>1, <2>2, <2>6
<1>10. (\A u \in Sessions : Local(tx[u]) /\ Drawn(tx[u], eventId))' BY <1>9
<1>11. begun' \in Nat /\ eventId' \in Nat /\ eventId' >= 2 /\ crossed' \in BOOLEAN BY <1>1, <1>4 DEF TxInv
<1>12. (\A u, w \in Sessions : u # w => Apart(tx[u], tx[w]))' BY <1>1 DEF TxInv
<1>13. tx' = [u \in Sessions |-> tx'[u]] BY <1>1 DEF TxInv
<1>. QED BY <1>8, <1>10, <1>11, <1>12, <1>13 DEF TxInv

LEMMA CommitStep ==
    ASSUME TxInv, NEW t \in Sessions, NEW o, o = tx[t], Commit(t)
    PROVE  TxInv'
<1>1. /\ UNCHANGED <<eventId, begun, crossed>> /\ o.pc = "commit" /\ Set(t, NoTx)
      /\ events' = events \cup o.events /\ queued' = queued \cup o.queued
  BY DEF Commit, At
<1>2. /\ Mine(o.mine) /\ Evs(o) /\ Qs(o) /\ Pcs(o) /\ Forgets(o) /\ Drawn(o, eventId) /\ Committed(eventId)
      /\ eventId \in Nat /\ eventId >= 2
  BY Before
<1>3. /\ db' = [x \in Rows |-> db'[x]]
      /\ \A x \in Rows : x \in DOMAIN o.mine => db'[x] = o.mine[x]
      /\ \A x \in Rows : x \notin DOMAIN o.mine => db'[x] = db[x]
  <2>1. DOMAIN db = Rows BY <1>2 DEF Committed
  <2>. QED BY <2>1 DEF Commit, View
<1>4. /\ tx' = [u \in Sessions |-> tx'[u]]
      /\ tx'[t] = NoTx /\ \A u \in Sessions \ {t} : tx'[u] = tx[u]
  BY <1>1 DEF TxInv, Set
<1>5. \A p \in o.queued : \/ \E e \in o.events : e.id = p.ev
                          \/ /\ o.op = "release" /\ p.ev = o.ev /\ p.ch = o.id /\ HoldsJob(o.mine)
                             /\ AlertRow(o.id) \in DOMAIN o.mine /\ o.mine[AlertRow(o.id)].held = 0
  BY <1>2 DEF Qs
<1>6. Committed(eventId)'
  <2>1. (\A x \in Rows : Good(x, db[x]))'
    <3>1. \A x \in Rows : Good(x, db[x]) BY <1>2 DEF Committed
    <3>2. \A x \in DOMAIN o.mine : Good(x, o.mine[x]) BY <1>2 DEF Mine
    <3>3. ASSUME NEW x \in Rows PROVE Good(x, db'[x])
      <4>1. CASE x \in DOMAIN o.mine BY <1>3, <3>2, <4>1
      <4>2. CASE x \notin DOMAIN o.mine BY <1>3, <3>1, <4>2
      <4>. QED BY <4>1, <4>2
    <3>. QED BY <3>3
  <2>2. ASSUME NEW c \in Channels, NEW h, h = db'[AlertRow(c)].held
        PROVE  /\ h \in 0 .. eventId - 1
               /\ h # 0 => \A q \in queued' : ~(q.ev = h /\ q.ch = c)
    <3>2. CASE AlertRow(c) \in DOMAIN o.mine
      <4>1. h = o.mine[AlertRow(c)].held BY <1>3, <2>2, <3>2, RowsThere
      <4>2. h \in 0 .. eventId - 1 BY <1>2, <3>2, <4>1 DEF Drawn
      <4>3. h # 0 => ~Spent(h, c) BY <1>2, <3>2, <4>1 DEF Mine
      <4>4. \A p \in o.queued : p.ch = c => p.ev # h BY <1>2, <3>2, <4>1 DEF Qs
      <4>. QED BY <1>1, <4>2, <4>3, <4>4 DEF Spent
    <3>3. CASE AlertRow(c) \notin DOMAIN o.mine
      <4>1. h = db[AlertRow(c)].held BY <1>3, <2>2, <3>3, RowsThere
      <4>2. h \in 0 .. eventId - 1 /\ (h # 0 => ~Spent(h, c)) BY <1>2, <4>1 DEF Committed
      <4>3. \A e \in o.events : h # e.id BY <1>2, <4>1 DEF Evs
      <4>4. \A p \in o.queued : p.ch = c => p.ev # h BY <1>5, <3>3, <4>3
      <4>. QED BY <1>1, <4>2, <4>4 DEF Spent
    <3>. QED BY <3>2, <3>3
  <2>3. events' \subseteq Event /\ \A e \in events' : e.id \in 1 .. eventId - 1
    BY <1>1, <1>2 DEF Committed, Drawn
  <2>4. queued' \subseteq Delivery /\ \A q \in queued' : q.ev \in 1 .. eventId - 1
    <3>1. ASSUME NEW p \in o.queued PROVE p \in Delivery /\ p.ev \in 1 .. eventId - 1
      <4>1. p \in Delivery /\ p.ev # 0 BY <1>2 DEF Qs, Delivery
      <4>2. p.ev \in 0 .. eventId - 1 BY <1>2, <1>5 DEF Drawn
      <4>. QED BY <1>2, <4>1, <4>2
    <3>2. queued \subseteq Delivery /\ \A q \in queued : q.ev \in 1 .. eventId - 1 BY <1>2 DEF Committed
    <3>. QED BY <1>1, <3>1, <3>2
  <2>5. \A e \in events' : Ran(e) /\ e.of # 0 => e.of \in Runs /\ Over(db'[RunRow(e.of)])
    <3>1. \A r \in Runs : Over(db[RunRow(r)]) => Over(db'[RunRow(r)])
      BY <1>2, <1>3, RowsThere DEF Mine
    <3>2. \A e \in events : Ran(e) /\ e.of # 0 => e.of \in Runs /\ Over(db'[RunRow(e.of)])
      BY <1>2, <3>1 DEF Committed
    <3>3. \A e \in o.events : Ran(e) => e.of \in Runs /\ Over(db'[RunRow(e.of)])
      BY <1>2, <1>3, RowsThere DEF Evs
    <3>. QED BY <1>1, <3>2, <3>3
  <2>6. \A e \in events' : GivenUp(e) => e.of \in Dels /\ db'[DelRow(e.of)].state = "failed"
    <3>1. \A d \in Dels : db[DelRow(d)].state = "failed" => db'[DelRow(d)].state = "failed"
      BY <1>2, <1>3, RowsThere DEF Mine
    <3>2. \A e \in events : GivenUp(e) => e.of \in Dels /\ db'[DelRow(e.of)].state = "failed"
      BY <1>2, <3>1 DEF Committed
    <3>3. \A e \in o.events : GivenUp(e) => e.of \in Dels /\ db'[DelRow(e.of)].state = "failed"
      BY <1>2, <1>3, RowsThere DEF Evs
    <3>. QED BY <1>1, <3>2, <3>3
  <2>7. ASSUME ~db'[JobRow].there, NEW c \in Channels PROVE ~db'[AlertRow(c)].there
    <3>1. CASE JobRow \in DOMAIN o.mine
      <4>1. ~o.mine[JobRow].there BY <1>3, <2>7, <3>1, RowsThere
      <4>2. /\ AlertRow(c) \in DOMAIN o.mine => ~o.mine[AlertRow(c)].there
            /\ db[AlertRow(c)].there => AlertRow(c) \in DOMAIN o.mine
        BY <1>1, <1>2, <3>1, <4>1 DEF Forgets
      <4>. QED BY <1>3, <4>2, RowsThere
    <3>2. CASE JobRow \notin DOMAIN o.mine
      <4>1. ~db[AlertRow(c)].there BY <1>2, <1>3, <2>7, <3>2, RowsThere DEF Committed
      <4>2. AlertRow(c) \in DOMAIN o.mine => ~o.mine[AlertRow(c)].there
        BY <1>2, <3>2, <4>1 DEF Mine, HoldsJob
      <4>. QED BY <1>3, <4>1, <4>2, RowsThere
    <3>. QED BY <3>1, <3>2
  <2>8. eventId' = eventId BY <1>1
  <2>9. (\A c \in Channels : /\ db[AlertRow(c)].held \in 0 .. eventId - 1
                             /\ db[AlertRow(c)].held # 0 => ~Spent(db[AlertRow(c)].held, c))'
    BY <2>2, <2>8 DEF Spent
  <2>. QED BY <1>3, <2>1, <2>3, <2>4, <2>5, <2>6, <2>7, <2>8, <2>9 DEF Committed
<1>7. ASSUME NEW u \in Sessions, u # t PROVE Local(tx[u])' /\ Drawn(tx'[u], eventId')
  <2>1. PICK p : p = tx'[u] OBVIOUS
  <2>2. /\ Local(p) /\ Drawn(p, eventId) /\ Apart(o, p) /\ Apart(p, o)
        /\ Mine(p.mine) /\ Evs(p) /\ Qs(p) /\ Pcs(p)
    BY <1>4, <1>7, <2>1 DEF TxInv, Local
  <2>3. DOMAIN o.mine \cap DOMAIN p.mine = {} /\ DOMAIN p.mine \subseteq Rows BY <2>2 DEF Apart, Mine
  <2>4. \A x \in DOMAIN p.mine : db'[x] = db[x] BY <1>3, <2>3
  <2>5. ~db[JobRow].there => ~db'[JobRow].there BY <1>2, <1>3, RowsThere DEF Mine
  <2>6. \A e \in p.events : \A q \in o.queued : q.ev # e.id
    BY <1>5, <2>2 DEF Apart
  <2>7. \A e \in p.events : /\ \A c \in Channels : db'[AlertRow(c)].held # e.id
                            /\ \A q \in queued' : q.ev # e.id
    <3>1. \A e \in p.events : \A c \in Channels : db'[AlertRow(c)].held # e.id
      BY <1>3, <2>2, RowsThere DEF Apart, Evs
    <3>2. \A e \in p.events : \A q \in queued : q.ev # e.id BY <2>2 DEF Evs
    <3>. QED BY <1>1, <2>6, <3>1, <3>2
  <2>8. ASSUME NEW s \in p.queued PROVE ~Spent(s.ev, s.ch)'
    <3>1. ~Spent(s.ev, s.ch) BY <2>2 DEF Qs
    <3>2. \/ \E e \in p.events : e.id = s.ev
          \/ p.op = "release" /\ s.ev = p.ev /\ s.ch = p.id /\ AlertRow(p.id) \in DOMAIN p.mine
      BY <2>2 DEF Qs
    <3>3. \A q \in o.queued : ~(q.ev = s.ev /\ q.ch = s.ch)
      BY <1>5, <2>2, <2>3, <2>6, <3>2 DEF Apart
    <3>. QED BY <1>1, <3>1, <3>3 DEF Spent
  <2>9. ASSUME NEW c \in Channels, AlertRow(c) \in DOMAIN p.mine, p.mine[AlertRow(c)].held # 0
        PROVE  ~Spent(p.mine[AlertRow(c)].held, c)'
    <3>1. PICK h : h = p.mine[AlertRow(c)].held OBVIOUS
    <3>2. ~Spent(h, c) BY <2>2, <2>9, <3>1 DEF Mine
    <3>3. \A q \in o.queued : ~(q.ev = h /\ q.ch = c)
      BY <1>5, <2>2, <2>3, <2>9, <3>1 DEF Apart
    <3>4. ~Spent(h, c)' BY <1>1, <3>2, <3>3 DEF Spent
    <3>. QED BY <3>1, <3>4
  <2>10. ASSUME p.pc = "send" PROVE ~Spent(p.ev, p.id)'
    <3>1. ~Spent(p.ev, p.id) /\ p.op = "release" /\ HoldsJob(p.mine)
      BY <2>2, <2>10 DEF Pcs, ReleasePcs
    <3>2. ~HoldsJob(o.mine) BY <2>3, <3>1 DEF HoldsJob
    <3>3. \A q \in o.queued : q.ev # p.ev BY <1>5, <2>2, <3>1, <3>2 DEF Apart
    <3>. QED BY <1>1, <3>1, <3>3 DEF Spent
  <2>11. ASSUME JobRow \in DOMAIN p.mine, NEW c \in Channels, db'[AlertRow(c)].there
         PROVE  db[AlertRow(c)].there
    <3>1. ~HoldsJob(o.mine) BY <2>3, <2>11 DEF HoldsJob
    <3>2. AlertRow(c) \in DOMAIN o.mine => (o.mine[AlertRow(c)].there => db[AlertRow(c)].there)
      BY <1>2, <3>1 DEF Mine
    <3>. QED BY <1>3, <2>11, <3>2, RowsThere
  <2>12. Local(p)' BY <2>2, <2>4, <2>5, <2>7, <2>8, <2>9, <2>10, <2>11, Elsewhere
  <2>. QED BY <1>1, <2>1, <2>2, <2>12
<1>8. Local(tx[t])' /\ Drawn(tx'[t], eventId')
  <2>1. PICK r : r = tx'[t] OBVIOUS
  <2>2. /\ r.op = "idle" /\ r.pc = "idle" /\ r.id = 0 /\ r.at = 0 /\ r.ev = 0
        /\ r.fresh \in BOOLEAN /\ r.jobless \in BOOLEAN /\ ~r.jobless
        /\ DOMAIN r.mine = {} /\ r.events = {} /\ r.queued = {} /\ Shape(r)
    BY <1>4, <2>1 DEF NoTx, NoRows, Shape
  <2>3. (Mine(r.mine) /\ Evs(r) /\ Qs(r) /\ Forgets(r))' BY <2>2 DEF Mine, Evs, Qs, Forgets
  <2>4. Pcs(r)'
    BY <2>2 DEF Pcs, ClearPcs, RunPcs, EndPcs, QuietPcs, DeletePcs, ReleasePcs, Ends
  <2>5. Local(r)' BY <2>2, <2>3, <2>4 DEF Local
  <2>6. Drawn(r, eventId') BY <1>1, <1>2, <2>2 DEF Drawn
  <2>. QED BY <2>1, <2>5, <2>6
<1>9. (\A u \in Sessions : Local(tx[u]) /\ Drawn(tx[u], eventId))' BY <1>7, <1>8
<1>10. ASSUME NEW u \in Sessions, NEW w \in Sessions, u # w PROVE Apart(tx'[u], tx'[w])
  <2>1. NoTx.events = {} /\ DOMAIN NoTx.mine = {} /\ NoTx.op # "release" BY DEF NoTx, NoRows
  <2>2. CASE u = t BY <1>4, <2>1, <2>2 DEF Apart
  <2>3. CASE w = t BY <1>4, <2>1, <2>3 DEF Apart
  <2>4. CASE u # t /\ w # t BY <1>4, <1>10, <2>4 DEF TxInv
  <2>. QED BY <2>2, <2>3, <2>4
<1>11. (\A u, w \in Sessions : u # w => Apart(tx[u], tx[w]))' BY <1>10
<1>12. begun' \in Nat /\ eventId' \in Nat /\ eventId' >= 2 /\ crossed' \in BOOLEAN BY <1>1 DEF TxInv
<1>. QED BY <1>4, <1>6, <1>9, <1>11, <1>12 DEF TxInv

-----------------------------------------------------------------------------
(* The invariant holds.                                                    *)

LEMMA InitStep ==
    ASSUME PgInit
    PROVE  TxInv
<1>1. PICK status \in [Runs -> {"none", "running"}], failed \in {0, 1}, held \in {0, 1} :
        /\ held <= failed
        /\ db = [x \in Rows |->
             CASE x[1] = "run" -> [status |-> status[x[2]], ended |-> 0, claims |-> 0,
                                   there |-> status[x[2]] # "none"]
               [] x[1] = "job" -> [there |-> TRUE, failed |-> failed]
               [] x[1] = "alert" -> [there |-> failed = 1, held |-> held]
               [] x[1] = "channel" -> [there |-> TRUE]
               [] x[1] = "del" -> [state |-> "pending", due |-> TRUE, tried |-> FALSE]]
        /\ events = IF failed = 1 THEN {[id |-> 1, type |-> "run.failed", of |-> 0]} ELSE {}
  BY DEF PgInit
<1>2. /\ tx = [t \in Sessions |-> NoTx] /\ eventId = 2 /\ queued = {} /\ begun = 0 /\ crossed = FALSE
  BY DEF PgInit
<1>3. /\ DOMAIN db = Rows /\ db = [x \in Rows |-> db[x]]
  <2> DEFINE F(x) ==
        CASE x[1] = "run" -> [status |-> status[x[2]], ended |-> 0, claims |-> 0,
                              there |-> status[x[2]] # "none"]
          [] x[1] = "job" -> [there |-> TRUE, failed |-> failed]
          [] x[1] = "alert" -> [there |-> failed = 1, held |-> held]
          [] x[1] = "channel" -> [there |-> TRUE]
          [] x[1] = "del" -> [state |-> "pending", due |-> TRUE, tried |-> FALSE]
  <2>1. db = [x \in Rows |-> F(x)] BY <1>1
  <2> HIDE DEF F
  <2>. QED BY <2>1
<1>4. ASSUME NEW r \in Runs
      PROVE  db[RunRow(r)] = [status |-> status[r], ended |-> 0, claims |-> 0, there |-> status[r] # "none"]
  BY <1>1, RowsThere DEF RunRow
<1>5. db[JobRow] = [there |-> TRUE, failed |-> failed]
  BY <1>1, RowsThere DEF JobRow
<1>6. ASSUME NEW c \in Channels
      PROVE  /\ db[AlertRow(c)] = [there |-> failed = 1, held |-> held]
             /\ db[ChannelRow(c)] = [there |-> TRUE]
  BY <1>1, RowsThere DEF AlertRow, ChannelRow
<1>7. ASSUME NEW d \in Dels
      PROVE  db[DelRow(d)] = [state |-> "pending", due |-> TRUE, tried |-> FALSE]
  BY <1>1, RowsThere DEF DelRow
<1>8. ASSUME NEW x \in Rows PROVE Good(x, db[x])
  <2>1. ASSUME NEW r \in Runs, x = RunRow(r) PROVE Good(x, db[x])
    <3>1. PICK v, b : b = (status[r] # "none") /\ v = db[RunRow(r)] OBVIOUS
    <3>2. v = [status |-> status[r], ended |-> 0, claims |-> 0, there |-> b] BY <1>4, <3>1
    <3>3. b \in BOOLEAN /\ status[r] \in {"none", "running"} BY <3>1
    <3>4. v \in RunRec /\ v.claims = 0 BY <3>2, <3>3 DEF RunRec
    <3>. QED BY <2>1, <3>1, <3>4, GoodRows
  <2>2. CASE x = JobRow
    <3>1. db[JobRow] \in JobRec BY <1>5 DEF JobRec
    <3>. QED BY <2>2, <3>1, GoodRows
  <2>3. ASSUME NEW c \in Channels, x = AlertRow(c) PROVE Good(x, db[x])
    <3>1. PICK v, b : b = (failed = 1) /\ v = db[AlertRow(c)] OBVIOUS
    <3>2. v = [there |-> b, held |-> held] BY <1>6, <3>1
    <3>3. b \in BOOLEAN BY <3>1
    <3>4. v \in AlertRec BY <3>2, <3>3 DEF AlertRec
    <3>. QED BY <2>3, <3>1, <3>4, GoodRows
  <2>4. ASSUME NEW c \in Channels, x = ChannelRow(c) PROVE Good(x, db[x])
    <3>1. PICK v : v = db[ChannelRow(c)] OBVIOUS
    <3>2. v = [there |-> TRUE] BY <1>6, <3>1
    <3>3. v \in ChannelRec BY <3>2 DEF ChannelRec
    <3>. QED BY <2>4, <3>1, <3>3, GoodRows
  <2>5. ASSUME NEW d \in Dels, x = DelRow(d) PROVE Good(x, db[x])
    <3>1. PICK v : v = db[DelRow(d)] OBVIOUS
    <3>2. v = [state |-> "pending", due |-> TRUE, tried |-> FALSE] BY <1>7, <3>1
    <3>3. v \in DelRec BY <3>2 DEF DelRec
    <3>. QED BY <2>5, <3>1, <3>3, GoodRows
  <2>. QED BY <2>1, <2>2, <2>3, <2>4, <2>5, RowsAre
<1>9. /\ events \subseteq Event
      /\ \A e \in events : e.id = 1 /\ e.of = 0 /\ e.type = "run.failed"
  BY <1>1 DEF Event
<1>10. /\ \A c \in Channels : db[AlertRow(c)].held \in {0, 1}
       /\ db[JobRow].there
  BY <1>5, <1>6
<1>11. Committed(2)
  BY <1>2, <1>3, <1>8, <1>9, <1>10 DEF Committed, Spent, Ran, GivenUp
<1>12. ASSUME NEW t \in Sessions PROVE Local(tx[t]) /\ Drawn(tx[t], eventId)
  <2>1. PICK r : r = tx[t] OBVIOUS
  <2>2. /\ r.op = "idle" /\ r.pc = "idle" /\ r.id = 0 /\ r.at = 0 /\ r.ev = 0
        /\ r.fresh \in BOOLEAN /\ r.jobless \in BOOLEAN /\ ~r.jobless
        /\ DOMAIN r.mine = {} /\ r.events = {} /\ r.queued = {} /\ Shape(r)
    BY <1>2, <2>1 DEF NoTx, NoRows, Shape
  <2>3. Mine(r.mine) /\ Evs(r) /\ Qs(r) /\ Forgets(r) BY <2>2 DEF Mine, Evs, Qs, Forgets
  <2>4. Pcs(r)
    BY <2>2 DEF Pcs, ClearPcs, RunPcs, EndPcs, QuietPcs, DeletePcs, ReleasePcs, Ends
  <2>5. Drawn(r, eventId) BY <1>2, <2>2 DEF Drawn
  <2>. QED BY <2>1, <2>2, <2>3, <2>4, <2>5 DEF Local
<1>13. \A t, u \in Sessions : t # u => Apart(tx[t], tx[u])
  BY <1>2 DEF Apart, NoTx, NoRows
<1>14. Committed(eventId) BY <1>2, <1>11
<1>15. tx = [t \in Sessions |-> tx[t]]
  <2>1. PICK n : n = NoTx OBVIOUS
  <2>2. tx = [t \in Sessions |-> n] BY <1>2, <2>1
  <2>. QED BY <2>2
<1>16. begun \in Nat /\ eventId \in Nat /\ eventId >= 2 BY <1>2
<1>17. crossed \in BOOLEAN BY <1>2
<1>. QED BY <1>12, <1>13, <1>14, <1>15, <1>16, <1>17 DEF TxInv

LEMMA NextStep ==
    ASSUME TxInv, [PgNext]_pgVars
    PROVE  TxInv'
<1>1. ASSUME NEW t \in Sessions, Step(t) PROVE TxInv'
  <2>1. PICK o : o = tx[t] OBVIOUS
  <2>. QED
    BY <1>1, <2>1, ClaimPickStep, ClaimUpdateStep, PgFinishRunStep, AfterSucceededStep, StreakOfStep,
       InsertFailedStep, PaceStep, InsertSucceededStep, RecoveringStep, InsertRecoveredStep, EndStreakStep,
       DropHeldStep, UnscheduleStep, DeleteJobLookupStep, DeleteRunsStep, DeleteJobRowStep,
       DeleteAlertStatesStep, FailPendingStep, DeleteChannelRowStep, ReleasePeekStep, ReleaseLockStep,
       ReleaseHeldStep, ReleaseSendStep, ReleaseDropStep, ClaimDueStep, FailDeliveryAndEmitStep,
       CommitStep
       DEF Step
<1>2. ASSUME NEW t \in Sessions, \E i \in Runs : FailUnreadableJob(t, i) PROVE TxInv'
  BY <1>2, FailUnreadableJobStep
<1>3. ASSUME NEW i \in Runs, EnqueueRun(i) PROVE TxInv'
  BY <1>3, EnqueueRunStep
<1>4. CASE UNCHANGED pgVars
  <2>1. UNCHANGED <<db, tx, events, eventId, queued, begun, crossed>> BY <1>4 DEF pgVars
  <2>2. Committed(eventId)' BY <2>1 DEF TxInv, Committed, Spent
  <2>3. ASSUME NEW t \in Sessions PROVE Local(tx[t])' /\ Drawn(tx'[t], eventId')
    <3>1. PICK o : o = tx'[t] OBVIOUS
    <3>2. Local(o) /\ Drawn(o, eventId) BY <2>1, <3>1 DEF TxInv
    <3>3. Local(o)' BY <2>1, <3>2, LocalStable
    <3>. QED BY <2>1, <3>1, <3>2, <3>3
  <2>4. (\A t \in Sessions : Local(tx[t]) /\ Drawn(tx[t], eventId))' BY <2>3
  <2>5. (\A t, u \in Sessions : t # u => Apart(tx[t], tx[u]))' BY <2>1 DEF TxInv
  <2>. QED BY <2>1, <2>2, <2>4, <2>5 DEF TxInv
<1>. QED BY <1>1, <1>2, <1>3, <1>4, StartStep, RollbackStep DEF PgNext

\* In every state of the Postgres backend, however its transactions overlap, what is committed
\* and what each open transaction has written and is about to do fit together.
THEOREM PgInvariant == PgSpec => []TxInv
<1>1. PgInit => TxInv BY InitStep
<1>2. TxInv /\ [PgNext]_pgVars => TxInv' BY NextStep
<1>. QED BY <1>1, <1>2, PTL DEF PgSpec

-----------------------------------------------------------------------------
(* Recorded once, and forgotten with the job.                              *)

\* Events and deliveries are written for good by a commit alone, and so is the job's row.
LEMMA OnlyCommitWrites ==
    ASSUME TxInv, [PgNext]_pgVars
    PROVE  \/ UNCHANGED <<events, queued>> /\ db'[JobRow] = db[JobRow]
           \/ \E t \in Sessions : Commit(t)
<1>1. ASSUME NEW t \in Sessions, Step(t), ~Commit(t) PROVE UNCHANGED <<db, events, queued>>
  BY <1>1 DEF Step, Rest, ClaimPick, ClaimUpdate, PgFinishRun, AfterSucceeded, StreakOf, InsertFailed, Pace,
     InsertSucceeded, Recovering, InsertRecovered, EndStreak, DropHeld, Unschedule, DeleteJobLookup,
     DeleteRuns, DeleteJobRow, DeleteAlertStates, FailPending, DeleteChannelRow, ReleasePeek, ReleaseLock,
     ReleaseHeld, ReleaseSend, ReleaseDrop, ClaimDue, FailDeliveryAndEmit
<1>2. ASSUME NEW t \in Sessions, Start(t) \/ Rollback(t) \/ \E i \in Runs : FailUnreadableJob(t, i)
      PROVE  UNCHANGED <<db, events, queued>>
  BY <1>2 DEF Start, Rollback, FailUnreadableJob, Rest
<1>3. ASSUME NEW i \in Runs, EnqueueRun(i)
      PROVE  UNCHANGED <<events, queued>> /\ db'[JobRow] = db[JobRow]
  BY <1>3, RowsDiffer DEF EnqueueRun
<1>4. CASE UNCHANGED pgVars BY <1>4 DEF pgVars
<1>. QED BY <1>1, <1>2, <1>3, <1>4 DEF PgNext

LEMMA RecordedStep ==
    ASSUME TxInv, TxInv', RecordedOnce, [PgNext]_pgVars
    PROVE  RecordedOnce'
<1>1. ASSUME NEW r \in Runs PROVE db'[RunRow(r)].claims <= 1
  <2>1. Good(RunRow(r), db'[RunRow(r)]) BY RowsThere DEF TxInv, Committed
  <2>2. PICK v : v = db'[RunRow(r)] OBVIOUS
  <2>3. v \in RunRec BY <2>1, <2>2, GoodRows
  <2>. QED BY <2>2, <2>3 DEF RunRec
<1>2. CASE UNCHANGED <<events, queued>>
  BY <1>1, <1>2 DEF RecordedOnce
<1>3. ASSUME NEW t \in Sessions, Commit(t) PROVE RecordedOnce'
  <2>1. PICK o : o = tx[t] OBVIOUS
  <2>2. events' = events \cup o.events /\ queued' = queued \cup o.queued BY <1>3, <2>1 DEF Commit
  <2>3. Evs(o) /\ Qs(o) /\ Committed(eventId) BY <2>1, Before
  <2>4. ASSUME NEW e \in events', NEW f \in events',
               e.of = f.of, e.of # 0, {e.type, f.type} \subseteq {"run.failed", "run.succeeded"}
        PROVE  e = f
    <3>1. Ran(e) /\ Ran(f) BY <2>4 DEF Ran
    <3>2. CASE e \in events /\ f \in events BY <2>4, <3>2 DEF RecordedOnce
    <3>3. CASE e \in o.events /\ f \in o.events BY <2>3, <3>1, <3>3 DEF Evs
    <3>4. CASE e \in events /\ f \in o.events BY <2>3, <2>4, <3>1, <3>4 DEF Evs, Committed
    <3>5. CASE e \in o.events /\ f \in events BY <2>3, <2>4, <3>1, <3>5 DEF Evs, Committed
    <3>. QED BY <2>2, <3>2, <3>3, <3>4, <3>5
  <2>5. ASSUME NEW e \in events', NEW f \in events',
               e.type = "notification.failed", f.type = e.type, e.of = f.of
        PROVE  e = f
    <3>1. GivenUp(e) /\ GivenUp(f) BY <2>5 DEF GivenUp
    <3>2. CASE e \in events /\ f \in events BY <2>5, <3>2 DEF RecordedOnce
    <3>3. CASE e \in o.events /\ f \in o.events BY <2>3, <3>1, <3>3 DEF Evs
    <3>4. CASE e \in events /\ f \in o.events BY <2>3, <2>5, <3>1, <3>4 DEF Evs, Committed
    <3>5. CASE e \in o.events /\ f \in events BY <2>3, <2>5, <3>1, <3>5 DEF Evs, Committed
    <3>. QED BY <2>2, <3>2, <3>3, <3>4, <3>5
  <2>6. ASSUME NEW p \in queued', NEW q \in queued', p.ev = q.ev, p.ch = q.ch
        PROVE  p = q
    <3>1. CASE p \in queued /\ q \in queued BY <2>6, <3>1 DEF RecordedOnce
    <3>2. CASE p \in o.queued /\ q \in o.queued
      <4>1. p.tx = q.tx /\ p \in Delivery /\ q \in Delivery BY <2>3, <3>2 DEF Qs
      <4>. QED BY <2>6, <4>1 DEF Delivery
    <3>3. CASE p \in queued /\ q \in o.queued BY <2>3, <2>6, <3>3 DEF Qs, Spent
    <3>4. CASE p \in o.queued /\ q \in queued BY <2>3, <2>6, <3>4 DEF Qs, Spent
    <3>. QED BY <2>2, <3>1, <3>2, <3>3, <3>4
  <2>. QED BY <1>1, <2>4, <2>5, <2>6 DEF RecordedOnce
<1>. QED BY <1>2, <1>3, OnlyCommitWrites

\* What happens is done and recorded once in the Postgres backend, for any number of sessions, runs,
\* channels and deliveries: a run has one claim and one outcome, a delivery is given up once, and a
\* failure goes to a channel once.  ClaimRun skips a run another worker has locked, pgFinishRunTx
\* writes only a run still 'running' and FailDeliveryAndEmit a delivery still pending, and releaseOne
\* sends what is held under the job's row lock.
THEOREM PgRecordedOnce == PgSpec => []RecordedOnce
<1>1. PgInit => RecordedOnce
  <2> SUFFICES ASSUME PgInit PROVE RecordedOnce OBVIOUS
  <2>1. TxInv BY InitStep
  <2>2. ASSUME NEW r \in Runs PROVE db[RunRow(r)].claims <= 1
    <3>1. PICK v : v = db[RunRow(r)] OBVIOUS
    <3>2. v \in RunRec BY <2>1, <3>1, RowsThere, GoodRows DEF TxInv, Committed
    <3>. QED BY <3>1, <3>2 DEF RunRec
  <2>3. /\ queued = {} /\ \A e, f \in events : e = f BY DEF PgInit
  <2>. QED BY <2>2, <2>3 DEF RecordedOnce
<1>2. TxInv /\ TxInv' /\ RecordedOnce /\ [PgNext]_pgVars => RecordedOnce' BY RecordedStep
<1>. QED BY <1>1, <1>2, PgInvariant, PTL DEF PgSpec

\* A deleted job leaves no state of its alerts behind, whatever was under way about it when DeleteJob
\* ran: whoever writes an alert state has the job's row locked, or finds one to write, and DeleteJob
\* takes the job's row first.
THEOREM PgForgottenWithJob == PgSpec => []ForgottenWithJob
<1>1. TxInv => ForgottenWithJob BY DEF TxInv, Committed, ForgottenWithJob
<1>. QED BY <1>1, PgInvariant, PTL

-----------------------------------------------------------------------------
(* The failing streak.                                                     *)

\* A failure later than every id drawn is later than every success.
LEMMA NewestFailure ==
    ASSUME TxInv, NEW S, \E f \in S : f.type = "run.failed" /\ f.id \in Nat /\ f.id >= eventId
    PROVE  Overtaken(S)
<1>1. PICK f \in S : f.type = "run.failed" /\ f.id \in Nat /\ f.id >= eventId OBVIOUS
<1>2. ASSUME NEW e, e.id \in 1 .. eventId - 1 PROVE FailedAfter(S, e)
  <2>1. f.id > e.id BY <1>1, <1>2 DEF TxInv
  <2>. QED BY <1>1, <2>1 DEF FailedAfter
<1>3. \A e \in events : e.id \in 1 .. eventId - 1 BY DEF TxInv, Committed
<1>4. \A t \in Sessions : \A e \in tx[t].events : e.id \in 1 .. eventId - 1 BY DEF TxInv, Drawn
<1>. QED BY <1>2, <1>3, <1>4 DEF Overtaken

LEMMA OvertakenMore ==
    ASSUME NEW S, NEW T, S \subseteq T, Overtaken(S)
    PROVE  Overtaken(T)
BY DEF Overtaken, FailedAfter

\* A step of one session that commits nothing.
LEMMA StreakMove ==
    ASSUME TxInv, StreakInv, NEW t \in Sessions, NEW o, o = tx[t], NEW r, Set(t, r),
           events' = events, db'[JobRow] = db[JobRow], crossed' = crossed,
           \A e \in r.events : Past(r, e) =>
                /\ Past(o, e) /\ (JobRow \in DOMAIN r.mine <=> JobRow \in DOMAIN o.mine)
                /\ JobRow \in DOMAIN o.mine => r.mine[JobRow].failed = o.mine[JobRow].failed,
           HoldsJob(r.mine) /\ r.mine[JobRow].failed # 0 /\ r.pc # "event" =>
                \/ /\ HoldsJob(o.mine) /\ o.mine[JobRow].failed # 0 /\ o.pc # "event"
                   /\ o.events \subseteq r.events
                \/ JobRow \notin DOMAIN o.mine /\ r.mine[JobRow] = db[JobRow]
                \/ \E f \in r.events : f.type = "run.failed" /\ f.id \in Nat /\ f.id >= eventId
    PROVE  StreakInv'
<1>1. tx'[t] = r /\ \A u \in Sessions \ {t} : tx'[u] = tx[u]
  BY DEF TxInv, Set
<1>2. ASSUME NEW S, Overtaken(S) PROVE Overtaken(S)'
  <2>1. ASSUME NEW u \in Sessions, NEW e \in tx'[u].events,
               Past(tx'[u], e), JobRow \notin DOMAIN tx'[u].mine
        PROVE  FailedAfter(S, e)
    <3>1. CASE u = t
      <4>1. Past(o, e) /\ JobRow \notin DOMAIN o.mine BY <1>1, <2>1, <3>1
      <4>2. e \in tx[t].events BY <4>1 DEF Past
      <4>. QED BY <1>2, <4>1, <4>2 DEF Overtaken
    <3>2. CASE u # t BY <1>1, <1>2, <2>1, <3>2 DEF Overtaken
    <3>. QED BY <3>1, <3>2
  <2>2. \A e \in events' : e.type = "run.succeeded" => FailedAfter(S, e) BY <1>2 DEF Overtaken
  <2>. QED BY <2>1, <2>2 DEF Overtaken, FailedAfter, Past
<1>3. ASSUME NEW u \in Sessions, NEW e \in tx'[u].events,
             Past(tx'[u], e), JobRow \in DOMAIN tx'[u].mine
      PROVE  tx'[u].mine[JobRow].failed = 0
  <2>1. CASE u = t
    <3>1. Past(o, e) /\ JobRow \in DOMAIN o.mine /\ r.mine[JobRow].failed = o.mine[JobRow].failed
      BY <1>1, <1>3, <2>1
    <3>2. e \in tx[t].events BY <3>1 DEF Past
    <3>. QED BY <1>1, <2>1, <3>1, <3>2 DEF StreakInv
  <2>2. CASE u # t BY <1>1, <1>3, <2>2 DEF StreakInv
  <2>. QED BY <2>1, <2>2
<1>4. ASSUME db'[JobRow].there, ~crossed', db'[JobRow].failed # 0 PROVE Overtaken(events)'
  <2>1. Overtaken(events) BY <1>4 DEF StreakInv
  <2>. QED BY <1>2, <2>1 DEF Overtaken
<1>5. ASSUME db'[JobRow].there, ~crossed', NEW u \in Sessions,
             HoldsJob(tx'[u].mine), tx'[u].mine[JobRow].failed # 0, tx'[u].pc # "event",
             NEW S, S = events \cup tx'[u].events
      PROVE  Overtaken(S)'
  <2>1. CASE u # t
    <3>1. Overtaken(S) BY <1>1, <1>5, <2>1 DEF StreakInv
    <3>. QED BY <1>2, <3>1
  <2>2. CASE u = t
    <3>0. HoldsJob(r.mine) /\ r.mine[JobRow].failed # 0 /\ r.pc # "event" /\ S = events \cup r.events
      BY <1>1, <1>5, <2>2
    <3>1. CASE HoldsJob(o.mine) /\ o.mine[JobRow].failed # 0 /\ o.pc # "event" /\ o.events \subseteq r.events
      <4>1. Overtaken(events \cup o.events) BY <1>5, <3>1 DEF StreakInv
      <4>2. Overtaken(S) BY <3>0, <3>1, <4>1, OvertakenMore
      <4>. QED BY <1>2, <4>2
    <3>2. CASE JobRow \notin DOMAIN o.mine /\ r.mine[JobRow] = db[JobRow]
      <4>1. Overtaken(events) BY <1>5, <3>0, <3>2 DEF StreakInv
      <4>2. Overtaken(S) BY <3>0, <4>1, OvertakenMore
      <4>. QED BY <1>2, <4>2
    <3>3. CASE \E f \in r.events : f.type = "run.failed" /\ f.id \in Nat /\ f.id >= eventId
      <4>1. Overtaken(S) BY <3>0, <3>3, NewestFailure
      <4>. QED BY <1>2, <4>1
    <3>. QED BY <3>0, <3>1, <3>2, <3>3
  <2>. QED BY <2>1, <2>2
<1>6. ASSUME db'[JobRow].there, ~crossed', NEW u \in Sessions,
             HoldsJob(tx'[u].mine), tx'[u].mine[JobRow].failed # 0, tx'[u].pc # "event"
      PROVE  Overtaken(events \cup tx[u].events)'
  <2>1. PICK S : S = events \cup tx'[u].events OBVIOUS
  <2>2. Overtaken(S)' BY <1>5, <1>6, <2>1
  <2>. QED BY <2>1, <2>2 DEF Overtaken
<1>. QED BY <1>3, <1>4, <1>6 DEF StreakInv, Past, HoldsJob

\* A transaction ends without a trace, or has only begun.
LEMMA StreakReset ==
    ASSUME TxInv, StreakInv, NEW t \in Sessions, NEW r, Set(t, r), UNCHANGED <<db, events, crossed>>,
           r.events = {}, JobRow \notin DOMAIN r.mine
    PROVE  StreakInv'
<1>1. PICK o : o = tx[t] OBVIOUS
<1>2. \A e \in r.events : ~Past(r, e) BY DEF Past
<1>3. ~HoldsJob(r.mine) BY DEF HoldsJob
<1>. QED BY <1>1, <1>2, <1>3, StreakMove

\* A success that is recorded gets past the streak from its end alone.
LEMMA StillPast ==
    ASSUME TxInv, NEW t \in Sessions, NEW o, o = tx[t], NEW r, NEW e \in o.events, Past(r, e),
           o.pc \notin {"previous", "recover", "end"} \/ r.pc \notin {"drop", "dropping", "commit"}
    PROVE  Past(o, e)
<1>1. Pcs(o) BY Before
<1>. QED BY <1>1 DEF Pcs, Past

\* A statement that takes no row.
LEMMA StreakGo ==
    ASSUME TxInv, StreakInv, NEW t \in Sessions, NEW o, o = tx[t], NEW r, Set(t, r),
           UNCHANGED <<db, events, crossed>>, r.mine = o.mine, r.events = o.events,
           o.pc # "event", o.pc \notin {"previous", "recover", "end"} \/ r.pc \notin {"drop", "dropping", "commit"}
    PROVE  StreakInv'
<1>1. \A e \in r.events : Past(r, e) => Past(o, e) BY StillPast
<1>. QED BY <1>1, StreakMove

\* A statement that takes the row x: another row than the job's, the job's as it is, or the job's
\* to delete it.
LEMMA StreakTake ==
    ASSUME TxInv, StreakInv, NEW t \in Sessions, NEW o, o = tx[t], NEW rec, Shape(rec), NEW x, NEW v,
           Take(t, x, v, rec), UNCHANGED <<db, events, crossed>>, rec.mine = o.mine, rec.events = o.events,
           o.pc # "event", o.pc \notin {"previous", "recover", "end"} \/ rec.pc \notin {"drop", "dropping", "commit"},
           x = JobRow => o.pc \notin {"drop", "dropping", "commit"} /\ (~v.there \/ v = View(t, JobRow))
    PROVE  StreakInv'
<1>1. PICK r : r = [rec EXCEPT !.mine = Put(@, x, v)] OBVIOUS
<1>2. Set(t, r) BY <1>1 DEF Take
<1>3. r.mine = Put(o.mine, x, v) /\ r.events = o.events /\ r.pc = rec.pc BY <1>1 DEF Shape
<1>4. IsPut(r.mine, o.mine, x, v) BY <1>3 DEF IsPut, Put
<1>5. \A e \in r.events : Past(r, e) => Past(o, e)
  BY <1>3, StillPast
<1>6. CASE x # JobRow
  <2>1. /\ JobRow \in DOMAIN r.mine <=> JobRow \in DOMAIN o.mine
        /\ JobRow \in DOMAIN o.mine => r.mine[JobRow] = o.mine[JobRow]
    BY <1>4, <1>6 DEF IsPut
  <2>2. HoldsJob(r.mine) => HoldsJob(o.mine) /\ r.mine[JobRow] = o.mine[JobRow]
    BY <2>1 DEF HoldsJob
  <2>. QED BY <1>2, <1>3, <1>5, <2>1, <2>2, StreakMove
<1>7. CASE x = JobRow
  <2>1. \A e \in r.events : ~Past(r, e) BY <1>5, <1>7 DEF Past
  <2>2. JobRow \in DOMAIN r.mine /\ r.mine[JobRow] = v BY <1>4, <1>7 DEF IsPut
  <2>3. HoldsJob(r.mine) => \/ HoldsJob(o.mine) /\ r.mine[JobRow] = o.mine[JobRow]
                            \/ JobRow \notin DOMAIN o.mine /\ r.mine[JobRow] = db[JobRow]
    BY <1>7, <2>2 DEF HoldsJob, View
  <2>. QED BY <1>2, <1>3, <2>1, <2>3, StreakMove
<1>. QED BY <1>6, <1>7

LEMMA GoIs ==
    ASSUME TxInv, NEW t \in Sessions, NEW o, o = tx[t], NEW pc
    PROVE  /\ Shape(Go(t, pc)) /\ Go(t, pc).pc = pc
           /\ Go(t, pc).mine = o.mine /\ Go(t, pc).events = o.events
<1>1. Shape(o) BY Before
<1>. QED BY <1>1 DEF Shape, Go

LEMMA NoTxIs ==
    NoTx.events = {} /\ JobRow \notin DOMAIN NoTx.mine /\ DOMAIN NoTx.mine = {}
BY DEF NoTx, NoRows

\* Claims, and the runs that end.
LEMMA StreakRuns ==
    ASSUME TxInv, StreakInv, NEW t \in Sessions, NEW o, o = tx[t],
           \/ ClaimPick(t) \/ ClaimUpdate(t) \/ PgFinishRun(t) \/ AfterSucceeded(t) \/ StreakOf(t)
           \/ InsertFailed(t) \/ Pace(t)
    PROVE  StreakInv'
<1>1. Shape(o) /\ Pcs(o) BY Before
<1>2. CASE ClaimPick(t)
  <2>1. o.pc = "pick" /\ UNCHANGED <<db, events, crossed>> BY <1>2 DEF ClaimPick, At, Rest
  <2>2. PICK y : y = Oldest({i \in Pending : ~Locked(t, RunRow(i))}) OBVIOUS
  <2>3. PICK rec : rec = [Go(t, "claim") EXCEPT !.id = y] OBVIOUS
  <2>4. Shape(rec) /\ rec.mine = o.mine /\ rec.events = o.events BY <1>1, <2>3 DEF Shape, Go
  <2>5. Set(t, NoTx) \/ Take(t, RunRow(y), db[RunRow(y)], rec) BY <1>2, <2>2, <2>3 DEF ClaimPick
  <2>6. CASE Set(t, NoTx) BY <2>1, <2>6, NoTxIs, StreakReset
  <2>7. CASE Take(t, RunRow(y), db[RunRow(y)], rec) BY <2>1, <2>4, <2>7, RowsDiffer, StreakTake
  <2>. QED BY <2>5, <2>6, <2>7
<1>3. CASE ClaimUpdate(t)
  <2>1. o.pc = "claim" /\ UNCHANGED <<db, events, crossed>> BY <1>3 DEF ClaimUpdate, At, Rest
  <2>2. PICK x, v : x = RunRow(o.id) /\ v = [View(t, x) EXCEPT !.status = "running", !.claims = @ + 1]
    OBVIOUS
  <2>3. Take(t, x, v, Go(t, "commit")) BY <1>3, <2>2 DEF ClaimUpdate
  <2>4. x # JobRow BY <2>2, RowsDiffer
  <2>. QED BY <2>1, <2>3, <2>4, GoIs, StreakTake
<1>4. CASE PgFinishRun(t)
  <2>1. o.pc = "run" /\ UNCHANGED <<db, events, crossed>> BY <1>4 DEF PgFinishRun, At, Rest
  <2>2. PICK x, v : x = RunRow(o.id) /\ v = [View(t, x) EXCEPT !.status = o.status, !.ended = o.at]
    OBVIOUS
  <2>3. PICK pc : pc = IF o.status = "failed" THEN "prev" ELSE "ok" OBVIOUS
  <2>4. Set(t, NoTx) \/ Take(t, x, v, Go(t, pc)) BY <1>4, <2>2, <2>3 DEF PgFinishRun
  <2>5. CASE Set(t, NoTx) BY <2>1, <2>5, NoTxIs, StreakReset
  <2>6. CASE Take(t, x, v, Go(t, pc))
    <3>1. x # JobRow BY <2>2, RowsDiffer
    <3>. QED BY <2>1, <2>6, <3>1, GoIs, StreakTake
  <2>. QED BY <2>4, <2>5, <2>6
<1>5. CASE AfterSucceeded(t)
  <2>1. o.pc = "prev" /\ UNCHANGED <<db, events, crossed>> BY <1>5 DEF AfterSucceeded, At, Rest
  <2>2. PICK b : b = (PreviousStatus(t, o.id) = "succeeded") OBVIOUS
  <2>3. PICK r : r = [Go(t, "streak") EXCEPT !.fresh = b] OBVIOUS
  <2>4. Set(t, r) BY <1>5, <2>2, <2>3 DEF AfterSucceeded
  <2>5. r.mine = o.mine /\ r.events = o.events BY <1>1, <2>3 DEF Shape, Go
  <2>. QED BY <2>1, <2>4, <2>5, StreakGo
<1>6. CASE StreakOf(t)
  <2>1. o.pc = "streak" /\ UNCHANGED <<db, events, crossed>> BY <1>6 DEF StreakOf, At, Rest
  <2>2. o.events = {} BY <1>1, <2>1 DEF Pcs, RunPcs
  <2>3. PICK r : Set(t, r) /\ r.pc = "event" /\ r.events = {}
    <3>1. PICK job : job = View(t, JobRow) OBVIOUS
    <3>2. PICK v : v = [job EXCEPT !.failed = IF o.fresh THEN 1 ELSE @ + 1] OBVIOUS
    <3>3. PICK r : r = [Go(t, "event") EXCEPT !.jobless = TRUE] OBVIOUS
    <3>4. PICK s : s = [Go(t, "event") EXCEPT !.mine = Put(@, JobRow, v)] OBVIOUS
    <3>5. Set(t, r) \/ Set(t, s) BY <1>6, <3>1, <3>2, <3>3, <3>4 DEF StreakOf, Take
    <3>6. r.pc = "event" /\ r.events = {} BY <1>1, <2>2, <3>3 DEF Shape, Go
    <3>7. s.pc = "event" /\ s.events = {} BY <1>1, <2>2, <3>4 DEF Shape, Go
    <3>. QED BY <3>5, <3>6, <3>7
  <2>4. \A e \in r.events : ~Past(r, e) BY <2>3
  <2>. QED BY <2>1, <2>3, <2>4, StreakMove
<1>7. CASE InsertFailed(t)
  <2>1. o.pc = "event" /\ UNCHANGED <<db, events, crossed>> BY <1>7 DEF InsertFailed, At
  <2>2. PICK e : e = [id |-> eventId, type |-> "run.failed", of |-> o.id] OBVIOUS
  <2>3. PICK r : r = [[[o EXCEPT !.pc = "pace"] EXCEPT !.events = @ \cup {e}, !.ev = eventId]
                        EXCEPT !.todo = Routed(t)] OBVIOUS
  <2>4. Set(t, r) BY <1>7, <2>2, <2>3 DEF InsertFailed, Go, Emit
  <2>5. r.pc = "pace" /\ r.mine = o.mine /\ r.events = o.events \cup {e} BY <1>1, <2>3 DEF Shape
  <2>6. e \in r.events /\ e.type = "run.failed" /\ e.id \in Nat /\ e.id >= eventId
    BY <2>2, <2>5, NewId
  <2>7. \A f \in r.events : ~Past(r, f) BY <2>5 DEF Past
  <2>. QED BY <2>1, <2>4, <2>6, <2>7, StreakMove
<1>8. CASE Pace(t)
  <2>1. o.pc = "pace" /\ UNCHANGED <<db, events, crossed>> BY <1>8 DEF Pace, At, Rest
  <2>2. CASE o.todo = {}
    <3>1. PICK pc : pc = IF o.op = "unreadable" THEN "unschedule" ELSE "commit" OBVIOUS
    <3>2. Set(t, Go(t, pc)) BY <1>8, <2>2, <3>1 DEF Pace
    <3>. QED BY <2>1, <3>2, GoIs, StreakGo
  <2>3. CASE o.todo # {}
    <3>1. PICK c : c = Oldest(o.todo) OBVIOUS
    <3>2. PICK rec : rec = [o EXCEPT !.todo = @ \ {c}] OBVIOUS
    <3>3. PICK out : out = Queue(rec, o.ev, c) OBVIOUS
    <3>4. Shape(rec) /\ rec.mine = o.mine /\ rec.events = o.events /\ rec.pc = o.pc
      BY <1>1, <3>2 DEF Shape
    <3>5. Shape(out) /\ out.mine = o.mine /\ out.events = o.events /\ out.pc = o.pc
      BY <3>3, <3>4 DEF Shape, Queue
    <3>6. \/ Set(t, out)
          \/ Take(t, AlertRow(c), [there |-> TRUE, held |-> 0], out)
          \/ Take(t, AlertRow(c), [there |-> TRUE, held |-> o.ev], rec)
      BY <1>8, <2>3, <3>1, <3>2, <3>3 DEF Pace
    <3>7. CASE Set(t, out) BY <2>1, <3>5, <3>7, StreakGo
    <3>8. ASSUME NEW v, NEW s, s \in {rec, out}, Take(t, AlertRow(c), v, s) PROVE StreakInv'
      <4>1. Shape(s) /\ s.mine = o.mine /\ s.events = o.events BY <3>4, <3>5, <3>8
      <4>2. AlertRow(c) # JobRow BY RowsDiffer
      <4>. QED BY <2>1, <3>8, <4>1, <4>2, StreakTake
    <3>. QED BY <3>6, <3>7, <3>8
  <2>. QED BY <2>2, <2>3
<1>. QED BY <1>2, <1>3, <1>4, <1>5, <1>6, <1>7, <1>8

\* A success ends the streak.  Unless it read the streak too early, no streak is under way then.
LEMMA StreakEnds ==
    ASSUME TxInv, StreakInv, NEW t \in Sessions, NEW o, o = tx[t], EndStreak(t)
    PROVE  StreakInv'
<1>1. Shape(o) /\ Pcs(o) /\ Mine(o.mine) /\ Forgets(o) BY Before
<1>2. /\ o.pc = "end" /\ UNCHANGED <<db, events>>
      /\ ~crossed' => ~crossed /\ \A u \in Sessions : ~(JobRow \in DOMAIN tx[u].mine /\
                                      tx[u].mine[JobRow].failed > View(t, JobRow).failed)
  BY DEF EndStreak, At
<1>3. o.op \in Ends BY <1>1, <1>2 DEF Pcs, EndPcs
<1>4. PICK job : job = View(t, JobRow) OBVIOUS
<1>5. job \in JobRec BY <1>4, ViewRec
<1>6. \A u \in Sessions : JobRow \in DOMAIN tx[u].mine => tx[u].mine[JobRow].failed \in Nat
  BY GoodRows DEF TxInv, Local, Mine, JobRec
<1>7. CASE job.there /\ job.failed # 0
  <2>1. PICK v : v = [job EXCEPT !.failed = 0] OBVIOUS
  <2>2. v.failed = 0 /\ v.there BY <1>5, <1>7, <2>1 DEF JobRec
  <2>3. PICK r : r = [[o EXCEPT !.pc = "drop"] EXCEPT !.mine = Put(@, JobRow, v)] OBVIOUS
  <2>4. Set(t, r) /\ ~Locked(t, JobRow) BY <1>4, <1>7, <2>1, <2>3 DEF EndStreak, Take, Go
  <2>5. r.mine = Put(o.mine, JobRow, v) BY <1>1, <2>3 DEF Shape
  <2>6. JobRow \in DOMAIN r.mine /\ r.mine[JobRow].failed = 0 BY <2>2, <2>5 DEF Put
  <2>7. tx'[t] = r /\ \A u \in Sessions \ {t} : tx'[u] = tx[u] BY <2>4 DEF TxInv, Set
  <2>8. ASSUME NEW u \in Sessions, NEW e \in tx'[u].events, Past(tx'[u], e), JobRow \in DOMAIN tx'[u].mine
        PROVE  tx'[u].mine[JobRow].failed = 0
    <3>1. CASE u = t BY <2>6, <2>7, <3>1
    <3>2. CASE u # t BY <2>4, <2>7, <2>8, <3>2 DEF Locked
    <3>. QED BY <3>1, <3>2
  <2>9. ASSUME NEW S, Overtaken(S) PROVE Overtaken(S)'
    <3>1. ASSUME NEW u \in Sessions, NEW e \in tx'[u].events, Past(tx'[u], e), JobRow \notin DOMAIN tx'[u].mine
          PROVE  FailedAfter(S, e)
      <4>1. u # t BY <2>6, <2>7, <3>1
      <4>. QED BY <2>7, <2>9, <3>1, <4>1 DEF Overtaken
    <3>2. \A e \in events' : e.type = "run.succeeded" => FailedAfter(S, e) BY <1>2, <2>9 DEF Overtaken
    <3>. QED BY <3>1, <3>2 DEF Overtaken, FailedAfter, Past
  <2>10. ASSUME db'[JobRow].there, ~crossed', db'[JobRow].failed # 0 PROVE Overtaken(events)'
    <3>1. Overtaken(events) BY <1>2, <2>10 DEF StreakInv
    <3>. QED BY <1>2, <2>9, <3>1 DEF Overtaken
  <2>11. ASSUME NEW u \in Sessions PROVE ~(HoldsJob(tx'[u].mine) /\ tx'[u].mine[JobRow].failed # 0)
    <3>1. CASE u = t BY <2>6, <2>7, <3>1
    <3>2. CASE u # t BY <2>4, <2>7, <3>2 DEF Locked, HoldsJob
    <3>. QED BY <3>1, <3>2
  <2>. QED BY <2>8, <2>10, <2>11 DEF StreakInv, Past, HoldsJob
<1>8. CASE ~(job.there /\ job.failed # 0)
  <2>1. PICK r : r = [o EXCEPT !.pc = "drop"] OBVIOUS
  <2>2. Set(t, r) BY <1>4, <1>8, <2>1 DEF EndStreak, Go
  <2>3. r.mine = o.mine /\ r.events = o.events /\ r.pc = "drop" BY <1>1, <2>1 DEF Shape
  <2>4. tx'[t] = r /\ \A u \in Sessions \ {t} : tx'[u] = tx[u] BY <2>2 DEF TxInv, Set
  <2>5. JobRow \in DOMAIN o.mine => o.mine[JobRow].failed = 0
    <3>1. JobRow \in DOMAIN o.mine => job = o.mine[JobRow] BY <1>4 DEF View
    <3>2. JobRow \in DOMAIN o.mine => job.there BY <1>1, <1>3, <3>1 DEF Forgets, Ends
    <3>. QED BY <1>8, <3>1, <3>2
  <2>6. ASSUME NEW u \in Sessions, NEW e \in tx'[u].events, Past(tx'[u], e), JobRow \in DOMAIN tx'[u].mine
        PROVE  tx'[u].mine[JobRow].failed = 0
    <3>1. CASE u = t BY <2>3, <2>4, <2>5, <2>6, <3>1
    <3>2. CASE u # t BY <2>4, <2>6, <3>2 DEF StreakInv
    <3>. QED BY <3>1, <3>2
  <2>7. CASE JobRow \in DOMAIN o.mine
    <3>1. ASSUME NEW S, Overtaken(S) PROVE Overtaken(S)'
      <4>1. ASSUME NEW u \in Sessions, NEW e \in tx'[u].events, Past(tx'[u], e),
                   JobRow \notin DOMAIN tx'[u].mine
            PROVE  FailedAfter(S, e)
        <5>1. u # t BY <2>3, <2>4, <2>7, <4>1
        <5>. QED BY <2>4, <3>1, <4>1, <5>1 DEF Overtaken
      <4>2. \A e \in events' : e.type = "run.succeeded" => FailedAfter(S, e) BY <1>2, <3>1 DEF Overtaken
      <4>. QED BY <4>1, <4>2 DEF Overtaken, FailedAfter, Past
    <3>2. ASSUME db'[JobRow].there, ~crossed', db'[JobRow].failed # 0 PROVE Overtaken(events)'
      <4>1. Overtaken(events) BY <1>2, <3>2 DEF StreakInv
      <4>. QED BY <1>2, <3>1, <4>1 DEF Overtaken
    <3>3. ASSUME NEW u \in Sessions PROVE ~(HoldsJob(tx'[u].mine) /\ tx'[u].mine[JobRow].failed # 0)
      <4>1. CASE u = t BY <2>3, <2>4, <2>5, <4>1 DEF HoldsJob
      <4>2. CASE u # t
        <5>1. Apart(tx[t], tx[u]) BY <4>2 DEF TxInv
        <5>. QED BY <2>4, <2>7, <4>2, <5>1 DEF Apart, HoldsJob
      <4>. QED BY <4>1, <4>2
    <3>. QED BY <2>6, <3>2, <3>3 DEF StreakInv, Past, HoldsJob
  <2>8. CASE JobRow \notin DOMAIN o.mine
    <3>1. job = db[JobRow] BY <1>4, <2>8 DEF View
    <3>2. db'[JobRow].there => db'[JobRow].failed = 0 BY <1>2, <1>8, <3>1
    <3>3. ASSUME db'[JobRow].there, ~crossed', NEW u \in Sessions
          PROVE  ~(HoldsJob(tx'[u].mine) /\ tx'[u].mine[JobRow].failed # 0)
      <4>1. CASE u = t BY <2>3, <2>4, <2>8, <4>1 DEF HoldsJob
      <4>2. CASE u # t
        <5>1. tx'[u] = tx[u] BY <2>4, <4>2
        <5>2. job.failed = 0 BY <1>2, <3>1, <3>2, <3>3
        <5>3. JobRow \in DOMAIN tx[u].mine => ~(tx[u].mine[JobRow].failed > 0) BY <1>2, <1>4, <3>3, <5>2
        <5>. QED BY <1>6, <5>1, <5>3 DEF HoldsJob
      <4>. QED BY <4>1, <4>2
    <3>. QED BY <2>6, <3>2, <3>3 DEF StreakInv, Past, HoldsJob
  <2>. QED BY <2>7, <2>8
<1>. QED BY <1>7, <1>8

LEMMA StreakSuccess ==
    ASSUME TxInv, StreakInv, NEW t \in Sessions, NEW o, o = tx[t],
           \/ InsertSucceeded(t) \/ Recovering(t) \/ InsertRecovered(t) \/ DropHeld(t) \/ Unschedule(t)
    PROVE  StreakInv'
<1>1. Shape(o) /\ Pcs(o) BY Before
<1>2. CASE InsertSucceeded(t)
  <2>1. o.pc = "ok" /\ UNCHANGED <<db, events, crossed>> BY <1>2 DEF InsertSucceeded, At
  <2>2. PICK e : e = [id |-> eventId, type |-> "run.succeeded", of |-> o.id] OBVIOUS
  <2>3. PICK r : r = [[o EXCEPT !.pc = "previous"] EXCEPT !.events = @ \cup {e}, !.ev = eventId] OBVIOUS
  <2>4. Set(t, r) BY <1>2, <2>2, <2>3 DEF InsertSucceeded, Go, Emit
  <2>5. r.pc = "previous" /\ r.mine = o.mine /\ o.events \subseteq r.events BY <1>1, <2>3 DEF Shape
  <2>6. \A f \in r.events : ~Past(r, f) BY <2>5 DEF Past
  <2>. QED BY <2>1, <2>4, <2>5, <2>6, StreakMove
<1>3. CASE Recovering(t)
  <2>1. o.pc = "previous" /\ UNCHANGED <<db, events, crossed>> BY <1>3 DEF Recovering, At, Rest
  <2>2. PICK pc \in {"end", "recover"} : Set(t, Go(t, pc)) BY <1>3 DEF Recovering
  <2>. QED BY <2>1, <2>2, GoIs, StreakGo
<1>4. CASE InsertRecovered(t)
  <2>1. o.pc = "recover" /\ UNCHANGED <<db, events, crossed>> BY <1>4 DEF InsertRecovered, At
  <2>2. PICK rec : rec = Emit(Go(t, "end"), "run.recovered", tx[t].id) OBVIOUS
  <2>3. Shape(rec) /\ rec.pc = "end" /\ rec.mine = o.mine /\ o.events \subseteq rec.events
    BY <1>1, <2>2 DEF Shape, Emit, Go
  <2>4. PICK sent, out : /\ out = [rec EXCEPT !.queued = @ \cup sent]
                         /\ IF View(t, JobRow).there THEN Take(t, JobRow, View(t, JobRow), out) ELSE Set(t, out)
    BY <1>4, <2>2 DEF InsertRecovered
  <2>5. Shape(out) /\ out.pc = "end" /\ out.mine = o.mine /\ o.events \subseteq out.events
    BY <2>3, <2>4 DEF Shape
  <2>6. CASE Set(t, out)
    <3>1. \A e \in out.events : ~Past(out, e) BY <2>5 DEF Past
    <3>. QED BY <2>1, <2>5, <2>6, <3>1, StreakMove
  <2>7. CASE Take(t, JobRow, View(t, JobRow), out)
    <3>1. PICK job : job = View(t, JobRow) OBVIOUS
    <3>2. PICK r : r = [out EXCEPT !.mine = Put(@, JobRow, job)] OBVIOUS
    <3>3. Set(t, r) BY <2>7, <3>1, <3>2 DEF Take
    <3>4. r.pc = "end" /\ r.mine = Put(o.mine, JobRow, job) /\ o.events \subseteq r.events
      BY <2>5, <3>2 DEF Shape
    <3>5. \A e \in r.events : ~Past(r, e) BY <3>4 DEF Past
    <3>6. JobRow \in DOMAIN r.mine /\ r.mine[JobRow] = job BY <3>4 DEF Put
    <3>7. HoldsJob(r.mine) => \/ HoldsJob(o.mine) /\ r.mine[JobRow] = o.mine[JobRow]
                              \/ JobRow \notin DOMAIN o.mine /\ r.mine[JobRow] = db[JobRow]
      BY <3>1, <3>6 DEF HoldsJob, View
    <3>. QED BY <2>1, <3>3, <3>4, <3>5, <3>7, StreakMove
  <2>. QED BY <2>4, <2>6, <2>7
<1>5. CASE DropHeld(t)
  <2>1. o.pc \in {"drop", "dropping"} /\ UNCHANGED <<db, events, crossed>> BY <1>5 DEF DropHeld, At, Rest
  <2>2. PICK c : c = Oldest(o.todo) OBVIOUS
  <2>3. PICK v : v = [View(t, AlertRow(c)) EXCEPT !.held = 0] OBVIOUS
  <2>4. PICK q, held : /\ q = [o EXCEPT !.todo = @ \ {c}]
                       /\ held = {d \in Channels : View(t, AlertRow(d)).there /\ View(t, AlertRow(d)).held # 0}
    OBVIOUS
  <2>5. PICK r : r = [Go(t, "dropping") EXCEPT !.todo = held] OBVIOUS
  <2>6. Set(t, r) \/ Set(t, q) \/ Set(t, Go(t, "commit")) \/ Take(t, AlertRow(c), v, q)
    BY <1>5, <2>2, <2>3, <2>4, <2>5 DEF DropHeld
  <2>7. /\ Shape(q) /\ q.mine = o.mine /\ q.events = o.events
        /\ r.mine = o.mine /\ r.events = o.events
    BY <1>1, <2>4, <2>5 DEF Shape, Go
  <2>8. CASE Set(t, r) \/ Set(t, q) BY <2>1, <2>7, <2>8, StreakGo
  <2>9. CASE Set(t, Go(t, "commit")) BY <2>1, <2>9, GoIs, StreakGo
  <2>10. CASE Take(t, AlertRow(c), v, q)
    <3>1. AlertRow(c) # JobRow BY RowsDiffer
    <3>. QED BY <2>1, <2>7, <2>10, <3>1, StreakTake
  <2>. QED BY <2>6, <2>8, <2>9, <2>10
<1>6. CASE Unschedule(t)
  <2>1. o.pc = "unschedule" /\ UNCHANGED <<db, events, crossed>> BY <1>6 DEF Unschedule, At, Rest
  <2>2. Set(t, Go(t, "commit")) \/ Take(t, JobRow, View(t, JobRow), Go(t, "commit"))
    BY <1>6 DEF Unschedule
  <2>3. CASE Set(t, Go(t, "commit")) BY <2>1, <2>3, GoIs, StreakGo
  <2>4. CASE Take(t, JobRow, View(t, JobRow), Go(t, "commit")) BY <2>1, <2>4, GoIs, StreakTake
  <2>. QED BY <2>2, <2>3, <2>4
<1>. QED BY <1>2, <1>3, <1>4, <1>5, <1>6

\* What is deleted.
LEMMA StreakDeletes ==
    ASSUME TxInv, StreakInv, NEW t \in Sessions, NEW o, o = tx[t],
           \/ DeleteJobLookup(t) \/ DeleteRuns(t) \/ DeleteJobRow(t) \/ DeleteAlertStates(t)
           \/ FailPending(t) \/ DeleteChannelRow(t)
    PROVE  StreakInv'
<1>1. Shape(o) /\ Pcs(o) BY Before
<1>2. ASSUME DeleteNext(t), UNCHANGED <<db, events, crossed>>, o.pc \in {"runs", "alerts"} PROVE StreakInv'
  <2>1. PICK x \in o.todo : Take(t, x, [View(t, x) EXCEPT !.there = FALSE], [o EXCEPT !.todo = @ \ {x}])
    BY <1>2 DEF DeleteNext
  <2>2. x # JobRow
    <3>1. o.todo \subseteq RunRows \/ o.todo \subseteq {AlertRow(c) : c \in Channels}
      BY <1>1, <1>2 DEF Pcs
    <3>. QED BY <3>1, RowsDiffer DEF RunRows
  <2>3. PICK rec : rec = [o EXCEPT !.todo = @ \ {x}] OBVIOUS
  <2>4. Shape(rec) /\ rec.mine = o.mine /\ rec.events = o.events BY <1>1, <2>3 DEF Shape
  <2>5. PICK v : v = [View(t, x) EXCEPT !.there = FALSE] OBVIOUS
  <2>6. Take(t, x, v, rec) BY <2>1, <2>3, <2>5
  <2>7. o.pc # "event" /\ o.pc \notin {"previous", "recover", "end"} BY <1>2
  <2>. QED BY <1>2, <2>2, <2>4, <2>6, <2>7, StreakTake
<1>3. CASE DeleteJobLookup(t)
  <2>1. o.pc = "lookup" /\ UNCHANGED <<db, events, crossed>> BY <1>3 DEF DeleteJobLookup, At
  <2>2. DOMAIN o.mine = {} BY <1>1, <2>1 DEF Pcs, ClearPcs
  <2>3. PICK r : r = [Emit(Go(t, "runs"), "job.removed", 0) EXCEPT !.todo = Present(t, RunRows)] OBVIOUS
  <2>4. r.pc = "runs" /\ r.mine = o.mine BY <1>1, <2>3 DEF Shape, Emit, Go
  <2>5. Set(t, NoTx) \/ Set(t, r) BY <1>3, <2>3 DEF DeleteJobLookup
  <2>6. CASE Set(t, NoTx) BY <2>1, <2>6, NoTxIs, StreakReset
  <2>7. CASE Set(t, r)
    <3>1. \A e \in r.events : ~Past(r, e) BY <2>4 DEF Past
    <3>2. ~HoldsJob(r.mine) BY <2>2, <2>4 DEF HoldsJob
    <3>. QED BY <2>1, <2>7, <3>1, <3>2, StreakMove
  <2>. QED BY <2>5, <2>6, <2>7
<1>4. CASE DeleteRuns(t)
  <2>1. o.pc = "runs" /\ UNCHANGED <<db, events, crossed>> BY <1>4 DEF DeleteRuns, At, Rest
  <2>2. DeleteNext(t) \/ Set(t, Go(t, "job")) BY <1>4 DEF DeleteRuns
  <2>3. CASE DeleteNext(t) BY <1>2, <2>1, <2>3
  <2>4. CASE Set(t, Go(t, "job")) BY <2>1, <2>4, GoIs, StreakGo
  <2>. QED BY <2>2, <2>3, <2>4
<1>5. CASE DeleteJobRow(t)
  <2>1. o.pc = "job" /\ UNCHANGED <<db, events, crossed>> BY <1>5 DEF DeleteJobRow, At, Rest
  <2>2. PICK v : v = [View(t, JobRow) EXCEPT !.there = FALSE] OBVIOUS
  <2>3. ~v.there
    <3>1. View(t, JobRow) \in JobRec BY ViewRec
    <3>. QED BY <2>2, <3>1 DEF JobRec
  <2>4. Take(t, JobRow, v, Go(t, "states")) \/ Set(t, Go(t, "states")) BY <1>5, <2>2 DEF DeleteJobRow
  <2>5. CASE Take(t, JobRow, v, Go(t, "states")) BY <2>1, <2>3, <2>5, GoIs, StreakTake
  <2>6. CASE Set(t, Go(t, "states")) BY <2>1, <2>6, GoIs, StreakGo
  <2>. QED BY <2>4, <2>5, <2>6
<1>6. CASE DeleteAlertStates(t)
  <2>1. o.pc \in {"states", "alerts"} /\ UNCHANGED <<db, events, crossed>>
    BY <1>6 DEF DeleteAlertStates, At, Rest
  <2>2. PICK r : r = [Go(t, "alerts") EXCEPT !.todo = Present(t, AlertRows(t))] OBVIOUS
  <2>3. PICK pc : pc = IF o.op = "delete channel" THEN "deliveries" ELSE "commit" OBVIOUS
  <2>4. Set(t, r) \/ (o.pc = "alerts" /\ DeleteNext(t)) \/ Set(t, Go(t, pc))
    BY <1>6, <2>2, <2>3 DEF DeleteAlertStates, At
  <2>5. CASE Set(t, r)
    <3>1. r.mine = o.mine /\ r.events = o.events BY <1>1, <2>2 DEF Shape, Go
    <3>. QED BY <2>1, <2>5, <3>1, StreakGo
  <2>6. CASE o.pc = "alerts" /\ DeleteNext(t) BY <1>2, <2>1, <2>6
  <2>7. CASE Set(t, Go(t, pc)) BY <2>1, <2>7, GoIs, StreakGo
  <2>. QED BY <2>4, <2>5, <2>6, <2>7
<1>7. CASE FailPending(t)
  <2>1. o.pc = "deliveries" /\ UNCHANGED <<db, events, crossed>> BY <1>7 DEF FailPending, At, Rest
  <2>2. PICK d, v : Set(t, Go(t, "channel")) \/ Take(t, DelRow(d), v, o) BY <1>7 DEF FailPending
  <2>3. CASE Set(t, Go(t, "channel")) BY <2>1, <2>3, GoIs, StreakGo
  <2>4. CASE Take(t, DelRow(d), v, o)
    <3>1. DelRow(d) # JobRow BY RowsDiffer
    <3>. QED BY <1>1, <2>1, <2>4, <3>1, StreakTake
  <2>. QED BY <2>2, <2>3, <2>4
<1>8. CASE DeleteChannelRow(t)
  <2>1. o.pc = "channel" /\ UNCHANGED <<db, events, crossed>> BY <1>8 DEF DeleteChannelRow, At, Rest
  <2>2. PICK v : \/ Set(t, Go(t, "commit")) \/ Take(t, ChannelRow(o.id), v, Go(t, "commit"))
    BY <1>8 DEF DeleteChannelRow
  <2>3. CASE Set(t, Go(t, "commit")) BY <2>1, <2>3, GoIs, StreakGo
  <2>4. CASE Take(t, ChannelRow(o.id), v, Go(t, "commit"))
    <3>1. ChannelRow(o.id) # JobRow BY RowsDiffer
    <3>. QED BY <2>1, <2>4, <3>1, GoIs, StreakTake
  <2>. QED BY <2>2, <2>3, <2>4
<1>. QED BY <1>3, <1>4, <1>5, <1>6, <1>7, <1>8

\* What is released, and delivered.
LEMMA StreakReleases ==
    ASSUME TxInv, StreakInv, NEW t \in Sessions, NEW o, o = tx[t],
           \/ ReleasePeek(t) \/ ReleaseLock(t) \/ ReleaseHeld(t) \/ ReleaseSend(t) \/ ReleaseDrop(t)
           \/ ClaimDue(t) \/ FailDeliveryAndEmit(t)
    PROVE  StreakInv'
<1>1. Shape(o) /\ Pcs(o) BY Before
<1>2. ASSUME NEW pc, Set(t, Go(t, pc)), UNCHANGED <<db, events, crossed>>, o.pc \in ReleasePcs PROVE StreakInv'
  <2>1. o.pc # "event" /\ o.pc \notin {"previous", "recover", "end"} BY <1>2 DEF ReleasePcs
  <2>. QED BY <1>2, <2>1, GoIs, StreakGo
<1>3. ASSUME Set(t, NoTx), UNCHANGED <<db, events, crossed>> PROVE StreakInv'
  BY <1>3, NoTxIs, StreakReset
<1>4. CASE ReleasePeek(t)
  <2>1. o.pc \in ReleasePcs /\ UNCHANGED <<db, events, crossed>> BY <1>4 DEF ReleasePeek, At, Rest, ReleasePcs
  <2>2. PICK pc : Set(t, NoTx) \/ Set(t, Go(t, pc)) BY <1>4 DEF ReleasePeek
  <2>. QED BY <1>2, <1>3, <2>1, <2>2
<1>5. CASE ReleaseLock(t)
  <2>1. o.pc = "lock" /\ o.pc \in ReleasePcs /\ UNCHANGED <<db, events, crossed>>
    BY <1>5 DEF ReleaseLock, At, Rest, ReleasePcs
  <2>2. PICK pc : Set(t, Go(t, pc)) \/ Take(t, JobRow, View(t, JobRow), Go(t, pc)) BY <1>5 DEF ReleaseLock
  <2>3. CASE Set(t, Go(t, pc)) BY <1>2, <2>1, <2>3
  <2>4. CASE Take(t, JobRow, View(t, JobRow), Go(t, pc)) BY <2>1, <2>4, GoIs, StreakTake
  <2>. QED BY <2>2, <2>3, <2>4
<1>6. CASE ReleaseHeld(t)
  <2>1. o.pc \in ReleasePcs /\ UNCHANGED <<db, events, crossed>> BY <1>6 DEF ReleaseHeld, At, Rest, ReleasePcs
  <2>2. PICK pc : Set(t, NoTx) \/ Set(t, Go(t, pc)) BY <1>6 DEF ReleaseHeld
  <2>. QED BY <1>2, <1>3, <2>1, <2>2
<1>7. CASE ReleaseSend(t)
  <2>1. o.pc = "send" /\ UNCHANGED <<db, events, crossed>> BY <1>7 DEF ReleaseSend, At, Rest
  <2>2. PICK rec : rec = Queue(Go(t, "commit"), o.ev, o.id) OBVIOUS
  <2>3. Shape(rec) /\ rec.mine = o.mine /\ rec.events = o.events BY <1>1, <2>2 DEF Shape, Queue, Go
  <2>4. PICK v : Take(t, AlertRow(o.id), v, rec) BY <1>7, <2>2 DEF ReleaseSend
  <2>5. AlertRow(o.id) # JobRow BY RowsDiffer
  <2>. QED BY <2>1, <2>3, <2>4, <2>5, StreakTake
<1>8. CASE ReleaseDrop(t)
  <2>1. o.pc = "drop one" /\ o.pc \in ReleasePcs /\ UNCHANGED <<db, events, crossed>>
    BY <1>8 DEF ReleaseDrop, At, Rest, ReleasePcs
  <2>2. PICK v : Set(t, Go(t, "commit")) \/ Take(t, AlertRow(o.id), v, Go(t, "commit"))
    BY <1>8 DEF ReleaseDrop
  <2>3. CASE Set(t, Go(t, "commit")) BY <1>2, <2>1, <2>3
  <2>4. CASE Take(t, AlertRow(o.id), v, Go(t, "commit"))
    <3>1. AlertRow(o.id) # JobRow BY RowsDiffer
    <3>2. PICK rec : rec = Go(t, "commit") OBVIOUS
    <3>3. Shape(rec) /\ rec.mine = o.mine /\ rec.events = o.events BY <3>2, GoIs
    <3>4. Take(t, AlertRow(o.id), v, rec) BY <2>4, <3>2
    <3>5. o.pc # "event" /\ o.pc \notin {"previous", "recover", "end"} BY <2>1
    <3>. QED BY <2>1, <3>1, <3>3, <3>4, <3>5, StreakTake
  <2>. QED BY <2>2, <2>3, <2>4
<1>9. CASE ClaimDue(t)
  <2>1. o.pc = "due" /\ UNCHANGED <<db, events, crossed>> BY <1>9 DEF ClaimDue, At, Rest
  <2>2. o.events = {} BY <1>1, <2>1 DEF Pcs, ClearPcs
  <2>3. PICK S, v, r : /\ r = [Go(t, "commit") EXCEPT !.mine = [x \in {DelRow(d) : d \in S} |-> v]]
                       /\ Set(t, r)
    BY <1>9 DEF ClaimDue
  <2>4. r.events = {} /\ r.mine = [x \in {DelRow(d) : d \in S} |-> v] BY <1>1, <2>2, <2>3 DEF Shape, Go
  <2>5. JobRow \notin DOMAIN r.mine BY <2>4, RowsDiffer
  <2>. QED BY <2>1, <2>3, <2>4, <2>5, StreakReset
<1>10. CASE FailDeliveryAndEmit(t)
  <2>1. o.pc = "give up" /\ UNCHANGED <<db, events, crossed>> BY <1>10 DEF FailDeliveryAndEmit, At
  <2>2. DOMAIN o.mine = {} /\ o.events = {} BY <1>1, <2>1 DEF Pcs, ClearPcs
  <2>3. PICK e : e = [id |-> eventId, type |-> "notification.failed", of |-> o.id] OBVIOUS
  <2>4. PICK v : v = [View(t, DelRow(o.id)) EXCEPT !.state = "failed"] OBVIOUS
  <2>5. PICK r : r = [[[o EXCEPT !.pc = "commit"] EXCEPT !.events = @ \cup {e}, !.ev = eventId]
                        EXCEPT !.mine = Put(@, DelRow(o.id), v)] OBVIOUS
  <2>6. Set(t, NoTx) \/ Set(t, r) BY <1>10, <2>3, <2>4, <2>5 DEF FailDeliveryAndEmit, Take, Emit, Go
  <2>7. r.events = {e} /\ r.mine = Put(o.mine, DelRow(o.id), v) BY <1>1, <2>2, <2>5 DEF Shape
  <2>8. JobRow \notin DOMAIN r.mine BY <2>2, <2>7, RowsDiffer DEF Put
  <2>9. \A f \in r.events : ~Past(r, f) BY <2>3, <2>7 DEF Past
  <2>10. ~HoldsJob(r.mine) BY <2>8 DEF HoldsJob
  <2>11. CASE Set(t, r) BY <2>1, <2>9, <2>10, <2>11, StreakMove
  <2>. QED BY <1>3, <2>1, <2>6, <2>11
<1>. QED BY <1>4, <1>5, <1>6, <1>7, <1>8, <1>9, <1>10

\* A commit: the job's row brings its streak with it, and the failures that make it one.
LEMMA StreakCommit ==
    ASSUME TxInv, StreakInv, NEW t \in Sessions, NEW o, o = tx[t], Commit(t)
    PROVE  StreakInv'
<1>1. /\ o.pc = "commit" /\ Set(t, NoTx) /\ crossed' = crossed /\ events' = events \cup o.events
  BY DEF Commit, At
<1>2. Mine(o.mine) /\ Committed(eventId) BY Before
<1>3. tx'[t] = NoTx /\ \A u \in Sessions \ {t} : tx'[u] = tx[u] BY <1>1 DEF TxInv, Set
<1>4. db'[JobRow] = View(t, JobRow) BY <1>2, RowsThere DEF Commit, Committed
<1>5. ASSUME NEW u \in Sessions, NEW e \in tx'[u].events PROVE u # t
  BY <1>3, <1>5, NoTxIs
<1>6. ASSUME NEW u \in Sessions, NEW e \in tx'[u].events, Past(tx'[u], e), JobRow \in DOMAIN tx'[u].mine
      PROVE  tx'[u].mine[JobRow].failed = 0
  BY <1>3, <1>5, <1>6 DEF StreakInv
<1>7. ASSUME NEW S, NEW T, S \subseteq T, Overtaken(S),
             \A e \in o.events : e.type = "run.succeeded" => FailedAfter(S, e)
      PROVE  Overtaken(T)'
  <2>1. \A e \in events' : e.type = "run.succeeded" => FailedAfter(S, e) BY <1>1, <1>7 DEF Overtaken
  <2>2. ASSUME NEW u \in Sessions, NEW e \in tx'[u].events, Past(tx'[u], e), JobRow \notin DOMAIN tx'[u].mine
        PROVE  FailedAfter(S, e)
    BY <1>3, <1>5, <1>7, <2>2 DEF Overtaken
  <2>. QED BY <1>7, <2>1, <2>2 DEF Overtaken, FailedAfter, Past
<1>8. CASE JobRow \in DOMAIN o.mine
  <2>1. db'[JobRow] = o.mine[JobRow] /\ db[JobRow].there BY <1>2, <1>4, <1>8 DEF View, Mine
  <2>2. ASSUME db'[JobRow].there, ~crossed', db'[JobRow].failed # 0 PROVE Overtaken(events)'
    <3>1. HoldsJob(o.mine) /\ o.mine[JobRow].failed # 0 BY <1>8, <2>1, <2>2 DEF HoldsJob
    <3>2. Overtaken(events \cup o.events) BY <1>1, <2>1, <2>2, <3>1 DEF StreakInv
    <3>3. \A e \in o.events : e.type # "run.succeeded" BY <1>1, <1>8, <3>1 DEF StreakInv, Past
    <3>4. PICK S : S = events \cup o.events OBVIOUS
    <3>5. Overtaken(S)' BY <1>7, <3>2, <3>3, <3>4
    <3>. QED BY <1>1, <3>4, <3>5 DEF Overtaken
  <2>3. ASSUME NEW u \in Sessions PROVE ~HoldsJob(tx'[u].mine)
    <3>1. CASE u = t BY <1>3, <3>1, NoTxIs DEF HoldsJob
    <3>2. CASE u # t
      <4>1. Apart(tx[t], tx[u]) BY <3>2 DEF TxInv
      <4>. QED BY <1>3, <1>8, <3>2, <4>1 DEF Apart, HoldsJob
    <3>. QED BY <3>1, <3>2
  <2>. QED BY <1>6, <2>2, <2>3 DEF StreakInv, Past, HoldsJob
<1>9. CASE JobRow \notin DOMAIN o.mine
  <2>1. db'[JobRow] = db[JobRow] BY <1>4, <1>9 DEF View
  <2>2. ASSUME NEW S, Overtaken(S) PROVE \A e \in o.events : e.type = "run.succeeded" => FailedAfter(S, e)
    BY <1>1, <1>9, <2>2 DEF Overtaken, Past
  <2>3. ASSUME db'[JobRow].there, ~crossed', db'[JobRow].failed # 0 PROVE Overtaken(events)'
    <3>1. Overtaken(events) BY <1>1, <2>1, <2>3 DEF StreakInv
    <3>2. PICK T : T = events' OBVIOUS
    <3>3. Overtaken(T)' BY <1>1, <1>7, <2>2, <3>1, <3>2
    <3>. QED BY <3>2, <3>3 DEF Overtaken
  <2>4. ASSUME db'[JobRow].there, ~crossed', NEW u \in Sessions,
               HoldsJob(tx'[u].mine), tx'[u].mine[JobRow].failed # 0, tx'[u].pc # "event"
        PROVE  Overtaken(events \cup tx[u].events)'
    <3>1. u # t BY <1>3, <2>4, NoTxIs DEF HoldsJob
    <3>2. tx'[u] = tx[u] BY <1>3, <3>1
    <3>3. PICK S, T : S = events \cup tx[u].events /\ T = events' \cup tx'[u].events OBVIOUS
    <3>4. Overtaken(S) BY <1>1, <2>1, <2>4, <3>2, <3>3 DEF StreakInv
    <3>5. S \subseteq T BY <1>1, <3>2, <3>3
    <3>6. Overtaken(T)' BY <1>7, <2>2, <3>4, <3>5
    <3>. QED BY <3>3, <3>6 DEF Overtaken
  <2>. QED BY <1>6, <2>3, <2>4 DEF StreakInv, Past, HoldsJob
<1>. QED BY <1>8, <1>9

LEMMA StreakNext ==
    ASSUME TxInv, StreakInv, [PgNext]_pgVars
    PROVE  StreakInv'
<1>1. ASSUME NEW t \in Sessions, Step(t) PROVE StreakInv'
  <2>1. PICK o : o = tx[t] OBVIOUS
  <2>. QED BY <1>1, <2>1, StreakRuns, StreakSuccess, StreakEnds, StreakDeletes, StreakReleases, StreakCommit
           DEF Step
<1>2. ASSUME NEW t \in Sessions, Start(t) PROVE StreakInv'
  <2>1. UNCHANGED <<db, events, crossed>> BY <1>2 DEF Start, Rest
  <2>2. ASSUME NEW op, NEW id, NEW status, NEW pc, Begin(t, op, id, status, pc) PROVE StreakInv'
    <3>1. PICK r : r = [NoTx EXCEPT !.op = op, !.id = id, !.status = status, !.at = begun + 1, !.pc = pc]
      OBVIOUS
    <3>2. Set(t, r) BY <2>2, <3>1 DEF Begin
    <3>3. r.events = {} /\ JobRow \notin DOMAIN r.mine BY <3>1 DEF NoTx, NoRows
    <3>. QED BY <2>1, <3>2, <3>3, StreakReset
  <2>3. ASSUME NEW c, NEW h,
               Set(t, [NoTx EXCEPT !.op = "release", !.id = c, !.ev = h, !.at = begun + 1, !.pc = "peek"])
        PROVE  StreakInv'
    <3>1. PICK r : r = [NoTx EXCEPT !.op = "release", !.id = c, !.ev = h, !.at = begun + 1, !.pc = "peek"]
      OBVIOUS
    <3>2. Set(t, r) BY <2>3, <3>1
    <3>3. r.events = {} /\ JobRow \notin DOMAIN r.mine BY <3>1 DEF NoTx, NoRows
    <3>. QED BY <2>1, <3>2, <3>3, StreakReset
  <2>. QED BY <1>2, <2>2, <2>3 DEF Start
<1>3. ASSUME NEW t \in Sessions, Rollback(t) PROVE StreakInv'
  <2>1. UNCHANGED <<db, events, crossed>> /\ Set(t, NoTx) BY <1>3 DEF Rollback, Rest
  <2>. QED BY <2>1, NoTxIs, StreakReset
<1>4. ASSUME NEW t \in Sessions, NEW i \in Runs, FailUnreadableJob(t, i) PROVE StreakInv'
  <2>1. UNCHANGED <<db, events, crossed>> BY <1>4 DEF FailUnreadableJob, Rest
  <2>2. PICK v : v = [status |-> "failed", ended |-> begun + 1, claims |-> 0, there |-> TRUE] OBVIOUS
  <2>3. PICK r : r = [NoTx EXCEPT !.op = "unreadable", !.id = i, !.status = "failed", !.at = begun + 1,
                           !.pc = "prev", !.mine = Put(NoRows, RunRow(i), v)] OBVIOUS
  <2>4. Set(t, r) BY <1>4, <2>2, <2>3 DEF FailUnreadableJob
  <2>5. r.events = {} /\ r.mine = Put(NoRows, RunRow(i), v) BY <2>3 DEF NoTx
  <2>6. JobRow \notin DOMAIN r.mine BY <2>5, RowsDiffer DEF Put, NoRows
  <2>. QED BY <2>1, <2>4, <2>5, <2>6, StreakReset
<1>5. ASSUME UNCHANGED <<tx, events, crossed>>, db'[JobRow] = db[JobRow] PROVE StreakInv'
  BY <1>5 DEF StreakInv, Overtaken, FailedAfter, Past, HoldsJob
<1>6. ASSUME NEW i \in Runs, EnqueueRun(i) PROVE StreakInv'
  <2>1. UNCHANGED <<tx, events, crossed>> /\ db'[JobRow] = db[JobRow]
    BY <1>6, RowsDiffer DEF EnqueueRun
  <2>. QED BY <1>5, <2>1
<1>7. CASE UNCHANGED pgVars
  <2>1. UNCHANGED <<tx, events, crossed>> /\ db'[JobRow] = db[JobRow] BY <1>7 DEF pgVars
  <2>. QED BY <1>5, <2>1
<1>. QED BY <1>1, <1>2, <1>3, <1>4, <1>6, <1>7 DEF PgNext

\* Some events have a latest one.
LEMMA LatestIn ==
    ASSUME TxInv, NEW S, S \subseteq events, S # {}
    PROVE  \E e \in S : \A f \in S : f.id <= e.id
<1>1. PICK n : n = eventId OBVIOUS
<1>2. n \in Nat /\ \A e \in S : e.id \in 1 .. n - 1 BY <1>1 DEF TxInv, Committed
<1>3. PICK T : T = {n - e.id : e \in S} OBVIOUS
<1>4. T \in SUBSET Nat /\ T # {} BY <1>2, <1>3
<1>5. PICK k \in T : \A y \in T : k <= y BY <1>4, LeastNatural
<1>6. PICK e \in S : k = n - e.id BY <1>3, <1>5
<1>7. ASSUME NEW f \in S PROVE f.id <= e.id
  <2>1. n - e.id <= n - f.id BY <1>3, <1>5, <1>6
  <2>. QED BY <1>2, <2>1
<1>. QED BY <1>7

LEMMA StreakInit ==
    ASSUME PgInit
    PROVE  StreakInv
<1>1. \A e \in events : e.type = "run.failed" BY DEF PgInit
<1>2. ASSUME NEW t \in Sessions PROVE tx[t] = NoTx BY DEF PgInit
<1>3. \A t \in Sessions : tx[t].events = {} /\ JobRow \notin DOMAIN tx[t].mine BY <1>2, NoTxIs
<1>. QED BY <1>1, <1>3 DEF StreakInv, Overtaken, HoldsJob

\* A job's failing streak agrees with its events: with nothing under way and the last run recorded a
\* success, the job is not failing, unless a success read the streak while a failure counted in it was
\* not committed.  streakOf and endStreak write the job's row in the transaction that inserts the
\* event, so a streak that is left has a failure recorded after every success.
THEOREM PgStreakAgrees == PgSpec => []StreakAgrees
<1>1. PgInit => StreakInv BY StreakInit
<1>2. TxInv /\ StreakInv /\ [PgNext]_pgVars => StreakInv' BY StreakNext
<1>3. TxInv /\ StreakInv => StreakAgrees
  <2> SUFFICES ASSUME TxInv, StreakInv PROVE StreakAgrees OBVIOUS
  <2>1. PICK ran : ran = {e \in events : e.type \in {"run.failed", "run.succeeded"}} OBVIOUS
  <2>2. PICK latest : latest = CHOOSE e \in ran : \A f \in ran : f.id <= e.id OBVIOUS
  <2>3. ASSUME ran # {}, latest.type = "run.succeeded", db[JobRow].there, ~crossed PROVE db[JobRow].failed = 0
    <3>1. \E e \in ran : \A f \in ran : f.id <= e.id BY <2>1, <2>3, LatestIn
    <3>2. latest \in ran /\ \A f \in ran : f.id <= latest.id BY <2>2, <3>1
    <3>3. SUFFICES ASSUME Overtaken(events) PROVE FALSE BY <2>3 DEF StreakInv
    <3>4. PICK f \in events : f.type = "run.failed" /\ f.id > latest.id
      BY <2>1, <2>3, <3>2, <3>3 DEF Overtaken, FailedAfter
    <3>5. f.id <= latest.id BY <2>1, <3>2, <3>4
    <3>6. f.id \in Nat /\ latest.id \in Nat BY <2>1, <3>2, <3>4 DEF TxInv, Committed, Event
    <3>. QED BY <3>4, <3>5, <3>6
  <2>. QED BY <2>1, <2>2, <2>3 DEF StreakAgrees, TxInv
<1>. QED BY <1>1, <1>2, <1>3, PgInvariant, PTL DEF PgSpec

-----------------------------------------------------------------------------
(* Rows are taken in one order.                                            *)

\* The order: by table, then by id.
Rank(x) == CASE x[1] = "run" -> 1 [] x[1] = "job" -> 2 [] x[1] = "alert" -> 3
             [] x[1] = "del" -> 4 [] OTHER -> 5
Under(x, y) == Rank(x) < Rank(y) \/ (Rank(x) = Rank(y) /\ x[2] < y[2])

\* Every row held is of one of the tables.
Within(m, tables) == \A x \in DOMAIN m : x[1] \in tables

\* As transaction o sees it, delivery d is not pending any more.
Settled(o, d) ==
    IF DelRow(d) \in DOMAIN o.mine THEN o.mine[DelRow(d)].state = "failed" ELSE db[DelRow(d)].state = "failed"

\* The rows a transaction holds come before those it has still to take.
Ranked(o) ==
    /\ o.pc \in RunPcs \cup {"previous", "recover", "end", "drop", "states"} => Within(o.mine, {"run", "job"})
    /\ o.pc \in {"pace", "dropping"} =>
        /\ Within(o.mine, {"run", "job", "alert"})
        /\ \A x \in DOMAIN o.mine : x[1] = "alert" => \A c \in o.todo : x[2] < c
    /\ o.pc = "unschedule" => o.jobless \/ JobRow \in DOMAIN o.mine
    /\ o.pc = "runs" => Within(o.mine, {"run"}) /\ \A x \in DOMAIN o.mine : \A y \in o.todo : x[2] < y[2]
    /\ o.pc = "job" => Within(o.mine, {"run"})
    /\ o.pc = "alerts" =>
        /\ Within(o.mine, {"run", "job", "alert"})
        /\ \A x \in DOMAIN o.mine : x[1] = "alert" => \A y \in o.todo : x[2] < y[2]
    /\ o.pc \in {"deliveries", "channel"} => Within(o.mine, {"run", "job", "alert", "del"})
    /\ o.pc = "deliveries" =>
        \A d, e \in Dels : DelRow(d) \in DOMAIN o.mine /\ e <= d => Settled(o, e)

Ordered == \A t \in Sessions : Ranked(tx[t])

\* Where a transaction waits for no row while it holds others of which more is to be known.
FreePcs == ClearPcs \cup {"claim", "held", "send", "drop one", "commit"}

LEMMA FreeRanked ==
    ASSUME NEW o, o.pc \in FreePcs
    PROVE  Ranked(o)
BY DEF Ranked, FreePcs, ClearPcs, RunPcs

\* A row is its table and its id.
LEMMA RowParts ==
    /\ \A a : RunRow(a)[1] = "run" /\ AlertRow(a)[1] = "alert" /\ DelRow(a)[1] = "del" /\ ChannelRow(a)[1] = "channel"
    /\ \A a : RunRow(a)[2] = a /\ AlertRow(a)[2] = a /\ DelRow(a)[2] = a /\ ChannelRow(a)[2] = a
    /\ JobRow[1] = "job" /\ JobRow[2] = 0
BY DEF RunRow, AlertRow, DelRow, ChannelRow, JobRow

LEMMA RowIs ==
    ASSUME NEW x \in Rows
    PROVE  /\ x[2] \in Nat
           /\ x[1] \in {"run", "job", "alert", "del", "channel"}
           /\ x[1] = "run" => x[2] \in Runs /\ x = RunRow(x[2])
           /\ x[1] = "job" => x = JobRow
           /\ x[1] = "alert" => x[2] \in Channels /\ x = AlertRow(x[2])
           /\ x[1] = "del" => x[2] \in Dels /\ x = DelRow(x[2])
           /\ x[1] = "channel" => x[2] \in Channels /\ x = ChannelRow(x[2])
<1>1. CASE \E r \in Runs : x = RunRow(r) BY <1>1, RowParts, PgAssumption
<1>2. CASE x = JobRow BY <1>2, RowParts
<1>3. CASE \E c \in Channels : x = AlertRow(c) \/ x = ChannelRow(c) BY <1>3, RowParts, PgAssumption
<1>4. CASE \E d \in Dels : x = DelRow(d) BY <1>4, RowParts, PgAssumption
<1>. QED BY <1>1, <1>2, <1>3, <1>4, RowsAre

\* A step of one session that commits nothing.
LEMMA OrderMove ==
    ASSUME TxInv, Ordered, NEW t \in Sessions, NEW r, Set(t, r), Ranked(r), UNCHANGED db
    PROVE  Ordered'
<1>1. tx'[t] = r /\ \A u \in Sessions \ {t} : tx'[u] = tx[u]
  BY DEF TxInv, Set
<1>2. ASSUME NEW u \in Sessions PROVE Ranked(tx[u])'
  <2>1. PICK o : o = tx'[u] OBVIOUS
  <2>2. Ranked(o) BY <1>1, <2>1 DEF Ordered
  <2>3. Ranked(o)' BY <2>2 DEF Ranked, Settled
  <2>. QED BY <2>1, <2>3 DEF Ranked, Settled
<1>. QED BY <1>2 DEF Ordered

LEMMA OrderFree ==
    ASSUME TxInv, Ordered, NEW t \in Sessions, NEW r, Set(t, r), r.pc \in FreePcs, UNCHANGED db
    PROVE  Ordered'
BY FreeRanked, OrderMove

LEMMA NoTxFree == NoTx.pc \in FreePcs
BY DEF NoTx, FreePcs, ClearPcs

\* What a transaction is after it has taken a row.
LEMMA TakeIs ==
    ASSUME NEW t, NEW x, NEW v, NEW rec, Shape(rec), Take(t, x, v, rec)
    PROVE  \E r : /\ Set(t, r) /\ Shape(r) /\ r.pc = rec.pc /\ r.todo = rec.todo /\ r.jobless = rec.jobless
                  /\ r.mine = Put(rec.mine, x, v) /\ DOMAIN r.mine = DOMAIN rec.mine \cup {x}
<1>1. PICK r : r = [rec EXCEPT !.mine = Put(@, x, v)] OBVIOUS
<1>2. /\ Shape(r) /\ r.pc = rec.pc /\ r.todo = rec.todo /\ r.jobless = rec.jobless
      /\ r.mine = Put(rec.mine, x, v)
  BY <1>1 DEF Shape
<1>3. DOMAIN r.mine = DOMAIN rec.mine \cup {x} BY <1>2 DEF Put
<1>. QED BY <1>1, <1>2, <1>3 DEF Take

LEMMA GoFields ==
    ASSUME TxInv, NEW t \in Sessions, NEW o, o = tx[t], NEW pc, NEW q, q = Go(t, pc)
    PROVE  /\ Shape(q) /\ q.pc = pc /\ q.mine = o.mine /\ q.todo = o.todo /\ q.jobless = o.jobless
           /\ q.events = o.events /\ q.queued = o.queued /\ q.id = o.id /\ q.op = o.op /\ q.ev = o.ev /\ q.at = o.at
<1>1. Shape(o) BY Before
<1>. QED BY <1>1 DEF Shape, Go

\* A statement after which the transaction is at a free place.
LEMMA OrderGo ==
    ASSUME TxInv, Ordered, NEW t \in Sessions, NEW q, Shape(q), q.pc \in FreePcs, UNCHANGED db,
           Set(t, q) \/ \E x, v : Take(t, x, v, q)
    PROVE  Ordered'
<1>1. CASE Set(t, q) BY <1>1, OrderFree
<1>2. CASE \E x, v : Take(t, x, v, q)
  <2>1. PICK x, v : Take(t, x, v, q) BY <1>2
  <2>2. PICK r : Set(t, r) /\ r.pc = q.pc BY <2>1, TakeIs
  <2>. QED BY <2>2, OrderFree
<1>. QED BY <1>1, <1>2

\* Claims, deliveries, releases and what ends a transaction.
LEMMA OrderClaims ==
    ASSUME TxInv, Ordered, NEW t \in Sessions, NEW o, o = tx[t],
           \/ ClaimPick(t) \/ ClaimUpdate(t) \/ Unschedule(t) \/ DeleteChannelRow(t)
           \/ ClaimDue(t) \/ FailDeliveryAndEmit(t)
    PROVE  Ordered'
<1>0. Shape(o) BY Before
<1>1. CASE ClaimPick(t)
  <2>1. UNCHANGED db BY <1>1 DEF ClaimPick, Rest
  <2>2. PICK q, a, v : /\ q = [Go(t, "claim") EXCEPT !.id = a]
                       /\ Set(t, NoTx) \/ Take(t, RunRow(a), v, q)
    BY <1>1 DEF ClaimPick
  <2>3. Shape(q) /\ q.pc = "claim" BY <1>0, <2>2 DEF Shape, Go
  <2>4. q.pc \in FreePcs BY <2>3 DEF FreePcs
  <2>5. CASE Set(t, NoTx) BY <2>1, <2>5, NoTxFree, OrderFree
  <2>6. CASE Take(t, RunRow(a), v, q) BY <2>1, <2>3, <2>4, <2>6, OrderGo
  <2>. QED BY <2>2, <2>5, <2>6
<1>2. CASE ClaimUpdate(t) \/ Unschedule(t) \/ DeleteChannelRow(t)
  <2>1. UNCHANGED db BY <1>2 DEF ClaimUpdate, Unschedule, DeleteChannelRow, Rest
  <2>2. PICK q : q = Go(t, "commit") OBVIOUS
  <2>3. Set(t, q) \/ \E x, v : Take(t, x, v, q)
    BY <1>2, <2>2 DEF ClaimUpdate, Unschedule, DeleteChannelRow
  <2>4. Shape(q) /\ q.pc = "commit" BY <2>2, GoFields
  <2>5. q.pc \in FreePcs BY <2>4 DEF FreePcs
  <2>. QED BY <2>1, <2>3, <2>4, <2>5, OrderGo
<1>3. CASE ClaimDue(t)
  <2>1. UNCHANGED db BY <1>3 DEF ClaimDue, Rest
  <2>2. PICK m, r : r = [Go(t, "commit") EXCEPT !.mine = m] /\ Set(t, r) BY <1>3 DEF ClaimDue
  <2>3. r.pc = "commit" BY <1>0, <2>2 DEF Shape, Go
  <2>4. r.pc \in FreePcs BY <2>3 DEF FreePcs
  <2>. QED BY <2>1, <2>2, <2>4, OrderFree
<1>4. CASE FailDeliveryAndEmit(t)
  <2>1. UNCHANGED db BY <1>4 DEF FailDeliveryAndEmit
  <2>2. PICK q : q = Emit(Go(t, "commit"), "notification.failed", tx[t].id) OBVIOUS
  <2>3. Set(t, NoTx) \/ \E x, v : Take(t, x, v, q) BY <1>4, <2>2 DEF FailDeliveryAndEmit
  <2>4. Shape(q) /\ q.pc = "commit" BY <1>0, <2>2 DEF Shape, Go, Emit
  <2>5. q.pc \in FreePcs BY <2>4 DEF FreePcs
  <2>6. CASE Set(t, NoTx) BY <2>1, <2>6, NoTxFree, OrderFree
  <2>7. CASE \E x, v : Take(t, x, v, q) BY <2>1, <2>4, <2>5, <2>7, OrderGo
  <2>. QED BY <2>3, <2>6, <2>7
<1>. QED BY <1>1, <1>2, <1>3, <1>4

LEMMA OrderReleases ==
    ASSUME TxInv, Ordered, NEW t \in Sessions, NEW o, o = tx[t],
           \/ ReleasePeek(t) \/ ReleaseLock(t) \/ ReleaseHeld(t) \/ ReleaseSend(t) \/ ReleaseDrop(t)
    PROVE  Ordered'
<1>0. Shape(o) BY Before
<1>1. UNCHANGED db
  BY DEF ReleasePeek, ReleaseLock, ReleaseHeld, ReleaseSend, ReleaseDrop, Rest
<1>2. CASE ReleaseSend(t)
  <2>1. PICK q : q = Queue(Go(t, "commit"), tx[t].ev, tx[t].id) OBVIOUS
  <2>2. \E x, v : Take(t, x, v, q) BY <1>2, <2>1 DEF ReleaseSend
  <2>3. Shape(q) /\ q.pc = "commit" BY <1>0, <2>1 DEF Shape, Go, Queue
  <2>4. q.pc \in FreePcs BY <2>3 DEF FreePcs
  <2>. QED BY <1>1, <2>2, <2>3, <2>4, OrderGo
<1>3. CASE ReleasePeek(t) \/ ReleaseLock(t) \/ ReleaseHeld(t) \/ ReleaseDrop(t)
  <2>1. PICK pc, q : /\ q = Go(t, pc) /\ pc \in {"lock", "drop one", "held", "send", "commit"}
                     /\ Set(t, NoTx) \/ Set(t, q) \/ \E x, v : Take(t, x, v, q)
    <3>1. CASE ReleasePeek(t) BY <3>1 DEF ReleasePeek
    <3>2. CASE ReleaseLock(t) BY <3>2 DEF ReleaseLock
    <3>3. CASE ReleaseHeld(t) BY <3>3 DEF ReleaseHeld
    <3>4. CASE ReleaseDrop(t) BY <3>4 DEF ReleaseDrop
    <3>. QED BY <1>3, <3>1, <3>2, <3>3, <3>4
  <2>2. Shape(q) /\ q.pc = pc
    <3>1. q = Go(t, pc) BY <2>1
    <3>. QED BY <3>1, GoFields
  <2>3. q.pc \in FreePcs BY <2>1, <2>2 DEF FreePcs, ClearPcs
  <2>4. CASE Set(t, NoTx) BY <1>1, <2>4, NoTxFree, OrderFree
  <2>5. CASE Set(t, q) \/ \E x, v : Take(t, x, v, q) BY <1>1, <2>2, <2>3, <2>5, OrderGo
  <2>. QED BY <2>1, <2>4, <2>5
<1>. QED BY <1>2, <1>3

\* A transaction that holds rows of runs and the job alone.
LEMMA EarlyRanked ==
    ASSUME NEW r, r.pc \in RunPcs \cup {"previous", "recover", "end", "drop", "states", "pace", "dropping", "alerts"},
           Within(r.mine, {"run", "job"})
    PROVE  Ranked(r)
BY DEF Ranked, Within, RunPcs

\* A step that keeps to the runs and the job.
LEMMA OrderEarly ==
    ASSUME TxInv, Ordered, NEW t \in Sessions, NEW o, o = tx[t], NEW q, Shape(q), q.mine = o.mine,
           Within(o.mine, {"run", "job"}), UNCHANGED db,
           q.pc \in RunPcs \cup {"previous", "recover", "end", "drop", "states", "pace", "dropping", "alerts"},
           Set(t, q) \/ \E x, v : Take(t, x, v, q) /\ x[1] \in {"run", "job"}
    PROVE  Ordered'
<1>1. CASE Set(t, q) BY <1>1, EarlyRanked, OrderMove
<1>2. CASE \E x, v : Take(t, x, v, q) /\ x[1] \in {"run", "job"}
  <2>1. PICK x, v : Take(t, x, v, q) /\ x[1] \in {"run", "job"} BY <1>2
  <2>2. PICK r : Set(t, r) /\ r.pc = q.pc /\ DOMAIN r.mine = DOMAIN o.mine \cup {x} BY <2>1, TakeIs
  <2>3. Within(r.mine, {"run", "job"}) BY <2>1, <2>2 DEF Within
  <2>. QED BY <2>2, <2>3, EarlyRanked, OrderMove
<1>. QED BY <1>1, <1>2

\* A run ends, up to what its channels are told.
LEMMA OrderRuns ==
    ASSUME TxInv, Ordered, NEW t \in Sessions, NEW o, o = tx[t],
           \/ PgFinishRun(t) \/ AfterSucceeded(t) \/ StreakOf(t) \/ InsertFailed(t) \/ InsertSucceeded(t)
           \/ Recovering(t) \/ InsertRecovered(t) \/ EndStreak(t)
    PROVE  Ordered'
<1>0. Shape(o) /\ Pcs(o) /\ Ranked(o) BY Before DEF Ordered
<1>1. CASE PgFinishRun(t)
  <2>1. UNCHANGED db /\ o.pc = "run" BY <1>1 DEF PgFinishRun, Rest, At
  <2>2. PICK pc, q, v : /\ pc \in {"prev", "ok"} /\ q = Go(t, pc)
                        /\ Set(t, NoTx) \/ Take(t, RunRow(o.id), v, q)
    BY <1>1 DEF PgFinishRun
  <2>3. Shape(q) /\ q.pc = pc /\ q.mine = o.mine BY <2>2, GoFields
  <2>4. DOMAIN o.mine = {} BY <1>0, <2>1 DEF Pcs, ClearPcs
  <2>5. Within(o.mine, {"run", "job"}) BY <2>4 DEF Within
  <2>6. RunRow(o.id)[1] = "run" BY RowParts
  <2>7. CASE Set(t, NoTx) BY <2>1, <2>7, NoTxFree, OrderFree
  <2>8. CASE Take(t, RunRow(o.id), v, q) BY <2>1, <2>2, <2>3, <2>5, <2>6, <2>8, OrderEarly DEF RunPcs
  <2>. QED BY <2>2, <2>7, <2>8
<1>2. CASE ~PgFinishRun(t)
  <2>1. UNCHANGED db /\ o.pc \in RunPcs \cup {"previous", "recover", "end"}
    BY <1>2 DEF AfterSucceeded, StreakOf, InsertFailed, InsertSucceeded, Recovering, InsertRecovered, EndStreak,
                Rest, At, RunPcs
  <2>2. Within(o.mine, {"run", "job"}) BY <1>0, <2>1 DEF Ranked
  <2>3. JobRow[1] = "job" BY RowParts
  <2>4. CASE AfterSucceeded(t)
    <3>1. PICK f, q : q = [Go(t, "streak") EXCEPT !.fresh = f] /\ Set(t, q) BY <2>4 DEF AfterSucceeded
    <3>2. Shape(q) /\ q.pc = "streak" /\ q.mine = o.mine BY <1>0, <3>1 DEF Shape, Go
    <3>. QED BY <2>1, <2>2, <3>1, <3>2, OrderEarly DEF RunPcs
  <2>5. CASE StreakOf(t)
    <3>1. CASE Set(t, [Go(t, "event") EXCEPT !.jobless = TRUE])
      <4>1. PICK q : q = [Go(t, "event") EXCEPT !.jobless = TRUE] OBVIOUS
      <4>2. Shape(q) /\ q.pc = "event" /\ q.mine = o.mine BY <1>0, <4>1 DEF Shape, Go
      <4>. QED BY <2>1, <2>2, <3>1, <4>1, <4>2, OrderEarly DEF RunPcs
    <3>2. CASE \E v : Take(t, JobRow, v, Go(t, "event"))
      <4>1. PICK q : q = Go(t, "event") OBVIOUS
      <4>2. Shape(q) /\ q.pc = "event" /\ q.mine = o.mine BY <4>1, GoFields
      <4>. QED BY <2>1, <2>2, <2>3, <3>2, <4>1, <4>2, OrderEarly DEF RunPcs
    <3>. QED BY <2>5, <3>1, <3>2 DEF StreakOf
  <2>6. CASE InsertFailed(t)
    <3>1. PICK q : q = [Emit(Go(t, "pace"), "run.failed", tx[t].id) EXCEPT !.todo = Routed(t)] OBVIOUS
    <3>2. Shape(q) /\ q.pc = "pace" /\ q.mine = o.mine BY <1>0, <3>1 DEF Shape, Go, Emit
    <3>3. Set(t, q) BY <2>6, <3>1 DEF InsertFailed
    <3>. QED BY <2>1, <2>2, <3>2, <3>3, OrderEarly
  <2>7. CASE InsertSucceeded(t)
    <3>1. PICK q : q = Emit(Go(t, "previous"), "run.succeeded", tx[t].id) OBVIOUS
    <3>2. Shape(q) /\ q.pc = "previous" /\ q.mine = o.mine BY <1>0, <3>1 DEF Shape, Go, Emit
    <3>3. Set(t, q) BY <2>7, <3>1 DEF InsertSucceeded
    <3>. QED BY <2>1, <2>2, <3>2, <3>3, OrderEarly
  <2>8. CASE Recovering(t)
    <3>1. PICK pc, q : pc \in {"end", "recover"} /\ q = Go(t, pc) /\ Set(t, q) BY <2>8 DEF Recovering
    <3>2. Shape(q) /\ q.pc = pc /\ q.mine = o.mine BY <3>1, GoFields
    <3>. QED BY <2>1, <2>2, <3>1, <3>2, OrderEarly
  <2>9. CASE InsertRecovered(t)
    <3>1. PICK rec : rec = Emit(Go(t, "end"), "run.recovered", tx[t].id) OBVIOUS
    <3>2. Shape(rec) /\ rec.pc = "end" /\ rec.mine = o.mine BY <1>0, <3>1 DEF Shape, Go, Emit
    <3>3. PICK told, q : /\ q = [rec EXCEPT !.queued = @ \cup told]
                         /\ Set(t, q) \/ Take(t, JobRow, View(t, JobRow), q)
      BY <2>9, <3>1 DEF InsertRecovered
    <3>4. Shape(q) /\ q.pc = "end" /\ q.mine = o.mine BY <3>2, <3>3 DEF Shape
    <3>. QED BY <2>1, <2>2, <2>3, <3>3, <3>4, OrderEarly
  <2>10. CASE EndStreak(t)
    <3>1. PICK q : q = Go(t, "drop") OBVIOUS
    <3>2. Shape(q) /\ q.pc = "drop" /\ q.mine = o.mine BY <3>1, GoFields
    <3>3. Set(t, q) \/ \E v : Take(t, JobRow, v, q) BY <2>10, <3>1 DEF EndStreak
    <3>. QED BY <2>1, <2>2, <2>3, <3>2, <3>3, OrderEarly
  <2>. QED BY <1>2, <2>4, <2>5, <2>6, <2>7, <2>8, <2>9, <2>10
<1>. QED BY <1>1, <1>2

\* The oldest id is before the others.
LEMMA OldestFirst ==
    ASSUME NEW S, S \subseteq Nat, S # {}, NEW y \in S
    PROVE  Oldest(S) <= y /\ (y # Oldest(S) => Oldest(S) < y)
<1>1. \E r \in S : \A q \in S : r <= q BY LeastNatural
<1>2. PICK x : x = Oldest(S) OBVIOUS
<1>3. x \in S /\ \A q \in S : x <= q BY <1>1, <1>2 DEF Oldest
<1>4. x \in Nat /\ y \in Nat /\ x <= y BY <1>3
<1>. QED BY <1>2, <1>4

\* The next channel's state is taken, or passed over.
LEMMA OrderNextChannel ==
    ASSUME TxInv, Ordered, NEW t \in Sessions, NEW o, o = tx[t], o.pc \in {"pace", "dropping"},
           o.todo # {}, NEW c, c = Oldest(o.todo), NEW q, Shape(q), q.pc = o.pc, q.mine = o.mine,
           q.todo = o.todo \ {c}, UNCHANGED db,
           Set(t, q) \/ \E v : Take(t, AlertRow(c), v, q)
    PROVE  Ordered'
<1>1. Pcs(o) /\ Ranked(o) BY Before DEF Ordered
<1>2. /\ Within(o.mine, {"run", "job", "alert"})
      /\ \A x \in DOMAIN o.mine : x[1] = "alert" => \A b \in o.todo : x[2] < b
  BY <1>1 DEF Ranked
<1>3. CASE Set(t, q)
  <2>1. Ranked(q) BY <1>2 DEF Ranked, RunPcs
  <2>. QED BY <1>3, <2>1, OrderMove
<1>4. CASE \E v : Take(t, AlertRow(c), v, q)
  <2>1. PICK v : Take(t, AlertRow(c), v, q) BY <1>4
  <2>2. PICK r : /\ Set(t, r) /\ r.pc = q.pc /\ r.todo = q.todo
                 /\ DOMAIN r.mine = DOMAIN o.mine \cup {AlertRow(c)}
    BY <2>1, TakeIs
  <2>3. AlertRow(c)[1] = "alert" /\ AlertRow(c)[2] = c BY RowParts
  <2>4. Within(r.mine, {"run", "job", "alert"}) BY <1>2, <2>2, <2>3 DEF Within
  <2>5. o.todo \subseteq Nat BY <1>1, PgAssumption DEF Pcs
  <2>6. \A b \in r.todo : c < b BY <2>2, <2>5, OldestFirst
  <2>7. \A x \in DOMAIN r.mine : x[1] = "alert" => \A b \in r.todo : x[2] < b
    BY <1>2, <2>2, <2>3, <2>6
  <2>8. Ranked(r) BY <2>2, <2>4, <2>7 DEF Ranked, RunPcs
  <2>. QED BY <2>2, <2>8, OrderMove
<1>. QED BY <1>3, <1>4

LEMMA OrderTells ==
    ASSUME TxInv, Ordered, NEW t \in Sessions, NEW o, o = tx[t], Pace(t) \/ DropHeld(t)
    PROVE  Ordered'
<1>0. Shape(o) /\ Pcs(o) /\ Ranked(o) BY Before DEF Ordered
<1>1. UNCHANGED db /\ o.pc \in {"pace", "drop", "dropping"} BY DEF Pace, DropHeld, Rest, At
<1>2. PICK c : c = Oldest(o.todo) OBVIOUS
<1>3. CASE Pace(t) /\ o.todo = {}
  <2>1. o.pc = "pace" BY <1>3 DEF Pace, At
  <2>2. PICK pc, q : pc \in {"unschedule", "commit"} /\ q = Go(t, pc) /\ Set(t, q) BY <1>3 DEF Pace
  <2>3. q = Go(t, pc) BY <2>2
  <2>4. q.pc = pc /\ q.mine = o.mine /\ q.jobless = o.jobless BY <2>3, GoFields
  <2>5. o.jobless \/ JobRow \in DOMAIN o.mine BY <1>0, <2>1 DEF Pcs, HoldsJob
  <2>6. Ranked(q) BY <2>2, <2>4, <2>5 DEF Ranked, RunPcs
  <2>. QED BY <1>1, <2>2, <2>6, OrderMove
<1>4. CASE Pace(t) /\ o.todo # {}
  <2>1. o.pc = "pace" BY <1>4 DEF Pace, At
  <2>2. PICK rec, q : /\ rec = [o EXCEPT !.todo = @ \ {c}] /\ q \in {rec, Queue(rec, o.ev, c)}
                      /\ Set(t, q) \/ \E v : Take(t, AlertRow(c), v, q)
    BY <1>2, <1>4 DEF Pace
  <2>3. rec = [o EXCEPT !.todo = @ \ {c}] /\ (q = rec \/ q = Queue(rec, o.ev, c)) BY <2>2
  <2>4. Shape(q) /\ q.pc = o.pc /\ q.mine = o.mine /\ q.todo = o.todo \ {c}
    BY <1>0, <2>3 DEF Shape, Queue
  <2>. QED BY <1>1, <1>2, <1>4, <2>1, <2>2, <2>4, OrderNextChannel
<1>5. CASE DropHeld(t) /\ o.pc = "drop"
  <2>1. PICK held, q : q = [Go(t, "dropping") EXCEPT !.todo = held] /\ Set(t, q)
    BY <1>5 DEF DropHeld, At
  <2>2. Shape(q) /\ q.pc = "dropping" /\ q.mine = o.mine BY <1>0, <2>1 DEF Shape, Go
  <2>3. Within(o.mine, {"run", "job"}) BY <1>0, <1>5 DEF Ranked
  <2>. QED BY <1>1, <2>1, <2>2, <2>3, OrderEarly
<1>6. CASE DropHeld(t) /\ o.pc = "dropping" /\ o.todo = {}
  <2>1. PICK q : q = Go(t, "commit") OBVIOUS
  <2>2. Set(t, q) BY <1>6, <2>1 DEF DropHeld, At
  <2>3. q.pc = "commit" BY <2>1, GoFields
  <2>. QED BY <1>1, <2>2, <2>3, OrderFree DEF FreePcs
<1>7. CASE DropHeld(t) /\ o.pc = "dropping" /\ o.todo # {}
  <2>1. PICK q : q = [o EXCEPT !.todo = @ \ {c}] OBVIOUS
  <2>2. Set(t, q) \/ \E v : Take(t, AlertRow(c), v, q) BY <1>2, <1>7, <2>1 DEF DropHeld, At
  <2>3. Shape(q) /\ q.pc = o.pc /\ q.mine = o.mine /\ q.todo = o.todo \ {c} BY <1>0, <2>1 DEF Shape
  <2>. QED BY <1>1, <1>2, <1>7, <2>2, <2>3, OrderNextChannel
<1>8. Pace(t) => o.pc = "pace" BY DEF Pace, At
<1>9. DropHeld(t) => o.pc \in {"drop", "dropping"} BY DEF DropHeld, At
<1>. QED BY <1>3, <1>4, <1>5, <1>6, <1>7, <1>8, <1>9

\* The next row of a deletion is taken.
LEMMA OrderNextRow ==
    ASSUME TxInv, Ordered, NEW t \in Sessions, NEW o, o = tx[t], o.pc \in {"runs", "alerts"},
           DeleteNext(t), UNCHANGED db
    PROVE  Ordered'
<1>1. Shape(o) /\ Pcs(o) /\ Ranked(o) BY Before DEF Ordered
<1>2. PICK x \in o.todo : /\ \A y \in o.todo : x[2] <= y[2]
                          /\ Take(t, x, [View(t, x) EXCEPT !.there = FALSE], [o EXCEPT !.todo = @ \ {x}])
  BY DEF DeleteNext
<1>3. PICK q, v : q = [o EXCEPT !.todo = @ \ {x}] /\ v = [View(t, x) EXCEPT !.there = FALSE] OBVIOUS
<1>4. Shape(q) /\ q.pc = o.pc /\ q.mine = o.mine /\ q.todo = o.todo \ {x} BY <1>1, <1>3 DEF Shape
<1>5. PICK r : /\ Set(t, r) /\ r.pc = o.pc /\ r.todo = o.todo \ {x}
               /\ DOMAIN r.mine = DOMAIN o.mine \cup {x}
  <2>1. Take(t, x, v, q) BY <1>2, <1>3
  <2>2. PICK r : /\ Set(t, r) /\ r.pc = q.pc /\ r.todo = q.todo
                 /\ DOMAIN r.mine = DOMAIN q.mine \cup {x}
    BY <1>4, <2>1, TakeIs
  <2>. QED BY <1>4, <2>2
<1>6. PICK table \in {"run", "alert"} : /\ o.pc = "runs" <=> table = "run"
                                        /\ o.todo \subseteq Rows /\ \A y \in o.todo : y[1] = table
  <2>1. CASE o.pc = "runs"
    <3>1. o.todo \subseteq RunRows BY <1>1, <2>1 DEF Pcs
    <3>. QED BY <2>1, <3>1, RowParts, RowsThere DEF RunRows
  <2>2. CASE o.pc = "alerts"
    <3>1. o.todo \subseteq {AlertRow(c) : c \in Channels} BY <1>1, <2>2 DEF Pcs
    <3>. QED BY <2>2, <3>1, RowParts, RowsThere
  <2>. QED BY <2>1, <2>2
<1>7. \A y \in r.todo : x[2] < y[2]
  <2> SUFFICES ASSUME NEW y \in r.todo PROVE x[2] < y[2] OBVIOUS
  <2>1. x \in Rows /\ y \in Rows /\ x # y /\ y \in o.todo /\ x[1] = y[1] /\ x[1] \in {"run", "alert"}
    BY <1>5, <1>6
  <2>2. x[2] # y[2] BY <2>1, RowIs
  <2>3. x[2] <= y[2] BY <1>2, <2>1
  <2>4. x[2] \in Nat /\ y[2] \in Nat BY <2>1, RowIs
  <2>. QED BY <2>2, <2>3, <2>4
<1>8. CASE o.pc = "runs"
  <2>1. Within(o.mine, {"run"}) /\ \A z \in DOMAIN o.mine : \A y \in o.todo : z[2] < y[2]
    BY <1>1, <1>8 DEF Ranked
  <2>2. Within(r.mine, {"run"}) BY <1>5, <1>6, <1>8, <2>1 DEF Within
  <2>3. \A z \in DOMAIN r.mine : \A y \in r.todo : z[2] < y[2] BY <1>5, <1>7, <2>1
  <2>4. Ranked(r) BY <1>5, <1>8, <2>2, <2>3 DEF Ranked, RunPcs
  <2>. QED BY <1>5, <2>4, OrderMove
<1>9. CASE o.pc = "alerts"
  <2>1. /\ Within(o.mine, {"run", "job", "alert"})
        /\ \A z \in DOMAIN o.mine : z[1] = "alert" => \A y \in o.todo : z[2] < y[2]
    BY <1>1, <1>9 DEF Ranked
  <2>2. Within(r.mine, {"run", "job", "alert"}) BY <1>5, <1>6, <1>9, <2>1 DEF Within
  <2>3. \A z \in DOMAIN r.mine : z[1] = "alert" => \A y \in r.todo : z[2] < y[2] BY <1>5, <1>7, <2>1
  <2>4. Ranked(r) BY <1>5, <1>9, <2>2, <2>3 DEF Ranked, RunPcs
  <2>. QED BY <1>5, <2>4, OrderMove
<1>. QED BY <1>8, <1>9

\* A job or a channel is deleted.
LEMMA OrderDeletes ==
    ASSUME TxInv, Ordered, NEW t \in Sessions, NEW o, o = tx[t],
           DeleteJobLookup(t) \/ DeleteRuns(t) \/ DeleteJobRow(t) \/ DeleteAlertStates(t)
    PROVE  Ordered'
<1>0. Shape(o) /\ Pcs(o) /\ Ranked(o) BY Before DEF Ordered
<1>1. UNCHANGED db BY DEF DeleteJobLookup, DeleteRuns, DeleteJobRow, DeleteAlertStates, Rest
<1>2. CASE DeleteJobLookup(t)
  <2>1. o.pc = "lookup" BY <1>2 DEF DeleteJobLookup, At
  <2>2. PICK q, seen : /\ q = [Emit(Go(t, "runs"), "job.removed", 0) EXCEPT !.todo = seen]
                       /\ Set(t, NoTx) \/ Set(t, q)
    BY <1>2 DEF DeleteJobLookup
  <2>3. q.pc = "runs" /\ q.mine = o.mine BY <1>0, <2>2 DEF Shape, Go, Emit
  <2>4. DOMAIN o.mine = {} BY <1>0, <2>1 DEF Pcs, ClearPcs
  <2>5. Ranked(q) BY <2>3, <2>4 DEF Ranked, RunPcs, Within
  <2>6. CASE Set(t, NoTx) BY <1>1, <2>6, NoTxFree, OrderFree
  <2>7. CASE Set(t, q) BY <1>1, <2>5, <2>7, OrderMove
  <2>. QED BY <2>2, <2>6, <2>7
<1>3. CASE DeleteRuns(t)
  <2>1. o.pc = "runs" BY <1>3 DEF DeleteRuns, At
  <2>2. CASE DeleteNext(t) BY <1>1, <2>1, <2>2, OrderNextRow
  <2>3. CASE Set(t, Go(t, "job"))
    <3>1. PICK q : q = Go(t, "job") OBVIOUS
    <3>2. q.pc = "job" /\ q.mine = o.mine BY <3>1, GoFields
    <3>3. Ranked(q) BY <1>0, <2>1, <3>2 DEF Ranked, RunPcs
    <3>. QED BY <1>1, <2>3, <3>1, <3>3, OrderMove
  <2>. QED BY <1>3, <2>2, <2>3 DEF DeleteRuns
<1>4. CASE DeleteJobRow(t)
  <2>1. o.pc = "job" BY <1>4 DEF DeleteJobRow, At
  <2>2. PICK q : q = Go(t, "states") OBVIOUS
  <2>3. Shape(q) /\ q.pc = "states" /\ q.mine = o.mine BY <2>2, GoFields
  <2>4. Within(o.mine, {"run", "job"}) BY <1>0, <2>1 DEF Ranked, Within
  <2>5. Set(t, q) \/ \E v : Take(t, JobRow, v, q) BY <1>4, <2>2 DEF DeleteJobRow
  <2>6. JobRow[1] = "job" BY RowParts
  <2>. QED BY <1>1, <2>3, <2>4, <2>5, <2>6, OrderEarly
<1>5. CASE DeleteAlertStates(t)
  <2>1. CASE At(t, "states") /\ Set(t, [Go(t, "alerts") EXCEPT !.todo = Present(t, AlertRows(t))])
    <3>1. PICK q : q = [Go(t, "alerts") EXCEPT !.todo = Present(t, AlertRows(t))] OBVIOUS
    <3>2. Shape(q) /\ q.pc = "alerts" /\ q.mine = o.mine BY <1>0, <3>1 DEF Shape, Go
    <3>3. Within(o.mine, {"run", "job"}) BY <1>0, <2>1 DEF Ranked, At
    <3>. QED BY <1>1, <2>1, <3>1, <3>2, <3>3, OrderEarly
  <2>2. CASE At(t, "alerts") /\ DeleteNext(t) BY <1>1, <2>2, OrderNextRow DEF At
  <2>3. CASE /\ At(t, "alerts")
             /\ Set(t, Go(t, IF tx[t].op = "delete channel" THEN "deliveries" ELSE "commit"))
    <3>1. PICK pc, q : pc \in {"deliveries", "commit"} /\ q = Go(t, pc) /\ Set(t, q) BY <2>3
    <3>2. q = Go(t, pc) BY <3>1
    <3>3. q.pc = pc /\ q.mine = o.mine BY <3>2, GoFields
    <3>4. Within(o.mine, {"run", "job", "alert"}) BY <1>0, <2>3 DEF Ranked, At
    <3>5. Within(q.mine, {"run", "job", "alert", "del"}) BY <3>3, <3>4 DEF Within
    <3>6. \A d \in Dels : DelRow(d) \notin DOMAIN q.mine BY <3>3, <3>4, RowParts DEF Within
    <3>7. Ranked(q) BY <3>1, <3>3, <3>5, <3>6 DEF Ranked, RunPcs
    <3>. QED BY <1>1, <3>1, <3>7, OrderMove
  <2>. QED BY <1>5, <2>1, <2>2, <2>3 DEF DeleteAlertStates
<1>. QED BY <1>2, <1>3, <1>4, <1>5

LEMMA OrderFailPending ==
    ASSUME TxInv, Ordered, NEW t \in Sessions, NEW o, o = tx[t], FailPending(t)
    PROVE  Ordered'
<1>0. Shape(o) /\ Pcs(o) /\ Ranked(o) BY Before DEF Ordered
<1>1. UNCHANGED db /\ o.pc = "deliveries" BY DEF FailPending, Rest, At
<1>2. /\ Within(o.mine, {"run", "job", "alert", "del"})
      /\ \A d, e \in Dels : DelRow(d) \in DOMAIN o.mine /\ e <= d => Settled(o, e)
  BY <1>0, <1>1 DEF Ranked
<1> DEFINE pending == {d \in Dels : tx[t].id = DelChannel /\ View(t, DelRow(d)).state = "pending"}
<1>3. CASE pending = {}
  <2>1. PICK q : q = Go(t, "channel") OBVIOUS
  <2>2. Set(t, q) BY <1>3, <2>1 DEF FailPending
  <2>3. q.pc = "channel" /\ q.mine = o.mine BY <2>1, GoFields
  <2>4. Ranked(q) BY <1>2, <2>3 DEF Ranked, RunPcs
  <2>. QED BY <1>1, <2>2, <2>4, OrderMove
<1>4. CASE pending # {}
  <2>1. PICK d, v : d = Oldest(pending) /\ v = [View(t, DelRow(d)) EXCEPT !.state = "failed"] OBVIOUS
  <2>2. Take(t, DelRow(d), v, o) BY <1>4, <2>1 DEF FailPending
  <2>3. pending \subseteq Nat BY PgAssumption
  <2>4. d \in Dels /\ o.id = DelChannel /\ d \in Nat /\ \A e \in pending : d <= e
    <3>1. d \in pending BY <1>4, <2>1, <2>3, OldestIn
    <3>2. \A e \in pending : d <= e BY <1>4, <2>1, <2>3, OldestFirst
    <3>. QED BY <2>3, <3>1, <3>2
  <2>5. View(t, DelRow(d)) \in DelRec BY <2>4, ViewRec
  <2>6. v.state = "failed" BY <2>1, <2>5 DEF DelRec
  <2>7. PICK r : /\ Set(t, r) /\ r.pc = o.pc /\ r.mine = Put(o.mine, DelRow(d), v)
                 /\ DOMAIN r.mine = DOMAIN o.mine \cup {DelRow(d)}
    BY <1>0, <2>2, TakeIs
  <2>8. Within(r.mine, {"run", "job", "alert", "del"}) BY <1>2, <2>7, RowParts DEF Within
  <2>9. IsPut(r.mine, o.mine, DelRow(d), v) BY <2>7 DEF IsPut, Put
  <2>10. ASSUME NEW b \in Dels, NEW e \in Dels, DelRow(b) \in DOMAIN r.mine, e <= b
         PROVE  Settled(r, e)
    <3>1. CASE e = d BY <2>6, <2>9, <3>1 DEF Settled, IsPut
    <3>2. CASE e # d
      <4>1. Settled(r, e) <=> Settled(o, e) BY <2>9, <3>2, RowsDiffer DEF Settled, IsPut
      <4>2. CASE b = d
        <5>1. e \in Nat /\ ~(d <= e) BY <2>4, <2>10, <3>2, <4>2, PgAssumption
        <5>2. View(t, DelRow(e)).state # "pending" BY <2>4, <5>1
        <5>3. View(t, DelRow(e)).state = "failed" BY <5>2, ViewRec DEF DelRec
        <5>4. Settled(o, e) BY <5>3 DEF Settled, View
        <5>. QED BY <4>1, <5>4
      <4>3. CASE b # d
        <5>1. DelRow(b) \in DOMAIN o.mine BY <2>9, <2>10, <4>3, RowsDiffer DEF IsPut
        <5>. QED BY <1>2, <2>10, <4>1, <5>1
      <4>. QED BY <4>2, <4>3
    <3>. QED BY <3>1, <3>2
  <2>11. Ranked(r) BY <1>1, <2>7, <2>8, <2>10 DEF Ranked, RunPcs
  <2>. QED BY <1>1, <2>7, <2>11, OrderMove
<1>. QED BY <1>3, <1>4

\* A transaction begins.
LEMMA OrderStarts ==
    ASSUME TxInv, Ordered, NEW t \in Sessions, Start(t) \/ \E i \in Runs : FailUnreadableJob(t, i)
    PROVE  Ordered'
<1>1. UNCHANGED db BY DEF Start, FailUnreadableJob, Rest
<1>2. CASE Start(t)
  <2>1. PICK q : Set(t, q) /\ q.pc \in ClearPcs \cup {"states"} /\ DOMAIN q.mine = {}
    <3>1. ASSUME NEW op, NEW id, NEW st, NEW pc \in ClearPcs \cup {"states"}, Begin(t, op, id, st, pc)
          PROVE  \E q : Set(t, q) /\ q.pc \in ClearPcs \cup {"states"} /\ DOMAIN q.mine = {}
      <4>1. PICK q : q = [NoTx EXCEPT !.op = op, !.id = id, !.status = st, !.at = begun + 1, !.pc = pc] OBVIOUS
      <4>2. q.pc = pc /\ DOMAIN q.mine = {} BY <4>1 DEF NoTx, NoRows
      <4>. QED BY <3>1, <4>1, <4>2 DEF Begin
    <3>2. ASSUME NEW c, Set(t, [NoTx EXCEPT !.op = "release", !.id = c, !.ev = db[AlertRow(c)].held,
                                            !.at = begun + 1, !.pc = "peek"])
          PROVE  \E q : Set(t, q) /\ q.pc \in ClearPcs \cup {"states"} /\ DOMAIN q.mine = {}
      <4>1. PICK q : q = [NoTx EXCEPT !.op = "release", !.id = c, !.ev = db[AlertRow(c)].held,
                                      !.at = begun + 1, !.pc = "peek"]
        OBVIOUS
      <4>2. q.pc = "peek" /\ DOMAIN q.mine = {} BY <4>1 DEF NoTx, NoRows
      <4>. QED BY <3>2, <4>1, <4>2 DEF ClearPcs
    <3>3. {"pick", "run", "lookup", "states", "due", "give up"} \subseteq ClearPcs \cup {"states"} BY DEF ClearPcs
    <3>. QED BY <1>2, <3>1, <3>2, <3>3 DEF Start
  <2>2. Ranked(q) BY <2>1 DEF Ranked, ClearPcs, RunPcs, Within
  <2>. QED BY <1>1, <2>1, <2>2, OrderMove
<1>3. CASE \E i \in Runs : FailUnreadableJob(t, i)
  <2>1. PICK i \in Runs : FailUnreadableJob(t, i) BY <1>3
  <2>2. PICK v, q : q = [NoTx EXCEPT !.op = "unreadable", !.id = i, !.status = "failed", !.at = begun + 1,
                                     !.pc = "prev", !.mine = Put(NoRows, RunRow(i), v)] /\ Set(t, q)
    BY <2>1 DEF FailUnreadableJob
  <2>3. q.pc = "prev" /\ q.mine = Put(NoRows, RunRow(i), v) BY <2>2 DEF NoTx
  <2>4. DOMAIN q.mine = {RunRow(i)} BY <2>3 DEF Put, NoRows
  <2>5. Within(q.mine, {"run", "job"}) BY <2>4, RowParts DEF Within
  <2>6. Ranked(q) BY <2>3, <2>5, EarlyRanked DEF RunPcs
  <2>. QED BY <1>1, <2>2, <2>6, OrderMove
<1>. QED BY <1>2, <1>3

\* What is committed of deliveries: one that is not pending stays so.
LEMMA OrderWrites ==
    ASSUME TxInv, Ordered, NEW t \in Sessions, tx' = [tx EXCEPT ![t] = NoTx] \/ tx' = tx,
           \A d \in Dels : db[DelRow(d)].state = "failed" => db'[DelRow(d)].state = "failed"
    PROVE  Ordered'
<1>1. ASSUME NEW u \in Sessions PROVE Ranked(tx[u])'
  <2>1. PICK o : o = tx'[u] OBVIOUS
  <2>2. Ranked(o)
    <3>1. o = NoTx \/ o = tx[u] BY <2>1 DEF TxInv
    <3>. QED BY <3>1, NoTxFree, FreeRanked DEF Ordered
  <2>3. Ranked(o)' BY <2>2 DEF Ranked, Settled
  <2>. QED BY <2>1, <2>3 DEF Ranked, Settled
<1>. QED BY <1>1 DEF Ordered

LEMMA OrderCommits ==
    ASSUME TxInv, Ordered, NEW t \in Sessions, Commit(t) \/ Rollback(t) \/ \E i \in Runs : EnqueueRun(i)
    PROVE  Ordered'
<1>1. tx' = [tx EXCEPT ![t] = NoTx] \/ tx' = tx BY DEF Commit, Rollback, EnqueueRun, Set
<1>2. ASSUME NEW d \in Dels, db[DelRow(d)].state = "failed" PROVE db'[DelRow(d)].state = "failed"
  <2>1. DelRow(d) \in Rows /\ DOMAIN db = Rows BY RowsThere DEF TxInv, Committed
  <2>2. CASE Commit(t)
    <3>1. PICK o : o = tx[t] OBVIOUS
    <3>2. Mine(o.mine) BY <3>1, Before
    <3>3. db'[DelRow(d)] = View(t, DelRow(d)) BY <2>1, <2>2 DEF Commit
    <3>. QED BY <1>2, <3>1, <3>2, <3>3 DEF Mine, View
  <2>3. CASE Rollback(t) BY <1>2, <2>3 DEF Rollback, Rest
  <2>4. CASE \E i \in Runs : EnqueueRun(i) BY <1>2, <2>4, RowsDiffer DEF EnqueueRun
  <2>. QED BY <2>2, <2>3, <2>4
<1>. QED BY <1>1, <1>2, OrderWrites

LEMMA OrderNext ==
    ASSUME TxInv, Ordered, [PgNext]_pgVars
    PROVE  Ordered'
<1>1. ASSUME NEW t \in Sessions, Step(t) PROVE Ordered'
  <2>1. PICK o : o = tx[t] OBVIOUS
  <2>. QED
    BY <1>1, <2>1, OrderClaims, OrderReleases, OrderRuns, OrderTells, OrderDeletes, OrderFailPending, OrderCommits
    DEF Step
<1>2. CASE UNCHANGED pgVars
  <2>1. UNCHANGED <<db, tx>> BY <1>2 DEF pgVars
  <2>. QED BY <2>1 DEF Ordered, Ranked, Settled
<1>3. ASSUME NEW i \in Runs, EnqueueRun(i) PROVE Ordered'
  <2>1. CASE Sessions = {} BY <2>1 DEF Ordered
  <2>2. CASE Sessions # {} BY <1>3, <2>2, OrderCommits
  <2>. QED BY <2>1, <2>2
<1>. QED BY <1>1, <1>2, <1>3, OrderStarts, OrderCommits DEF PgNext

LEMMA OrderInit == PgInit => Ordered
<1> SUFFICES ASSUME PgInit, NEW t \in Sessions PROVE Ranked(tx[t]) BY DEF Ordered
<1>1. tx[t] = NoTx BY DEF PgInit
<1>. QED BY <1>1, NoTxFree, FreeRanked

\* The row a transaction waits for, while another holds it, comes after every row it holds itself.
LEMMA Rises ==
    ASSUME TxInv, Ordered, NEW t \in Sessions, NEW x \in Awaits(t), NEW u \in Sessions \ {t},
           x \in DOMAIN tx[u].mine, NEW y \in DOMAIN tx[t].mine
    PROVE  Under(y, x)
<1>1. PICK o, p : o = tx[t] /\ p = tx[u] OBVIOUS
<1>2. Shape(o) /\ Pcs(o) /\ Ranked(o) /\ Mine(o.mine) BY <1>1, Before DEF Ordered
<1>3. Mine(p.mine) BY <1>1, Before
<1>4. x \in Rows /\ y \in Rows /\ x \notin DOMAIN o.mine /\ y \in DOMAIN o.mine /\ x \in DOMAIN p.mine
  <2>1. Apart(o, p) BY <1>1 DEF TxInv
  <2>. QED BY <1>1, <1>2, <1>3, <2>1 DEF Apart, Mine
<1>5. x[2] \in Nat /\ y[2] \in Nat /\ x # y BY <1>4, RowIs
<1> DEFINE First(S) == {z \in S : \A w \in S : z[2] <= w[2]}
           pending == {e \in Dels : o.id = DelChannel /\ View(t, DelRow(e)).state = "pending"}
<1>6. \/ o.pc = "run" /\ x = RunRow(o.id)
      \/ o.pc \in {"streak", "recover", "end", "unschedule", "job", "lock"} /\ x = JobRow
      \/ o.pc \in {"send", "drop one"} /\ x = AlertRow(o.id)
      \/ o.pc \in {"pace", "dropping"} /\ \E c \in o.todo : x = AlertRow(c)
      \/ o.pc \in {"runs", "alerts"} /\ x \in o.todo
      \/ o.pc = "deliveries" /\ \E d \in pending : x = DelRow(d)
      \/ o.pc = "channel" /\ x = ChannelRow(o.id)
      \/ o.pc = "give up" /\ x = DelRow(o.id)
  BY <1>1 DEF Awaits
<1>7. CASE o.pc \in {"run", "lock", "give up"}
  BY <1>2, <1>4, <1>7 DEF Pcs, ClearPcs
<1>8. CASE o.pc \in {"streak", "recover", "end", "job"} /\ x = JobRow
  <2>1. Within(o.mine, {"run", "job"}) BY <1>2, <1>8 DEF Ranked, Within, RunPcs
  <2>2. y[1] = "run" BY <1>4, <1>5, <1>8, <2>1, RowIs DEF Within
  <2>. QED BY <1>8, <2>2, RowParts DEF Under, Rank
<1>9. CASE o.pc = "unschedule" /\ x = JobRow
  <2>1. o.jobless BY <1>2, <1>4, <1>9 DEF Ranked
  <2>2. ~db[JobRow].there BY <1>2, <2>1 DEF Pcs
  <2>. QED BY <1>3, <1>4, <1>9, <2>2 DEF Mine
<1>10. CASE o.pc \in {"send", "drop one"} /\ x = AlertRow(o.id)
  <2>1. y = JobRow BY <1>2, <1>4, <1>10 DEF Pcs
  <2>2. x[1] = "alert" /\ y[1] = "job" BY <1>10, <2>1, RowParts
  <2>. QED BY <2>2 DEF Under, Rank
<1>11. CASE o.pc \in {"pace", "dropping"} /\ \E c \in o.todo : x = AlertRow(c)
  <2>1. PICK c \in o.todo : x = AlertRow(c) BY <1>11
  <2>2. x[1] = "alert" /\ x[2] = c BY <2>1, RowParts
  <2>3. y[1] \in {"run", "job"} \/ (y[1] = "alert" /\ y[2] < c)
    BY <1>2, <1>4, <1>11 DEF Ranked, Within
  <2>. QED BY <2>2, <2>3 DEF Under, Rank
<1>12. CASE o.pc \in {"runs", "alerts"} /\ x \in o.todo
  <2>1. CASE o.pc = "runs"
    <3>0. o.todo \subseteq RunRows BY <1>2, <2>1 DEF Pcs
    <3>1. x[1] = "run" BY <1>12, <3>0, RowParts DEF RunRows
    <3>2. y[1] = "run" /\ y[2] < x[2] BY <1>2, <1>4, <1>12, <2>1 DEF Ranked, Within
    <3>. QED BY <3>1, <3>2 DEF Under, Rank
  <2>2. CASE o.pc = "alerts"
    <3>0. o.todo \subseteq {AlertRow(c) : c \in Channels} BY <1>2, <2>2 DEF Pcs
    <3>1. x[1] = "alert" BY <1>12, <3>0, RowParts
    <3>2. y[1] \in {"run", "job"} \/ (y[1] = "alert" /\ y[2] < x[2])
      BY <1>2, <1>4, <1>12, <2>2 DEF Ranked, Within
    <3>. QED BY <3>1, <3>2 DEF Under, Rank
  <2>. QED BY <1>12, <2>1, <2>2
<1>13. CASE o.pc = "deliveries" /\ \E d \in pending : x = DelRow(d)
  <2>1. PICK d \in pending : x = DelRow(d) BY <1>13
  <2>2. x[1] = "del" /\ x[2] = d /\ d \in Dels /\ d \in Nat BY <2>1, RowParts, PgAssumption
  <2>3. y[1] \in {"run", "job", "alert", "del"} BY <1>2, <1>4, <1>13 DEF Ranked, Within
  <2>4. CASE y[1] = "del"
    <3>1. y[2] \in Dels /\ y = DelRow(y[2]) BY <1>4, <2>4, RowIs
    <3>2. ~Settled(o, d) BY <1>1, <2>1 DEF Settled, View
    <3>3. ~(d <= y[2]) BY <1>2, <1>4, <1>13, <2>2, <3>1, <3>2 DEF Ranked
    <3>. QED BY <1>5, <2>2, <2>4, <3>3 DEF Under, Rank
  <2>5. CASE y[1] # "del" BY <2>2, <2>3, <2>5 DEF Under, Rank
  <2>. QED BY <2>4, <2>5
<1>14. CASE o.pc = "channel" /\ x = ChannelRow(o.id)
  <2>1. y[1] \in {"run", "job", "alert", "del"} BY <1>2, <1>4, <1>14 DEF Ranked, Within
  <2>2. x[1] = "channel" BY <1>14, RowParts
  <2>. QED BY <2>1, <2>2 DEF Under, Rank
<1>. QED BY <1>6, <1>7, <1>8, <1>9, <1>10, <1>11, <1>12, <1>13, <1>14

\* Under is a total order of the rows.
LEMMA UnderOrder ==
    ASSUME NEW x \in Rows, NEW y \in Rows, NEW z \in Rows
    PROVE  /\ ~Under(x, x)
           /\ Under(x, y) /\ Under(y, z) => Under(x, z)
           /\ ~Under(x, y) /\ ~Under(y, z) => ~Under(x, z)
<1>1. x[2] \in Nat /\ y[2] \in Nat /\ z[2] \in Nat BY RowIs
<1>2. PICK i, j, k : i = Rank(x) /\ j = Rank(y) /\ k = Rank(z) OBVIOUS
<1>3. i \in Nat /\ j \in Nat /\ k \in Nat BY <1>2 DEF Rank
<1>. QED BY <1>1, <1>2, <1>3 DEF Under

\* Some member of a finite set of sessions has the last of their rows.
LEMMA LastRow ==
    ASSUME NEW W, IsFiniteSet(W), W # {}, NEW row \in [W -> Rows]
    PROVE  \E t \in W : \A u \in W : ~Under(row[t], row[u])
<1> DEFINE Last(V) == \E t \in V : \A u \in V : ~Under(row[t], row[u])
           Bad == {V \in SUBSET W : V # {} /\ ~Last(V)}
           Sizes == {Cardinality(V) : V \in Bad}
<1> SUFFICES ASSUME Bad # {} PROVE FALSE OBVIOUS
<1>1. \A V \in SUBSET W : IsFiniteSet(V) /\ Cardinality(V) \in Nat BY FS_Subset, FS_CardinalityType
<1>2. Sizes \subseteq Nat /\ Sizes # {} BY <1>1
<1>3. PICK n \in Sizes : \A m \in Sizes : n <= m BY <1>2, LeastNatural
<1>4. PICK V \in Bad : n = Cardinality(V) BY <1>3
<1>5. PICK t \in V : TRUE BY <1>4
<1>6. /\ IsFiniteSet(V \ {t}) /\ Cardinality(V \ {t}) = Cardinality(V) - 1
      /\ Cardinality(V) \in Nat
  BY <1>1, <1>4, <1>5, FS_RemoveElement
<1>7. V \ {t} \notin Bad
  <2> SUFFICES ASSUME V \ {t} \in Bad PROVE FALSE OBVIOUS
  <2>1. Cardinality(V \ {t}) \in Sizes OBVIOUS
  <2>2. n <= Cardinality(V \ {t}) BY <1>3, <2>1
  <2> HIDE DEF Bad, Sizes
  <2>. QED BY <1>4, <1>6, <2>2
<1>8. CASE V = {t}
  <2>1. row[t] \in Rows BY <1>4, <1>5
  <2>2. ~Under(row[t], row[t]) BY <2>1, UnderOrder
  <2>. QED BY <1>4, <1>8, <2>2
<1>9. CASE V # {t}
  <2>1. V \ {t} # {} /\ V \ {t} \in SUBSET W BY <1>4, <1>5, <1>9
  <2>2. PICK s \in V \ {t} : \A u \in V \ {t} : ~Under(row[s], row[u]) BY <1>7, <2>1
  <2>3. \A u \in V : row[u] \in Rows BY <1>4
  <2>4. CASE Under(row[s], row[t])
    <3>1. \A u \in V \ {t} : ~Under(row[t], row[u]) BY <1>5, <2>2, <2>3, <2>4, UnderOrder
    <3>2. ~Under(row[t], row[t]) BY <1>5, <2>3, UnderOrder
    <3>. QED BY <1>4, <1>5, <3>1, <3>2
  <2>5. CASE ~Under(row[s], row[t]) BY <1>4, <2>2, <2>5
  <2>. QED BY <2>4, <2>5
<1>. QED BY <1>8, <1>9

LEMMA OrderedNoCycle ==
    ASSUME TxInv, Ordered
    PROVE  NoWaitCycle
<1> SUFFICES ASSUME NEW W \in SUBSET Sessions, W # {},
                    \A t \in W : \E x \in Awaits(t) : \E u \in W \ {t} : x \in DOMAIN tx[u].mine
             PROVE  FALSE
  BY DEF NoWaitCycle
<1>1. PICK row : row = [t \in W |-> CHOOSE x \in Awaits(t) : \E u \in W \ {t} : x \in DOMAIN tx[u].mine] OBVIOUS
<1>2. ASSUME NEW t \in W
      PROVE  row[t] \in Awaits(t) /\ \E u \in W \ {t} : row[t] \in DOMAIN tx[u].mine
  BY <1>1
<1>3. row \in [W -> Rows]
  <2>1. ASSUME NEW t \in W PROVE row[t] \in Rows
    <3>1. PICK u \in W \ {t} : row[t] \in DOMAIN tx[u].mine BY <1>2
    <3>2. PICK p : p = tx[u] OBVIOUS
    <3>3. Mine(p.mine) BY <3>2, Before
    <3>. QED BY <3>1, <3>2, <3>3 DEF Mine
  <2>. QED BY <1>1, <2>1
<1>4. IsFiniteSet(W) BY FS_Subset, PgAssumption
<1>5. PICK t \in W : \A u \in W : ~Under(row[t], row[u]) BY <1>3, <1>4, LastRow
<1>6. PICK u \in W \ {t} : row[t] \in DOMAIN tx[u].mine BY <1>2
<1>7. row[u] \in Awaits(u) /\ \E s \in W \ {u} : row[u] \in DOMAIN tx[s].mine BY <1>2, <1>6
<1>8. Under(row[t], row[u]) BY <1>6, <1>7, Rises
<1>. QED BY <1>5, <1>6, <1>8

\* However many transactions overlap, on whatever runs, channels and deliveries, none of them wait
\* for each other in a circle: finishing and reaping runs, releasing held alerts, deleting the job
\* or a channel and claiming all take their rows in one order.
THEOREM PgNoWaitCycle == PgSpec => []NoWaitCycle
<1>1. PgInit => Ordered BY OrderInit
<1>2. TxInv /\ Ordered /\ [PgNext]_pgVars => Ordered' BY OrderNext
<1>3. TxInv /\ Ordered => NoWaitCycle BY OrderedNoCycle
<1>. QED BY <1>1, <1>2, <1>3, PgInvariant, PTL DEF PgSpec
=============================================================================
