-------------------------- MODULE HeartbeatProofs --------------------------
(***************************************************************************)
(* For every number of heartbeats, requests, periods and graces:           *)
(* heartbeats alert once per outage, and the watcher never takes down a    *)
(* heartbeat that was pinged after it was read.  And of the ping log kept  *)
(* beside them: a start is paired with one completion, and recording a     *)
(* ping holds the log to its budgets.                                      *)
(***************************************************************************)
EXTENDS Heartbeat, PingLog, FiniteSetTheorems, WellFoundedInduction, TLAPS

-----------------------------------------------------------------------------
(* Types.                                                                  *)

\* Times are numbers and the clock starts inside them.
LEMMA TimeFacts == Time \subseteq Nat /\ NoTime \in Time /\ 1 \in Time
BY TimeAssumption DEF Time, NoTime

\* A row that is there is a row.
LEMMA ExistingIsRow ==
    ASSUME HeartbeatTypeOK, NEW h \in Ids, Exists(h)
    PROVE  hb[h] \in Row
BY DEF HeartbeatTypeOK, Exists

\* A new heartbeat is a row.
LEMMA NewRowIsRow ==
    ASSUME HeartbeatTypeOK, NEW n \in Names, NEW p \in Periods, NEW g \in Graces
    PROVE  NewRow(n, p, g) \in Row
BY TimeFacts DEF HeartbeatTypeOK, NewRow, Row

\* What a ping of any kind leaves is a row, stamped as recordHeartbeatPing says.
LEMMA PingedIsRow ==
    ASSUME NEW row \in Row, NEW at \in Time, at # NoTime, NEW rid \in Rids \cup {NoRid}
    PROVE  /\ AfterSuccess(row, at, rid) \in Row
           /\ AfterFail(row, at) \in Row
           /\ AfterStart(row, at, rid) \in Row
BY TimeFacts DEF Row, AfterSuccess, AfterFail, AfterStart

\* A row marked down is a row.
LEMMA MarkedIsRow ==
    ASSUME NEW row \in Row
    PROVE  [row EXCEPT !.status = "down", !.started = NoTime, !.rid = NoRid] \in Row
BY TimeFacts DEF Row

\* A synced row is a row.
LEMMA SyncedIsRow ==
    ASSUME NEW row \in Row, NEW p \in Periods, NEW g \in Graces
    PROVE  [row EXCEPT !.period = p, !.grace = g] \in Row
BY DEF Row

\* An idle request is a request.
LEMMA IdleIsRequest == Idle \in Request
BY TimeFacts DEF Idle, Request, Kinds

\* The requests have their types.
LEMMA RequestsTyped == HeartbeatTypeOK => RequestsOK
BY DEF HeartbeatTypeOK

\* A request that ends leaves the others as they are.
LEMMA IdleKeepsRequests ==
    ASSUME HeartbeatTypeOK, NEW q \in Requests, req' = [req EXCEPT ![q] = Idle]
    PROVE  RequestsOK'
BY IdleIsRequest, RequestsTyped DEF RequestsOK, Idle

\* A step that leaves the requests alone keeps their types.
LEMMA RequestsFrame == HeartbeatTypeOK /\ UNCHANGED req => RequestsOK'
BY RequestsTyped DEF RequestsOK

TypeInv == HeartbeatTypeOK /\ StampInv

\* The empty table with nothing in progress has its types.
LEMMA TypeInit == Init => HeartbeatTypeOK /\ StampInv /\ ObservedInv /\ OncePerOutage
<1> SUFFICES ASSUME Init PROVE HeartbeatTypeOK /\ StampInv /\ ObservedInv /\ OncePerOutage
  OBVIOUS
<1>1. HeartbeatTypeOK
  <2>1. RequestsOK
    BY IdleIsRequest DEF Init, Idle, RequestsOK
  <2> QED BY <2>1, TimeFacts DEF Init, HeartbeatTypeOK
<1>2. StampInv
  BY DEF Init, StampInv, InFlight, Idle, Exists
<1>3. ObservedInv
  BY DEF Init, ObservedInv
<1>4. OncePerOutage
  BY DEF Init, OncePerOutage, Exists
<1> QED BY <1>1, <1>2, <1>3, <1>4

\* Every step keeps the types.
LEMMA TypeStep == TypeInv /\ [Next]_vars => HeartbeatTypeOK'
<1> SUFFICES ASSUME TypeInv, [Next]_vars PROVE HeartbeatTypeOK'
  OBVIOUS
<1> HeartbeatTypeOK
  BY DEF TypeInv
<1>1. ASSUME NEW q \in Requests, Arrive(q) PROVE HeartbeatTypeOK'
  <2>1. now' \in Time
    <3>1. now < MaxTime /\ now' = now + 1 /\ now \in Time
      BY <1>1 DEF Arrive, HeartbeatTypeOK
    <3> QED BY <3>1, TimeAssumption DEF Time
  <2>2. PICK r \in Request : /\ req' = [req EXCEPT ![q] = r]
                             /\ r.step = "resolve" => r.name \in Names
                             /\ r.step = "record" => r.id \in Ids
    <3>1. PICK kind \in Kinds, rid \in Rids \cup {NoRid} :
            \/ \E h \in Ids :
                req' = [req EXCEPT ![q] = [step |-> "record", kind |-> kind, rid |-> rid,
                                           name |-> "", id |-> h, at |-> now']]
            \/ \E n \in Names :
                req' = [req EXCEPT ![q] = [step |-> "resolve", kind |-> kind, rid |-> rid,
                                           name |-> n, id |-> 0, at |-> now']]
      BY <1>1, Zenon DEF Arrive
    <3>2. CASE \E h \in Ids :
                req' = [req EXCEPT ![q] = [step |-> "record", kind |-> kind, rid |-> rid,
                                           name |-> "", id |-> h, at |-> now']]
      <4>1. PICK h \in Ids :
                req' = [req EXCEPT ![q] = [step |-> "record", kind |-> kind, rid |-> rid,
                                           name |-> "", id |-> h, at |-> now']]
        BY <3>2
      <4> DEFINE r == [step |-> "record", kind |-> kind, rid |-> rid, name |-> "", id |-> h, at |-> now']
      <4>2. r \in Request /\ r.step = "record" /\ r.name = "" /\ r.id = h
        BY <2>1 DEF Request
      <4>3. req' = [req EXCEPT ![q] = r]
        BY <4>1
      <4> HIDE DEF r
      <4> QED BY <4>2, <4>3
    <3>3. CASE \E n \in Names :
                req' = [req EXCEPT ![q] = [step |-> "resolve", kind |-> kind, rid |-> rid,
                                           name |-> n, id |-> 0, at |-> now']]
      <4>1. PICK n \in Names :
                req' = [req EXCEPT ![q] = [step |-> "resolve", kind |-> kind, rid |-> rid,
                                           name |-> n, id |-> 0, at |-> now']]
        BY <3>3
      <4> DEFINE r == [step |-> "resolve", kind |-> kind, rid |-> rid, name |-> n, id |-> 0, at |-> now']
      <4>2. r \in Request /\ r.step = "resolve" /\ r.name = n /\ r.id = 0
        BY <2>1 DEF Request
      <4>3. req' = [req EXCEPT ![q] = r]
        BY <4>1
      <4> HIDE DEF r
      <4> QED BY <4>2, <4>3
    <3> QED BY <3>1, <3>2, <3>3
  <2>3. RequestsOK'
    BY <2>2, RequestsTyped DEF RequestsOK
  <2>4. UNCHANGED <<hb, watchTodo, watchRow, downs, ups, latest, touched, faults, restarts>>
    BY <1>1 DEF Arrive, watchVars, historyVars
  <2> QED BY <2>1, <2>3, <2>4 DEF HeartbeatTypeOK
<1>2. ASSUME NEW q \in Requests, Refuse(q) PROVE HeartbeatTypeOK'
  <2>1. RequestsOK'
    BY <1>2, IdleKeepsRequests DEF Refuse
  <2> QED BY <1>2, <2>1 DEF Refuse, HeartbeatTypeOK, watchVars, historyVars
<1>3. ASSUME NEW q \in Requests, ResolveSlug(q) PROVE HeartbeatTypeOK'
  <2>1. PICK h \in Ids :
            /\ req' = [req EXCEPT ![q].step = "record", ![q].id = h]
            /\ \/ UNCHANGED hb
               \/ \E p \in Periods, g \in Graces : hb' = [hb EXCEPT ![h] = NewRow(req[q].name, p, g)]
    BY <1>3, Zenon DEF ResolveSlug
  <2>2. RequestsOK'
    <3> DEFINE r == [req[q] EXCEPT !.step = "record", !.id = h]
    <3>1. req' = [req EXCEPT ![q] = r]
      BY <2>1, RequestsTyped DEF RequestsOK
    <3>2. r \in Request /\ r.step = "record" /\ r.id = h
      BY RequestsTyped DEF RequestsOK, Request
    <3> HIDE DEF r
    <3> QED BY <3>1, <3>2, RequestsTyped DEF RequestsOK
  <2>3. hb' \in [Ids -> Row \cup {Unborn, Gone}]
    <3>1. req[q].name \in Names
      BY <1>3, RequestsTyped DEF RequestsOK, ResolveSlug
    <3>2. \A p \in Periods, g \in Graces : NewRow(req[q].name, p, g) \in Row
      BY <3>1, NewRowIsRow
    <3> QED BY <2>1, <3>2 DEF HeartbeatTypeOK
  <2> QED BY <1>3, <2>2, <2>3 DEF ResolveSlug, HeartbeatTypeOK, watchVars, historyVars
<1>4. ASSUME NEW q \in Requests, Record(q) PROVE HeartbeatTypeOK'
  <2> DEFINE h == req[q].id  kind == req[q].kind  at == req[q].at  rid == req[q].rid  row == hb[h]
  <2>1. h \in Ids /\ at \in Time /\ at # NoTime /\ rid \in Rids \cup {NoRid}
    BY <1>4, RequestsTyped DEF Record, RequestsOK, Request, TypeInv, StampInv, InFlight
  <2>2. RequestsOK'
    BY <1>4, IdleKeepsRequests DEF Record
  <2>3. CASE ~Exists(h)
    <3>1. UNCHANGED <<hb, downs, ups, latest, touched, now, watchTodo, watchRow, faults, restarts>>
      BY <1>4, <2>3 DEF Record, watchVars, historyVars
    <3> QED BY <2>2, <3>1 DEF HeartbeatTypeOK
  <2>4. CASE Exists(h)
    <3>1. row \in Row
      BY <2>1, <2>4, ExistingIsRow
    <3>2. \E new \in Row : hb' = [hb EXCEPT ![h] = new]
      <4>1. /\ AfterSuccess(row, at, rid) \in Row
            /\ AfterFail(row, at) \in Row
            /\ AfterStart(row, at, rid) \in Row
        BY <2>1, <3>1, PingedIsRow
      <4>2. hb' = [hb EXCEPT ![h] = CASE kind = "success" -> AfterSuccess(row, at, rid)
                                      [] kind = "fail"    -> AfterFail(row, at)
                                      [] kind = "start"   -> AfterStart(row, at, rid)
                                      [] OTHER            -> row]
        BY <1>4, <2>4 DEF Record
      <4> QED BY <3>1, <4>1, <4>2
    <3>3. hb' \in [Ids -> Row \cup {Unborn, Gone}]
      BY <3>2 DEF HeartbeatTypeOK
    <3>4. downs' \in [Ids -> Nat] /\ ups' \in [Ids -> Nat]
      <4>1. /\ downs' = downs \/ downs' = [downs EXCEPT ![h] = @ + 1]
            /\ ups' = ups \/ ups' = [ups EXCEPT ![h] = @ + 1]
        BY <1>4, <2>4 DEF Record
      <4> QED BY <2>1, <4>1 DEF HeartbeatTypeOK
    <3>5. latest' \in [Ids -> Time] /\ touched' \subseteq Ids
      <4>1. /\ latest' = latest \/ latest' = [latest EXCEPT ![h] = at]
            /\ touched' = touched \/ touched' = touched \cup {h}
        BY <1>4, <2>4 DEF Record
      <4> QED BY <2>1, <4>1 DEF HeartbeatTypeOK
    <3> QED BY <1>4, <2>2, <3>3, <3>4, <3>5 DEF Record, HeartbeatTypeOK, watchVars
  <2> QED BY <2>3, <2>4
<1>5. CASE WatchList
  <2>1. watchTodo' \subseteq Ids /\ watchRow' \in [Ids -> Row \cup {Unborn}]
    BY <1>5, ExistingIsRow DEF WatchList, DueHeartbeats, Overdue
  <2> QED BY <1>5, <2>1, RequestsFrame DEF WatchList, HeartbeatTypeOK
<1>6. ASSUME NEW h \in Ids, WatchMark(h) PROVE HeartbeatTypeOK'
  <2>1. /\ hb' \in [Ids -> Row \cup {Unborn, Gone}]
        /\ downs' \in [Ids -> Nat]
    <3>1. CASE MarkDown(h)
      <4>1. hb[h] \in Row
        BY <3>1, ExistingIsRow DEF MarkDown, Unmoved
      <4> DEFINE new == [hb[h] EXCEPT !.status = "down", !.started = NoTime, !.rid = NoRid]
      <4>2. hb' = [hb EXCEPT ![h] = new]
        BY <3>1 DEF MarkDown, HeartbeatTypeOK
      <4>3. new \in Row
        BY <4>1, MarkedIsRow
      <4> HIDE DEF new
      <4>4. downs' = [downs EXCEPT ![h] = @ + 1]
        BY <3>1 DEF MarkDown
      <4> QED BY <4>2, <4>3, <4>4 DEF HeartbeatTypeOK
    <3>2. CASE UNCHANGED <<hb, downs>>
      BY <3>2 DEF HeartbeatTypeOK
    <3> QED BY <1>6, <3>1, <3>2 DEF WatchMark
  <2>2. faults' \in Nat
    BY <1>6 DEF WatchMark, HeartbeatTypeOK
  <2>3. watchTodo' \subseteq Ids /\ watchRow' \in [Ids -> Row \cup {Unborn}]
    BY <1>6 DEF WatchMark, HeartbeatTypeOK
  <2> QED BY <1>6, <2>1, <2>2, <2>3, RequestsFrame DEF WatchMark, HeartbeatTypeOK
<1>7. ASSUME NEW n \in Names, NEW p \in Periods, NEW g \in Graces, CreateHeartbeat(n, p, g)
      PROVE  HeartbeatTypeOK'
  <2>1. PICK h \in Ids : \/ Exists(h) /\ hb' = [hb EXCEPT ![h].period = p, ![h].grace = g]
                         \/ hb' = [hb EXCEPT ![h] = NewRow(n, p, g)]
    BY <1>7 DEF CreateHeartbeat, Named
  <2>2. hb' \in [Ids -> Row \cup {Unborn, Gone}]
    <3>1. CASE hb' = [hb EXCEPT ![h] = NewRow(n, p, g)]
      BY <3>1, NewRowIsRow DEF HeartbeatTypeOK
    <3>2. CASE Exists(h) /\ hb' = [hb EXCEPT ![h].period = p, ![h].grace = g]
      <4> DEFINE new == [hb[h] EXCEPT !.period = p, !.grace = g]
      <4>1. hb' = [hb EXCEPT ![h] = new]
        BY <3>2 DEF HeartbeatTypeOK
      <4>2. new \in Row
        BY <3>2, ExistingIsRow, SyncedIsRow
      <4> HIDE DEF new
      <4> QED BY <4>1, <4>2 DEF HeartbeatTypeOK
    <3> QED BY <2>1, <3>1, <3>2
  <2> QED BY <1>7, <2>2, RequestsFrame DEF CreateHeartbeat, HeartbeatTypeOK, watchVars, historyVars
<1>8. ASSUME NEW h \in Ids, DeleteHeartbeat(h) PROVE HeartbeatTypeOK'
  BY <1>8, RequestsFrame DEF DeleteHeartbeat, HeartbeatTypeOK, watchVars, historyVars
<1>9. CASE Restart
  <2>1. RequestsOK'
    BY <1>9, IdleIsRequest DEF Restart, Idle, RequestsOK
  <2> QED BY <1>9, <2>1 DEF Restart, HeartbeatTypeOK, historyVars
<1>10. CASE Pass
  BY <1>10, TimeAssumption, RequestsFrame DEF Pass, HeartbeatTypeOK, watchVars, historyVars, Time
<1>11. CASE UNCHANGED vars
  BY <1>11, RequestsFrame DEF vars, HeartbeatTypeOK
<1> QED BY <1>1, <1>2, <1>3, <1>4, <1>5, <1>6, <1>7, <1>8, <1>9, <1>10, <1>11 DEF Next, Check

-----------------------------------------------------------------------------
(* One alert per outage.                                                   *)

\* What each kind of ping does to the columns the watcher compares.
LEMMA PingedColumns ==
    ASSUME NEW row \in Row, NEW at \in Time, NEW rid \in Rids \cup {NoRid}
    PROVE  /\ AfterSuccess(row, at, rid).status = "up"
           /\ AfterSuccess(row, at, rid).seen = at
           /\ AfterSuccess(row, at, rid).started \in {NoTime, row.started}
           /\ AfterFail(row, at).status = "down"
           /\ AfterFail(row, at).seen = at
           /\ AfterFail(row, at).started = NoTime
           /\ AfterStart(row, at, rid).status = row.status
           /\ AfterStart(row, at, rid).seen = row.seen
           /\ AfterStart(row, at, rid).started = at
BY DEF Row, AfterSuccess, AfterFail, AfterStart

\* Recording a ping, seen from outside: nothing for a token nobody owns,
\* otherwise one row changes as its kind says.
LEMMA RecordEffect ==
    ASSUME TypeInv, NEW q \in Requests, Record(q), Exists(req[q].id)
    PROVE  LET h == req[q].id  at == req[q].at
           IN  /\ h \in Ids /\ hb[h] \in Row /\ at \in Time /\ at # NoTime /\ InFlight(q)
               /\ \E new \in Row :
                    /\ hb' = [hb EXCEPT ![h] = new]
                    /\ \/ /\ req[q].kind = "success" /\ new.status = "up" /\ new.seen = at
                          /\ new.started \in {NoTime, hb[h].started}
                       \/ /\ req[q].kind = "fail" /\ new.status = "down" /\ new.seen = at
                          /\ new.started = NoTime
                       \/ /\ req[q].kind = "start" /\ new.status = hb[h].status
                          /\ new.seen = hb[h].seen /\ new.started = at
                       \/ req[q].kind = "log" /\ new = hb[h]
<1> DEFINE h == req[q].id  kind == req[q].kind  at == req[q].at  rid == req[q].rid  row == hb[h]
<1>1. /\ h \in Ids /\ at \in Time /\ at # NoTime /\ rid \in Rids \cup {NoRid} /\ kind \in Kinds
      /\ InFlight(q)
  BY RequestsTyped DEF Record, RequestsOK, Request, TypeInv, StampInv, InFlight
<1>2. row \in Row
  BY <1>1, ExistingIsRow DEF TypeInv
<1>3. hb' = [hb EXCEPT ![h] = CASE kind = "success" -> AfterSuccess(row, at, rid)
                                [] kind = "fail"    -> AfterFail(row, at)
                                [] kind = "start"   -> AfterStart(row, at, rid)
                                [] OTHER            -> row]
  BY DEF Record
<1>4. /\ AfterSuccess(row, at, rid) \in Row
      /\ AfterFail(row, at) \in Row
      /\ AfterStart(row, at, rid) \in Row
  BY <1>1, <1>2, PingedIsRow
<1>5. CASE kind = "success"
  <2> DEFINE new == AfterSuccess(row, at, rid)
  <2>1. hb' = [hb EXCEPT ![h] = new]
    BY <1>3, <1>5
  <2>2. new.status = "up" /\ new.seen = at /\ new.started \in {NoTime, row.started}
    BY <1>1, <1>2, PingedColumns
  <2>3. new \in Row
    BY <1>4
  <2> HIDE DEF new
  <2> QED BY <1>1, <1>2, <1>5, <2>1, <2>2, <2>3
<1>6. CASE kind = "fail"
  <2> DEFINE new == AfterFail(row, at)
  <2>1. hb' = [hb EXCEPT ![h] = new]
    BY <1>3, <1>6
  <2>2. new.status = "down" /\ new.seen = at /\ new.started = NoTime
    BY <1>1, <1>2, PingedColumns
  <2>3. new \in Row
    BY <1>4
  <2> HIDE DEF new
  <2> QED BY <1>1, <1>2, <1>6, <2>1, <2>2, <2>3
<1>7. CASE kind = "start"
  <2> DEFINE new == AfterStart(row, at, rid)
  <2>1. hb' = [hb EXCEPT ![h] = new]
    BY <1>3, <1>7
  <2>2. new.status = row.status /\ new.seen = row.seen /\ new.started = at
    BY <1>1, <1>2, PingedColumns
  <2>3. new \in Row
    BY <1>4
  <2> HIDE DEF new
  <2> QED BY <1>1, <1>2, <1>7, <2>1, <2>2, <2>3
<1>8. CASE kind = "log"
  <2>1. hb' = [hb EXCEPT ![h] = row]
    BY <1>3, <1>8
  <2> QED BY <1>1, <1>2, <1>8, <2>1
<1> QED BY <1>1, <1>5, <1>6, <1>7, <1>8 DEF Kinds

\* Marking down, seen from outside.
LEMMA MarkEffect ==
    ASSUME TypeInv, NEW h \in Ids, MarkDown(h)
    PROVE  /\ hb[h] \in Row
           /\ \E new \in Row : /\ hb' = [hb EXCEPT ![h] = new]
                               /\ new.status = "down" /\ new.started = NoTime /\ new.seen = hb[h].seen
<1>1. hb[h] \in Row
  BY ExistingIsRow DEF MarkDown, Unmoved, TypeInv
<1> DEFINE new == [hb[h] EXCEPT !.status = "down", !.started = NoTime, !.rid = NoRid]
<1>2. hb' = [hb EXCEPT ![h] = new]
  BY DEF MarkDown, TypeInv, HeartbeatTypeOK
<1>3. new \in Row
  BY <1>1, MarkedIsRow
<1>4. new.status = "down" /\ new.started = NoTime /\ new.seen = hb[h].seen
  BY <1>1 DEF Row
<1> QED
  <2> HIDE DEF new
  <2> QED BY <1>1, <1>2, <1>3, <1>4

\* Creating or syncing a heartbeat, seen from outside: a new row that nothing
\* was recorded for, or an old one with the columns compared as they were.
LEMMA UpsertEffect ==
    ASSUME TypeInv, NEW n \in Names, NEW h \in Ids, NEW p \in Periods, NEW g \in Graces,
           \/ h \in Named(n) /\ hb' = [hb EXCEPT ![h].period = p, ![h].grace = g]
           \/ NewId(h) /\ hb' = [hb EXCEPT ![h] = NewRow(n, p, g)]
    PROVE  \E new \in Row :
            /\ hb' = [hb EXCEPT ![h] = new]
            /\ \/ /\ Exists(h) /\ new.status = hb[h].status
                  /\ new.seen = hb[h].seen /\ new.started = hb[h].started
               \/ /\ hb[h] = Unborn /\ new.status = "new"
                  /\ new.seen = NoTime /\ new.started = NoTime
<1>1. CASE h \in Named(n) /\ hb' = [hb EXCEPT ![h].period = p, ![h].grace = g]
  <2> DEFINE new == [hb[h] EXCEPT !.period = p, !.grace = g]
  <2>1. hb' = [hb EXCEPT ![h] = new]
    BY <1>1 DEF TypeInv, HeartbeatTypeOK
  <2>2. Exists(h) /\ hb[h] \in Row
    BY <1>1, ExistingIsRow DEF Named, TypeInv
  <2>3. new \in Row
    BY <2>2, SyncedIsRow
  <2>4. new.status = hb[h].status /\ new.seen = hb[h].seen /\ new.started = hb[h].started
    BY <2>2 DEF Row
  <2> HIDE DEF new
  <2> QED BY <2>1, <2>2, <2>3, <2>4
<1>2. CASE NewId(h) /\ hb' = [hb EXCEPT ![h] = NewRow(n, p, g)]
  <2>1. NewRow(n, p, g) \in Row
    BY NewRowIsRow DEF TypeInv
  <2>2. /\ NewRow(n, p, g).status = "new"
        /\ NewRow(n, p, g).seen = NoTime /\ NewRow(n, p, g).started = NoTime
    BY DEF NewRow
  <2> QED BY <1>2, <2>1, <2>2 DEF NewId
<1> QED BY <1>1, <1>2

\* A slug ping resolves to the row of that name or creates it.
LEMMA SlugEffect ==
    ASSUME TypeInv, NEW q \in Requests, ResolveSlug(q)
    PROVE  /\ req[q].name \in Names
           /\ \E h \in Ids :
                /\ req' = [req EXCEPT ![q].step = "record", ![q].id = h]
                /\ \/ UNCHANGED hb
                   \/ \E p \in Periods, g \in Graces :
                        NewId(h) /\ hb' = [hb EXCEPT ![h] = NewRow(req[q].name, p, g)]
<1>1. req[q].name \in Names
  BY RequestsTyped DEF ResolveSlug, RequestsOK, TypeInv
<1> QED BY <1>1, Zenon DEF ResolveSlug

\* Steps that leave the rows and the alerts alone.
LEMMA AlertsFrame == OncePerOutage /\ UNCHANGED <<hb, downs, ups>> => OncePerOutage'
BY DEF OncePerOutage, Exists

\* A row that changes without a transition keeps the balance of alerts.
LEMMA QuietChange ==
    ASSUME TypeInv, OncePerOutage, downs' = downs, ups' = ups, NEW h \in Ids, NEW new \in Row,
           hb' = [hb EXCEPT ![h] = new],
           \/ Exists(h) /\ new.status = hb[h].status
           \/ hb[h] = Unborn /\ new.status = "new"
    PROVE  OncePerOutage'
<1>1. new \notin {Unborn, Gone}
  BY RowAssumption
<1> SUFFICES ASSUME NEW k \in Ids, hb'[k] # Gone
             PROVE  downs[k] = ups[k] + (IF Exists(k)' /\ hb'[k].status = "down" THEN 1 ELSE 0)
  BY DEF OncePerOutage
<1>2. CASE k # h
  BY <1>2 DEF OncePerOutage, Exists, TypeInv, HeartbeatTypeOK
<1>3. CASE k = h
  <2>1. hb'[k] = new
    BY <1>3 DEF TypeInv, HeartbeatTypeOK
  <2>2. Exists(k)'
    BY <1>1, <2>1 DEF Exists
  <2>3. hb[k] # Gone
    BY <1>3, RowAssumption DEF Exists, OncePerOutage
  <2> QED BY <1>3, <2>1, <2>2, <2>3 DEF OncePerOutage, Exists
<1> QED BY <1>2, <1>3

\* Every step keeps the balance of alerts and recoveries.
LEMMA OutageStep == TypeInv /\ ObservedInv /\ OncePerOutage /\ [Next]_vars => OncePerOutage'
<1> SUFFICES ASSUME TypeInv, ObservedInv, OncePerOutage, [Next]_vars PROVE OncePerOutage'
  OBVIOUS
<1>1. ASSUME NEW q \in Requests, Arrive(q) \/ Refuse(q) PROVE OncePerOutage'
  BY <1>1, AlertsFrame DEF Arrive, Refuse, historyVars
<1>2. ASSUME NEW q \in Requests, ResolveSlug(q) PROVE OncePerOutage'
  <2>0. UNCHANGED <<downs, ups>>
    BY <1>2 DEF ResolveSlug, historyVars
  <2>1. PICK h \in Ids :
            \/ UNCHANGED hb
            \/ \E p \in Periods, g \in Graces :
                 NewId(h) /\ hb' = [hb EXCEPT ![h] = NewRow(req[q].name, p, g)]
    BY <1>2, SlugEffect
  <2>2. CASE UNCHANGED hb
    BY <2>0, <2>2, AlertsFrame
  <2>3. CASE \E p \in Periods, g \in Graces :
                 NewId(h) /\ hb' = [hb EXCEPT ![h] = NewRow(req[q].name, p, g)]
    <3>1. \E new \in Row :
            /\ hb' = [hb EXCEPT ![h] = new]
            /\ \/ Exists(h) /\ new.status = hb[h].status
               \/ hb[h] = Unborn /\ new.status = "new"
      <4>1. PICK p \in Periods, g \in Graces :
                 NewId(h) /\ hb' = [hb EXCEPT ![h] = NewRow(req[q].name, p, g)]
        BY <2>3
      <4>2. req[q].name \in Names
        BY <1>2, SlugEffect
      <4> QED BY <4>1, <4>2, UpsertEffect
    <3>2. PICK new \in Row :
            /\ hb' = [hb EXCEPT ![h] = new]
            /\ \/ Exists(h) /\ new.status = hb[h].status
               \/ hb[h] = Unborn /\ new.status = "new"
      BY <3>1
    <3> QED BY <2>0, <3>2, QuietChange
  <2> QED BY <2>1, <2>2, <2>3
<1>3. ASSUME NEW q \in Requests, Record(q) PROVE OncePerOutage'
  <2> DEFINE h == req[q].id
  <2>1. CASE ~Exists(h)
    BY <1>3, <2>1, AlertsFrame DEF Record, historyVars
  <2>2. CASE Exists(h)
    <3>1. /\ downs' = IF Transition(hb[h], req[q].kind) /\ req[q].kind = "fail"
                      THEN [downs EXCEPT ![h] = @ + 1] ELSE downs
          /\ ups' = IF Transition(hb[h], req[q].kind) /\ req[q].kind = "success"
                    THEN [ups EXCEPT ![h] = @ + 1] ELSE ups
      BY <1>3, <2>2 DEF Record
    <3>2. h \in Ids /\ hb[h] \in Row
      BY <1>3, <2>2, RecordEffect
    <3>3. PICK new \in Row :
            /\ hb' = [hb EXCEPT ![h] = new]
            /\ \/ req[q].kind = "success" /\ new.status = "up"
               \/ req[q].kind = "fail" /\ new.status = "down"
               \/ req[q].kind \in {"start", "log"} /\ new.status = hb[h].status
      BY <1>3, <2>2, RecordEffect
    <3>4. CASE Transition(hb[h], req[q].kind) = FALSE \/ req[q].kind \in {"start", "log"}
      <4>1. UNCHANGED <<downs, ups>>
        BY <3>1, <3>4
      <4> SUFFICES ASSUME NEW k \in Ids, hb'[k] # Gone
                   PROVE  downs[k] = ups[k] + (IF Exists(k)' /\ hb'[k].status = "down" THEN 1 ELSE 0)
        BY <4>1 DEF OncePerOutage
      <4>2. CASE k # h
        BY <3>3, <4>2 DEF OncePerOutage, Exists, TypeInv, HeartbeatTypeOK
      <4>3. CASE k = h
        <5>1. hb'[k] = new /\ hb[k] # Gone /\ Exists(k) /\ Exists(k)'
          BY <2>2, <3>2, <3>3, <4>3, RowAssumption DEF TypeInv, HeartbeatTypeOK, Exists
        <5>2. new.status = "down" <=> hb[k].status = "down"
          BY <3>3, <3>4, <4>3 DEF Transition
        <5> QED BY <5>1, <5>2 DEF OncePerOutage
      <4> QED BY <4>2, <4>3
    <3>5. CASE Transition(hb[h], req[q].kind) /\ req[q].kind = "fail"
      <4>1. downs' = [downs EXCEPT ![h] = @ + 1] /\ ups' = ups
        BY <3>1, <3>5
      <4>2. hb[h].status # "down" /\ new.status = "down"
        BY <3>3, <3>5 DEF Transition
      <4> QED BY <2>2, <3>2, <3>3, <4>1, <4>2, RowAssumption
              DEF OncePerOutage, Exists, TypeInv, HeartbeatTypeOK
    <3>6. CASE Transition(hb[h], req[q].kind) /\ req[q].kind = "success"
      <4>1. ups' = [ups EXCEPT ![h] = @ + 1] /\ downs' = downs
        BY <3>1, <3>6
      <4>2. hb[h].status = "down" /\ new.status = "up"
        BY <3>3, <3>6 DEF Transition
      <4> QED BY <2>2, <3>2, <3>3, <4>1, <4>2, RowAssumption
              DEF OncePerOutage, Exists, TypeInv, HeartbeatTypeOK
    <3> QED BY <3>3, <3>4, <3>5, <3>6 DEF Transition
  <2> QED BY <2>1, <2>2
<1>4. CASE WatchList
  BY <1>4, AlertsFrame DEF WatchList
<1>5. ASSUME NEW h \in Ids, WatchMark(h) PROVE OncePerOutage'
  <2>1. CASE MarkDown(h)
    <3>1. PICK new \in Row : hb' = [hb EXCEPT ![h] = new] /\ new.status = "down"
      BY <2>1, MarkEffect
    <3>2. downs' = [downs EXCEPT ![h] = @ + 1] /\ ups' = ups /\ Exists(h) /\ hb[h].status # "down"
      BY <1>5, <2>1 DEF MarkDown, WatchMark, Unmoved, ObservedInv
    <3> QED BY <3>1, <3>2, RowAssumption DEF OncePerOutage, Exists, TypeInv, HeartbeatTypeOK
  <2>2. CASE UNCHANGED <<hb, downs>>
    BY <1>5, <2>2, AlertsFrame DEF WatchMark
  <2> QED BY <1>5, <2>1, <2>2 DEF WatchMark
<1>6. ASSUME NEW n \in Names, NEW p \in Periods, NEW g \in Graces, CreateHeartbeat(n, p, g)
      PROVE  OncePerOutage'
  <2>1. PICK h \in Ids : \/ h \in Named(n) /\ hb' = [hb EXCEPT ![h].period = p, ![h].grace = g]
                         \/ NewId(h) /\ hb' = [hb EXCEPT ![h] = NewRow(n, p, g)]
    BY <1>6 DEF CreateHeartbeat
  <2>2. PICK new \in Row :
            /\ hb' = [hb EXCEPT ![h] = new]
            /\ \/ Exists(h) /\ new.status = hb[h].status
               \/ hb[h] = Unborn /\ new.status = "new"
    BY <2>1, UpsertEffect
  <2>3. UNCHANGED <<downs, ups>>
    BY <1>6 DEF CreateHeartbeat, historyVars
  <2> QED BY <2>2, <2>3, QuietChange
<1>7. ASSUME NEW h \in Ids, DeleteHeartbeat(h) PROVE OncePerOutage'
  BY <1>7 DEF DeleteHeartbeat, OncePerOutage, Exists, TypeInv, HeartbeatTypeOK, historyVars
<1>8. CASE Restart \/ Pass \/ UNCHANGED vars
  BY <1>8, AlertsFrame DEF Restart, Pass, vars, historyVars
<1> QED BY <1>1, <1>2, <1>3, <1>4, <1>5, <1>6, <1>7, <1>8 DEF Next, Check

-----------------------------------------------------------------------------
(* Stamps.                                                                 *)

\* A step that moves no clock, starts no request and writes only old stamps or
\* none keeps the stamps apart.
LEMMA StampsKept ==
    ASSUME TypeInv, now' = now,
           \A q \in Requests : InFlight(q)' => InFlight(q) /\ req'[q].at = req[q].at,
           \A h \in Ids : Exists(h)' =>
                \/ Exists(h) /\ hb'[h].seen = hb[h].seen /\ hb'[h].started \in {NoTime, hb[h].started}
                \/ hb'[h].seen = NoTime /\ hb'[h].started = NoTime
    PROVE  StampInv'
<1>1. \A q \in Requests : InFlight(q)' => req'[q].at # NoTime /\ req'[q].at <= now'
  BY DEF TypeInv, StampInv
<1>2. \A q, r \in Requests : InFlight(q)' /\ InFlight(r)' /\ req'[q].at = req'[r].at => q = r
  BY DEF TypeInv, StampInv
<1>3. \A h \in Ids : Exists(h)' => hb'[h].seen <= now' /\ hb'[h].started <= now'
  BY TimeFacts DEF TypeInv, StampInv, HeartbeatTypeOK, Time, NoTime
<1>4. \A h \in Ids, q \in Requests : Exists(h)' /\ InFlight(q)' =>
            hb'[h].seen # req'[q].at /\ hb'[h].started # req'[q].at
  BY DEF TypeInv, StampInv
<1> QED BY <1>1, <1>2, <1>3, <1>4 DEF StampInv

\* Arriving, seen from outside: a request stamped with a new time.
LEMMA ArriveEffect ==
    ASSUME TypeInv, NEW q \in Requests, Arrive(q)
    PROVE  /\ now \in Nat /\ now' = now + 1 /\ req'[q].at = now'
           /\ \A p \in Requests : p # q => req'[p] = req[p]
<1>1. now \in Nat
  BY TimeFacts DEF TypeInv, HeartbeatTypeOK
<1>2. PICK kind \in Kinds, rid \in Rids \cup {NoRid} :
            \/ \E h \in Ids :
                req' = [req EXCEPT ![q] = [step |-> "record", kind |-> kind, rid |-> rid,
                                           name |-> "", id |-> h, at |-> now']]
            \/ \E n \in Names :
                req' = [req EXCEPT ![q] = [step |-> "resolve", kind |-> kind, rid |-> rid,
                                           name |-> n, id |-> 0, at |-> now']]
  BY Zenon DEF Arrive
<1>3. req \in [Requests -> Request]
  BY RequestsTyped DEF TypeInv, RequestsOK
<1>4. req'[q].at = now' /\ \A p \in Requests : p # q => req'[p] = req[p]
  <2>2. CASE \E h \in Ids :
                req' = [req EXCEPT ![q] = [step |-> "record", kind |-> kind, rid |-> rid,
                                           name |-> "", id |-> h, at |-> now']]
    <3>1. PICK h \in Ids :
                req' = [req EXCEPT ![q] = [step |-> "record", kind |-> kind, rid |-> rid,
                                           name |-> "", id |-> h, at |-> now']]
      BY <2>2
    <3> DEFINE r == [step |-> "record", kind |-> kind, rid |-> rid, name |-> "", id |-> h, at |-> now']
    <3>2. req' = [req EXCEPT ![q] = r] /\ r.at = now'
      BY <3>1
    <3> HIDE DEF r
    <3> QED BY <1>3, <3>2
  <2>3. CASE \E n \in Names :
                req' = [req EXCEPT ![q] = [step |-> "resolve", kind |-> kind, rid |-> rid,
                                           name |-> n, id |-> 0, at |-> now']]
    <3>1. PICK n \in Names :
                req' = [req EXCEPT ![q] = [step |-> "resolve", kind |-> kind, rid |-> rid,
                                           name |-> n, id |-> 0, at |-> now']]
      BY <2>3
    <3> DEFINE r == [step |-> "resolve", kind |-> kind, rid |-> rid, name |-> n, id |-> 0, at |-> now']
    <3>2. req' = [req EXCEPT ![q] = r] /\ r.at = now'
      BY <3>1
    <3> HIDE DEF r
    <3> QED BY <1>3, <3>2
  <2> QED BY <1>2, <2>2, <2>3
<1> QED BY <1>1, <1>4 DEF Arrive

\* Every step keeps the stamps apart.
LEMMA StampStep == TypeInv /\ [Next]_vars => StampInv'
<1> SUFFICES ASSUME TypeInv, [Next]_vars PROVE StampInv'
  OBVIOUS
<1>0. now \in Nat /\ \A h \in Ids : Exists(h) => hb[h].seen \in Nat /\ hb[h].started \in Nat
  BY TimeFacts, ExistingIsRow DEF TypeInv, HeartbeatTypeOK, Row
<1>1. ASSUME NEW q \in Requests, Arrive(q) PROVE StampInv'
  <2>1. /\ now' = now + 1 /\ req'[q].at = now' /\ hb' = hb
        /\ \A p \in Requests : p # q => req'[p] = req[p]
    BY <1>1, ArriveEffect DEF Arrive
  <2>2. \A p \in Requests : req[p].at \in Nat
    BY TimeFacts, RequestsTyped DEF TypeInv, RequestsOK, Request
  <2>3. \A p \in Requests : InFlight(p)' => p = q \/ (InFlight(p) /\ req'[p].at = req[p].at)
    BY <2>1 DEF InFlight
  <2>4. \A p \in Requests : InFlight(p)' => req'[p].at # NoTime /\ req'[p].at <= now'
    BY <1>0, <2>1, <2>2, <2>3 DEF TypeInv, StampInv, NoTime
  <2>5. \A p, r \in Requests : InFlight(p)' /\ InFlight(r)' /\ req'[p].at = req'[r].at => p = r
    BY <1>0, <2>1, <2>2, <2>3 DEF TypeInv, StampInv
  <2>6. \A h \in Ids : Exists(h)' <=> Exists(h)
    BY <2>1 DEF Exists
  <2>7. \A h \in Ids : Exists(h)' => hb'[h].seen <= now' /\ hb'[h].started <= now'
    BY <1>0, <2>1, <2>6 DEF TypeInv, StampInv
  <2>8. \A h \in Ids, p \in Requests : Exists(h)' /\ InFlight(p)' =>
            hb'[h].seen # req'[p].at /\ hb'[h].started # req'[p].at
    BY <1>0, <2>1, <2>2, <2>3, <2>6 DEF TypeInv, StampInv
  <2> QED BY <2>4, <2>5, <2>7, <2>8 DEF StampInv
<1>2. ASSUME NEW q \in Requests, Refuse(q) PROVE StampInv'
  <2>1. \A p \in Requests : InFlight(p)' => InFlight(p) /\ req'[p].at = req[p].at
    BY <1>2, RequestsTyped DEF Refuse, InFlight, Idle, TypeInv, RequestsOK
  <2> QED BY <1>2, <2>1, StampsKept DEF Refuse, Exists
<1>3. ASSUME NEW q \in Requests, ResolveSlug(q) PROVE StampInv'
  <2>1. PICK h \in Ids :
            /\ req' = [req EXCEPT ![q].step = "record", ![q].id = h]
            /\ \/ UNCHANGED hb
               \/ \E p \in Periods, g \in Graces :
                    NewId(h) /\ hb' = [hb EXCEPT ![h] = NewRow(req[q].name, p, g)]
    BY <1>3, SlugEffect
  <2>2. \A p \in Requests : InFlight(p)' => InFlight(p) /\ req'[p].at = req[p].at
    <3> DEFINE r == [req[q] EXCEPT !.step = "record", !.id = h]
    <3>1. req \in [Requests -> Request]
      BY RequestsTyped DEF TypeInv, RequestsOK
    <3>2. req' = [req EXCEPT ![q] = r]
      BY <2>1, <3>1
    <3>3. r.at = req[q].at
      BY <3>1 DEF Request
    <3>4. InFlight(q)
      BY <1>3 DEF ResolveSlug, InFlight
    <3> HIDE DEF r
    <3> QED BY <3>1, <3>2, <3>3, <3>4 DEF InFlight
  <2>3. \A k \in Ids : Exists(k)' =>
                \/ Exists(k) /\ hb'[k].seen = hb[k].seen /\ hb'[k].started \in {NoTime, hb[k].started}
                \/ hb'[k].seen = NoTime /\ hb'[k].started = NoTime
    <3>1. CASE UNCHANGED hb
      BY <3>1 DEF Exists
    <3>2. CASE \E p \in Periods, g \in Graces :
                    NewId(h) /\ hb' = [hb EXCEPT ![h] = NewRow(req[q].name, p, g)]
      <4>1. PICK p \in Periods, g \in Graces : hb' = [hb EXCEPT ![h] = NewRow(req[q].name, p, g)]
        BY <3>2
      <4> DEFINE new == NewRow(req[q].name, p, g)
      <4>2. new.seen = NoTime /\ new.started = NoTime
        BY DEF NewRow
      <4>3. hb' = [hb EXCEPT ![h] = new]
        BY <4>1
      <4> HIDE DEF new
      <4> QED BY <4>2, <4>3 DEF Exists, TypeInv, HeartbeatTypeOK
    <3> QED BY <2>1, <3>1, <3>2
  <2> QED BY <1>3, <2>2, <2>3, StampsKept DEF ResolveSlug
<1>4. ASSUME NEW q \in Requests, Record(q) PROVE StampInv'
  <2> DEFINE h == req[q].id
  <2>1. \A p \in Requests : InFlight(p)' => p # q /\ InFlight(p) /\ req'[p].at = req[p].at
    BY <1>4, RequestsTyped DEF Record, InFlight, Idle, TypeInv, RequestsOK
  <2>2. now' = now
    BY <1>4 DEF Record
  <2>3. CASE ~Exists(h)
    BY <1>4, <2>1, <2>2, <2>3, StampsKept DEF Record, Exists
  <2>4. CASE Exists(h)
    <3>1. h \in Ids /\ InFlight(q) /\ req[q].at \in Nat
      BY <1>4, <2>4, RecordEffect, TimeFacts
    <3>2. PICK new \in Row :
            /\ hb' = [hb EXCEPT ![h] = new]
            /\ new.seen \in {req[q].at, hb[h].seen}
            /\ new.started \in {NoTime, hb[h].started, req[q].at}
      BY <1>4, <2>4, RecordEffect
    <3>3. \A p \in Requests : InFlight(p)' => req'[p].at # NoTime /\ req'[p].at <= now'
      BY <2>1, <2>2 DEF TypeInv, StampInv
    <3>4. \A p, r \in Requests : InFlight(p)' /\ InFlight(r)' /\ req'[p].at = req'[r].at => p = r
      BY <2>1 DEF TypeInv, StampInv
    <3>5. \A k \in Ids : Exists(k)' => hb'[k].seen <= now' /\ hb'[k].started <= now'
      BY <1>0, <2>2, <2>4, <3>1, <3>2 DEF TypeInv, StampInv, HeartbeatTypeOK, Exists, NoTime
    <3>6. \A p \in Requests : InFlight(p)' => req'[p].at # req[q].at
      BY <2>1, <3>1 DEF TypeInv, StampInv
    <3>7. \A k \in Ids, p \in Requests : Exists(k)' /\ InFlight(p)' =>
            hb'[k].seen # req'[p].at /\ hb'[k].started # req'[p].at
      BY <2>1, <2>4, <3>1, <3>2, <3>3, <3>6 DEF TypeInv, StampInv, HeartbeatTypeOK, Exists
    <3> QED BY <3>3, <3>4, <3>5, <3>7 DEF StampInv
  <2> QED BY <2>3, <2>4
<1>5. CASE WatchList
  BY <1>5, StampsKept DEF WatchList, InFlight, Exists
<1>6. ASSUME NEW h \in Ids, WatchMark(h) PROVE StampInv'
  <2>1. now' = now /\ req' = req
    BY <1>6 DEF WatchMark
  <2>2. CASE MarkDown(h)
    <3>1. PICK new \in Row : /\ hb' = [hb EXCEPT ![h] = new]
                             /\ new.started = NoTime /\ new.seen = hb[h].seen
      BY <2>2, MarkEffect
    <3>2. Exists(h)
      BY <2>2 DEF MarkDown, Unmoved
    <3>3. \A k \in Ids : Exists(k)' =>
            Exists(k) /\ hb'[k].seen = hb[k].seen /\ hb'[k].started \in {NoTime, hb[k].started}
      BY <3>1, <3>2 DEF Exists, TypeInv, HeartbeatTypeOK
    <3> QED BY <2>1, <3>3, StampsKept DEF InFlight
  <2>3. CASE UNCHANGED <<hb, downs>>
    BY <2>1, <2>3, StampsKept DEF InFlight, Exists
  <2> QED BY <1>6, <2>2, <2>3 DEF WatchMark
<1>7. ASSUME NEW n \in Names, NEW p \in Periods, NEW g \in Graces, CreateHeartbeat(n, p, g)
      PROVE  StampInv'
  <2>1. PICK h \in Ids : \/ h \in Named(n) /\ hb' = [hb EXCEPT ![h].period = p, ![h].grace = g]
                         \/ NewId(h) /\ hb' = [hb EXCEPT ![h] = NewRow(n, p, g)]
    BY <1>7 DEF CreateHeartbeat
  <2>2. PICK new \in Row :
            /\ hb' = [hb EXCEPT ![h] = new]
            /\ \/ Exists(h) /\ new.seen = hb[h].seen /\ new.started = hb[h].started
               \/ new.seen = NoTime /\ new.started = NoTime
    BY <2>1, UpsertEffect
  <2>3. \A k \in Ids : Exists(k)' =>
                \/ Exists(k) /\ hb'[k].seen = hb[k].seen /\ hb'[k].started \in {NoTime, hb[k].started}
                \/ hb'[k].seen = NoTime /\ hb'[k].started = NoTime
    BY <2>2 DEF Exists, TypeInv, HeartbeatTypeOK
  <2> QED BY <1>7, <2>3, StampsKept DEF CreateHeartbeat, InFlight
<1>8. ASSUME NEW h \in Ids, DeleteHeartbeat(h) PROVE StampInv'
  <2>1. \A k \in Ids : Exists(k)' => Exists(k) /\ hb'[k] = hb[k]
    BY <1>8 DEF DeleteHeartbeat, Exists, TypeInv, HeartbeatTypeOK
  <2> QED BY <1>8, <2>1, StampsKept DEF DeleteHeartbeat, InFlight
<1>9. CASE Restart
  <2>1. \A p \in Requests : ~InFlight(p)'
    BY <1>9 DEF Restart, InFlight, Idle
  <2> QED BY <1>9, <2>1, StampsKept DEF Restart, Exists
<1>10. CASE Pass
  <2>1. now' = now + 1 /\ hb' = hb /\ req' = req
    BY <1>10 DEF Pass
  <2>2. \A p \in Requests : req[p].at \in Nat
    BY TimeFacts, RequestsTyped DEF TypeInv, RequestsOK, Request
  <2> QED BY <1>0, <2>1, <2>2 DEF TypeInv, StampInv, InFlight, Exists
<1>11. CASE UNCHANGED vars
  BY <1>11, StampsKept DEF vars, InFlight, Exists
<1> QED BY <1>1, <1>2, <1>3, <1>4, <1>5, <1>6, <1>7, <1>8, <1>9, <1>10, <1>11 DEF Next, Check

-----------------------------------------------------------------------------
(* The watcher and the pings.                                              *)

\* When no request starts, the pass of the watcher keeps what it has left, and
\* its rows are neither born nor pinged into what was observed, the observation
\* stays good.
LEMMA ObservedKept ==
    ASSUME ObservedInv, now' = now,
           watchTodo' \subseteq watchTodo,
           \A h \in watchTodo' : watchRow'[h] = watchRow[h],
           \A q \in Requests : InFlight(q)' => InFlight(q) /\ req'[q].at = req[q].at,
           \A h \in watchTodo' : hb'[h] # Unborn,
           \A h \in watchTodo' : h \in touched' => ~Unmoved(h)'
    PROVE  ObservedInv'
BY DEF ObservedInv

\* A row the watcher has observed stays as it was observed or moved on, unless a
\* ping changes it: edits and removals never bring an observation back.
LEMMA UnmovedKept ==
    ASSUME ObservedInv, touched' = touched, NEW h \in watchTodo, watchRow'[h] = watchRow[h],
           Exists(h)' => /\ Exists(h) /\ hb'[h].status = hb[h].status
                         /\ hb'[h].seen = hb[h].seen /\ hb'[h].started = hb[h].started
    PROVE  h \in touched' => ~Unmoved(h)'
BY DEF ObservedInv, Unmoved

\* Every step keeps the watcher's observation good.
LEMMA ObservedStep == TypeInv /\ ObservedInv /\ [Next]_vars => ObservedInv'
<1> SUFFICES ASSUME TypeInv, ObservedInv, [Next]_vars PROVE ObservedInv'
  OBVIOUS
<1> watchTodo \subseteq Ids
  BY DEF TypeInv, HeartbeatTypeOK
<1>0. now \in Nat /\ \A h \in watchTodo : watchRow[h].seen \in Nat /\ watchRow[h].started \in Nat
  <2>1. \A h \in watchTodo : watchRow[h] \in Row
    BY DEF TypeInv, HeartbeatTypeOK, ObservedInv
  <2> QED BY <2>1, TimeFacts DEF TypeInv, HeartbeatTypeOK, Row
<1>1. ASSUME NEW q \in Requests, Arrive(q) PROVE ObservedInv'
  <2>1. /\ now' = now + 1 /\ req'[q].at = now'
        /\ \A p \in Requests : p # q => req'[p] = req[p]
    BY <1>1, ArriveEffect
  <2>2. UNCHANGED <<hb, watchTodo, watchRow, touched>>
    BY <1>1 DEF Arrive, watchVars, historyVars
  <2>3. \A p \in Requests : InFlight(p)' => p = q \/ (InFlight(p) /\ req'[p].at = req[p].at)
    BY <2>1 DEF InFlight
  <2>4. \A h \in watchTodo : watchRow[h].seen <= now' /\ watchRow[h].started <= now'
    BY <1>0, <2>1 DEF ObservedInv
  <2>5. \A h \in watchTodo, p \in Requests : InFlight(p)' =>
            watchRow[h].seen # req'[p].at /\ watchRow[h].started # req'[p].at
    BY <1>0, <2>1, <2>3 DEF ObservedInv
  <2>6. \A h \in watchTodo : h \in touched' => ~Unmoved(h)'
    BY <2>2 DEF ObservedInv, Unmoved, Exists
  <2> QED BY <2>2, <2>4, <2>5, <2>6 DEF ObservedInv
<1>2. ASSUME NEW q \in Requests, Refuse(q) PROVE ObservedInv'
  <2>1. \A p \in Requests : InFlight(p)' => InFlight(p) /\ req'[p].at = req[p].at
    BY <1>2, RequestsTyped DEF Refuse, InFlight, Idle, TypeInv, RequestsOK
  <2>2. UNCHANGED <<hb, now, watchTodo, watchRow, touched>>
    BY <1>2 DEF Refuse, watchVars, historyVars
  <2>3. \A h \in watchTodo : h \in touched' => ~Unmoved(h)'
    BY <2>2 DEF ObservedInv, Unmoved, Exists
  <2> QED BY <2>1, <2>2, <2>3, ObservedKept DEF ObservedInv
<1>3. ASSUME NEW h \in Ids, UNCHANGED <<now, watchTodo, watchRow, touched>>,
             \A p \in Requests : InFlight(p)' => InFlight(p) /\ req'[p].at = req[p].at,
             \E new \in Row :
                /\ hb' = [hb EXCEPT ![h] = new]
                /\ \/ /\ Exists(h) /\ new.status = hb[h].status
                      /\ new.seen = hb[h].seen /\ new.started = hb[h].started
                   \/ hb[h] = Unborn
      PROVE  ObservedInv'
  <2>1. PICK new \in Row :
                /\ hb' = [hb EXCEPT ![h] = new]
                /\ \/ /\ Exists(h) /\ new.status = hb[h].status
                      /\ new.seen = hb[h].seen /\ new.started = hb[h].started
                   \/ hb[h] = Unborn
    BY <1>3
  <2>2. \A k \in watchTodo : hb'[k] # Unborn
    BY <2>1, RowAssumption DEF ObservedInv, TypeInv, HeartbeatTypeOK
  <2>3. \A k \in watchTodo : Exists(k)' =>
            /\ Exists(k) /\ hb'[k].status = hb[k].status
            /\ hb'[k].seen = hb[k].seen /\ hb'[k].started = hb[k].started
    BY <2>1 DEF ObservedInv, TypeInv, HeartbeatTypeOK, Exists
  <2>4. \A k \in watchTodo : k \in touched' => ~Unmoved(k)'
    BY <1>3, <2>3, UnmovedKept
  <2> QED BY <1>3, <2>2, <2>4, ObservedKept
<1>4. ASSUME NEW q \in Requests, ResolveSlug(q) PROVE ObservedInv'
  <2>1. UNCHANGED <<now, watchTodo, watchRow, touched>>
    BY <1>4 DEF ResolveSlug, watchVars, historyVars
  <2>2. PICK h \in Ids :
            /\ req' = [req EXCEPT ![q].step = "record", ![q].id = h]
            /\ \/ UNCHANGED hb
               \/ \E p \in Periods, g \in Graces :
                    NewId(h) /\ hb' = [hb EXCEPT ![h] = NewRow(req[q].name, p, g)]
    BY <1>4, SlugEffect
  <2>3. \A p \in Requests : InFlight(p)' => InFlight(p) /\ req'[p].at = req[p].at
    <3> DEFINE r == [req[q] EXCEPT !.step = "record", !.id = h]
    <3>1. req \in [Requests -> Request]
      BY RequestsTyped DEF TypeInv, RequestsOK
    <3>2. req' = [req EXCEPT ![q] = r]
      BY <2>2, <3>1
    <3>3. r.at = req[q].at
      BY <3>1 DEF Request
    <3>4. InFlight(q)
      BY <1>4 DEF ResolveSlug, InFlight
    <3> HIDE DEF r
    <3> QED BY <3>1, <3>2, <3>3, <3>4 DEF InFlight
  <2>4. CASE UNCHANGED hb
    <3>1. \A k \in watchTodo : k \in touched' => ~Unmoved(k)'
      BY <2>1, <2>4 DEF ObservedInv, Unmoved, Exists
    <3> QED BY <2>1, <2>3, <2>4, <3>1, ObservedKept DEF ObservedInv
  <2>5. CASE \E p \in Periods, g \in Graces :
                    NewId(h) /\ hb' = [hb EXCEPT ![h] = NewRow(req[q].name, p, g)]
    <3>1. PICK p \in Periods, g \in Graces :
                    NewId(h) /\ hb' = [hb EXCEPT ![h] = NewRow(req[q].name, p, g)]
      BY <2>5
    <3>2. NewRow(req[q].name, p, g) \in Row
      BY <1>4, SlugEffect, NewRowIsRow DEF TypeInv
    <3> QED BY <1>3, <2>1, <2>3, <3>1, <3>2 DEF NewId
  <2> QED BY <2>2, <2>4, <2>5
<1>5. ASSUME NEW q \in Requests, Record(q) PROVE ObservedInv'
  <2> DEFINE h == req[q].id
  <2>1. \A p \in Requests : InFlight(p)' => InFlight(p) /\ req'[p].at = req[p].at
    BY <1>5, RequestsTyped DEF Record, InFlight, Idle, TypeInv, RequestsOK
  <2>2. UNCHANGED <<now, watchTodo, watchRow>>
    BY <1>5 DEF Record, watchVars
  <2>3. CASE ~Exists(h)
    <3>1. UNCHANGED <<hb, touched>>
      BY <1>5, <2>3 DEF Record, historyVars
    <3>2. \A k \in watchTodo : k \in touched' => ~Unmoved(k)'
      BY <2>2, <3>1 DEF ObservedInv, Unmoved, Exists
    <3> QED BY <2>1, <2>2, <3>1, <3>2, ObservedKept DEF ObservedInv
  <2>4. CASE Exists(h)
    <3>1. h \in Ids /\ InFlight(q)
      BY <1>5, <2>4, RecordEffect
    <3>2. PICK new \in Row :
            /\ hb' = [hb EXCEPT ![h] = new]
            /\ \/ new.seen = req[q].at
               \/ new.started = req[q].at
               \/ req[q].kind = "log" /\ new = hb[h]
      BY <1>5, <2>4, RecordEffect
    <3>3. touched' = IF req[q].kind # "log" THEN touched \cup {h} ELSE touched
      BY <1>5, <2>4 DEF Record
    <3>4. \A k \in watchTodo : hb'[k] # Unborn
      BY <3>1, <3>2, RowAssumption DEF ObservedInv, TypeInv, HeartbeatTypeOK
    <3>5. ASSUME NEW k \in watchTodo, k \in touched' PROVE ~Unmoved(k)'
      <4>1. CASE k # h
        BY <2>2, <3>2, <3>3, <3>5, <4>1 DEF ObservedInv, Unmoved, Exists, TypeInv, HeartbeatTypeOK
      <4>2. CASE k = h
        <5>1. hb'[k] = new
          BY <3>1, <3>2, <4>2 DEF TypeInv, HeartbeatTypeOK
        <5>2. watchRow'[k].seen # req[q].at /\ watchRow'[k].started # req[q].at
          BY <2>2, <3>1 DEF ObservedInv
        <5>3. CASE req[q].kind = "log" /\ new = hb[h]
          BY <2>2, <3>3, <3>5, <4>2, <5>1, <5>3 DEF ObservedInv, Unmoved, Exists
        <5>4. CASE new.seen = req[q].at \/ new.started = req[q].at
          BY <5>1, <5>2, <5>4 DEF Unmoved
        <5> QED BY <3>2, <5>3, <5>4
      <4> QED BY <4>1, <4>2
    <3> QED BY <2>1, <2>2, <3>4, <3>5, ObservedKept
  <2> QED BY <2>3, <2>4
<1>6. CASE WatchList
  <2>1. /\ UNCHANGED <<hb, now, req>> /\ touched' = {} /\ watchTodo' \subseteq Ids
        /\ \A h \in watchTodo' : watchRow'[h] = hb[h] /\ Overdue(h)
    BY <1>6 DEF WatchList, DueHeartbeats
  <2>2. \A h \in watchTodo' : hb[h] # Unborn /\ Exists(h) /\ hb[h].status # "down"
    BY <2>1 DEF Overdue, Watched, Exists
  <2> QED BY <2>1, <2>2 DEF ObservedInv, TypeInv, StampInv, InFlight
<1>7. ASSUME NEW h \in Ids, WatchMark(h) PROVE ObservedInv'
  <2>1. /\ UNCHANGED <<now, req, touched>> /\ watchTodo' = watchTodo \ {h}
        /\ \A k \in watchTodo' : watchRow'[k] = watchRow[k]
    BY <1>7 DEF WatchMark, TypeInv, HeartbeatTypeOK
  <2>2. \A k \in watchTodo' : hb'[k] = hb[k]
    BY <1>7, <2>1 DEF WatchMark, MarkDown, TypeInv, HeartbeatTypeOK
  <2>3. \A k \in watchTodo' : k \in touched' => ~Unmoved(k)'
    BY <2>1, <2>2 DEF ObservedInv, Unmoved, Exists
  <2> QED BY <2>1, <2>2, <2>3, ObservedKept DEF ObservedInv, InFlight
<1>8. ASSUME NEW n \in Names, NEW p \in Periods, NEW g \in Graces, CreateHeartbeat(n, p, g)
      PROVE  ObservedInv'
  <2>1. PICK h \in Ids : \/ h \in Named(n) /\ hb' = [hb EXCEPT ![h].period = p, ![h].grace = g]
                         \/ NewId(h) /\ hb' = [hb EXCEPT ![h] = NewRow(n, p, g)]
    BY <1>8 DEF CreateHeartbeat
  <2>2. \E new \in Row :
                /\ hb' = [hb EXCEPT ![h] = new]
                /\ \/ /\ Exists(h) /\ new.status = hb[h].status
                      /\ new.seen = hb[h].seen /\ new.started = hb[h].started
                   \/ hb[h] = Unborn
    BY <2>1, UpsertEffect
  <2>3. UNCHANGED <<now, watchTodo, watchRow, touched>> /\ req' = req
    BY <1>8 DEF CreateHeartbeat, watchVars, historyVars
  <2> QED BY <1>3, <2>2, <2>3 DEF InFlight
<1>9. ASSUME NEW h \in Ids, DeleteHeartbeat(h) PROVE ObservedInv'
  <2>1. UNCHANGED <<now, watchTodo, watchRow, touched>> /\ req' = req
    BY <1>9 DEF DeleteHeartbeat, watchVars, historyVars
  <2>2. \A k \in watchTodo : hb'[k] # Unborn /\ (Exists(k)' => Exists(k) /\ hb'[k] = hb[k])
    BY <1>9, RowAssumption DEF DeleteHeartbeat, ObservedInv, Exists, TypeInv, HeartbeatTypeOK
  <2>3. \A k \in watchTodo : k \in touched' => ~Unmoved(k)'
    BY <2>1, <2>2, UnmovedKept
  <2> QED BY <2>1, <2>2, <2>3, ObservedKept DEF InFlight
<1>10. CASE Restart
  BY <1>10 DEF Restart, ObservedInv
<1>11. CASE Pass
  <2>1. now' = now + 1 /\ UNCHANGED <<hb, req, watchTodo, watchRow, touched>>
    BY <1>11 DEF Pass, watchVars, historyVars
  <2>2. \A k \in watchTodo : k \in touched' => ~Unmoved(k)'
    BY <2>1 DEF ObservedInv, Unmoved, Exists
  <2>3. \A k \in watchTodo : watchRow[k].seen <= now' /\ watchRow[k].started <= now'
    BY <1>0, <2>1 DEF ObservedInv
  <2> QED BY <2>1, <2>2, <2>3 DEF ObservedInv, InFlight
<1>12. CASE UNCHANGED vars
  BY <1>12 DEF vars, ObservedInv, InFlight, Unmoved, Exists
<1> QED BY <1>1, <1>2, <1>4, <1>5, <1>6, <1>7, <1>8, <1>9, <1>10, <1>11, <1>12 DEF Next, Check

-----------------------------------------------------------------------------
(* The theorems.                                                           *)

Inv == HeartbeatTypeOK /\ StampInv /\ ObservedInv /\ OncePerOutage

\* The inductive invariant holds in every reachable state.
THEOREM Invariance == Spec => []Inv
<1>1. Init => Inv
  BY TypeInit DEF Inv
<1>2. Inv /\ [Next]_vars => Inv'
  BY TypeStep, StampStep, ObservedStep, OutageStep DEF Inv, TypeInv
<1> QED BY <1>1, <1>2, PTL DEF Spec

\* The rows, the requests and the watcher's copies have their types.
THEOREM TypeCorrect == Spec => []HeartbeatTypeOK
<1>1. Inv => HeartbeatTypeOK
  BY DEF Inv
<1> QED BY <1>1, Invariance, PTL

\* Alerts and recoveries of a heartbeat alternate, and it is down exactly while
\* an alert is open, however pings, the watcher, syncs and restarts interleave.
THEOREM AlertsOncePerOutage == Spec => []OncePerOutage
<1>1. Inv => OncePerOutage
  BY DEF Inv
<1> QED BY <1>1, Invariance, PTL

\* The guard of MarkHeartbeatDownAndEmit on three columns is enough: a heartbeat
\* pinged since the watcher read it is not taken down.
THEOREM NoSpuriousMiss == Spec => PingWinsRace
<1>1. Inv /\ [Next]_vars =>
        [\A h \in Ids : WatchMark(h) /\ hb'[h] # hb[h] => h \notin touched]_vars
  <2> SUFFICES ASSUME Inv, NEW h \in Ids, WatchMark(h), hb'[h] # hb[h]
               PROVE  h \notin touched
    OBVIOUS
  <2>1. MarkDown(h) /\ h \in watchTodo
    BY DEF WatchMark
  <2>2. Unmoved(h)
    BY <2>1 DEF MarkDown
  <2> QED BY <2>1, <2>2 DEF Inv, ObservedInv
<1> QED BY <1>1, Invariance, PTL DEF Spec, PingWinsRace

-----------------------------------------------------------------------------
(* The ping log: each start is paired with at most one completion,         *)
(* whatever the budgets, the window, the stamps and the sweeps.  A         *)
(* completion that was paired with a start comes after it in the log and   *)
(* is stamped no earlier.  The trims drop entries from the old end of the  *)
(* log, and the window and the sweep drop the earlier stamps, so neither   *)
(* can hide the completion and keep the start; runDuration then finds the  *)
(* completion.                                                             *)

\* A trim keeps a part of the log, and with an entry every newer one.
Suffix(kept, entries) ==
    /\ kept \subseteq entries
    /\ \A e \in kept, f \in entries : f.id >= e.id => f \in kept

\* Both trims of recordHeartbeatPing keep the newest entries of the log.
LEMMA TrimsKeepSuffix ==
    ASSUME NEW entries \in SUBSET Entry
    PROVE  /\ Suffix(TrimEntries(entries), entries)
           /\ Suffix(TrimBytes(entries), entries)
<1>1. ASSUME NEW cut \in SUBSET entries
      PROVE  Suffix({e \in entries : \A c \in cut : e.id > c.id}, entries)
  BY BoundsAssumption DEF Suffix, Entry
<1>2. Suffix(TrimEntries(entries), entries)
  <2> DEFINE cut == {e \in entries : Cardinality({f \in entries : f.id > e.id}) = MaxPings}
  <2>1. Suffix({e \in entries : \A c \in cut : e.id > c.id}, entries)
    <3> cut \in SUBSET entries OBVIOUS
    <3> HIDE DEF cut
    <3> QED BY <1>1
  <2> QED BY <2>1 DEF TrimEntries
<1>3. Suffix(TrimBytes(entries), entries)
  <2> DEFINE over == {e \in entries : Bytes({f \in entries : f.id >= e.id}) > MaxBytes}
  <2>1. Suffix({e \in entries : \A c \in over : e.id > c.id}, entries)
    <3> over \in SUBSET entries OBVIOUS
    <3> HIDE DEF over
    <3> QED BY <1>1
  <2> QED BY <2>1 DEF TrimBytes
<1> QED BY <1>2, <1>3

\* A suffix of a suffix is a suffix, so the two trims together keep one.
LEMMA TrimmedIsSuffix ==
    ASSUME NEW entries \in SUBSET Entry
    PROVE  Suffix(TrimBytes(TrimEntries(entries)), entries)
<1>1. Suffix(TrimEntries(entries), entries)
  BY TrimsKeepSuffix
<1>2. TrimEntries(entries) \in SUBSET Entry
  BY <1>1 DEF Suffix
<1>3. Suffix(TrimBytes(TrimEntries(entries)), TrimEntries(entries))
  BY <1>2, TrimsKeepSuffix
<1> QED BY <1>1, <1>3 DEF Suffix

LogInv == LogTypeOK /\ PairInv /\ PairedOnce

\* The empty log satisfies the invariant.
LEMMA LogStarts == LogInit => LogInv
<1> SUFFICES ASSUME LogInit PROVE LogInv
  OBVIOUS
<1>1. log \subseteq Entry /\ pairs \subseteq (1..MaxId) \X (1..MaxId) /\ deleted \in BOOLEAN
  BY DEF LogInit
<1>2. nextId \in 1..(MaxId + 1) /\ logNow \in 0..LogMaxTime
  BY BoundsAssumption DEF LogInit
<1>3. PairInv /\ PairedOnce
  BY DEF LogInit, PairInv, PairedOnce
<1> QED BY <1>1, <1>2, <1>3 DEF LogInv, LogTypeOK

\* Recording a ping keeps the invariant.
LEMMA RecordKeeps ==
    ASSUME LogInv, NEW kind \in LogKinds, NEW rid \in LogRids, NEW at \in 0..LogMaxTime, NEW bytes \in Sizes,
           LogPing(kind, rid, at, bytes)
    PROVE  LogInv'
<1> DEFINE entry == [id |-> nextId, kind |-> kind, rid |-> rid, at |-> at, bytes |-> bytes]
           starts == PairedStart(kind, rid, at)
<1>1. entry \in Entry
  BY BoundsAssumption DEF LogPing, Entry, LogInv, LogTypeOK
<1>2. Suffix(log', log \cup {entry})
  <2>1. log \cup {entry} \in SUBSET Entry
    BY <1>1 DEF LogInv, LogTypeOK
  <2>2. log' = TrimBytes(TrimEntries(log \cup {entry}))
    BY DEF LogPing
  <2> HIDE DEF entry
  <2> QED BY <2>1, <2>2, TrimmedIsSuffix
<1>3. /\ pairs' = pairs \cup {<<s.id, nextId>> : s \in starts}
      /\ nextId' = nextId + 1 /\ nextId <= MaxId /\ logNow' = logNow /\ deleted' = deleted
  BY DEF LogPing
<1>4. \A s \in starts : s \in log /\ s.rid = rid /\ Ends(kind) /\ s.kind = "start" /\ s.at <= at
  BY DEF PairedStart, InWindow
<1>5. LogTypeOK'
  <2>1. log' \subseteq Entry
    BY <1>1, <1>2 DEF Suffix, LogInv, LogTypeOK
  <2>2. nextId' \in 1..(MaxId + 1)
    BY <1>3, BoundsAssumption DEF LogInv, LogTypeOK
  <2>3. \A s \in starts : <<s.id, nextId>> \in (1..MaxId) \X (1..MaxId)
    BY <1>3, <1>4 DEF LogInv, LogTypeOK, Entry
  <2> QED BY <1>3, <2>1, <2>2, <2>3 DEF LogInv, LogTypeOK
<1>6. /\ \A e, f \in log' : e.id = f.id => e = f
      /\ \A e \in log' : e.id < nextId'
  <2>1. \A e \in log \cup {entry} : e.id < nextId'
    BY <1>3, BoundsAssumption DEF LogInv, LogTypeOK, PairInv, Entry
  <2>2. \A e, f \in log \cup {entry} : e.id = f.id => e = f
    BY <1>3, BoundsAssumption DEF LogInv, LogTypeOK, PairInv, Entry
  <2> QED BY <1>2, <2>1, <2>2 DEF Suffix
<1>7. \A p \in pairs' : p[1] < nextId' /\ p[2] < nextId'
  <2>1. \A p \in pairs : p[1] < nextId' /\ p[2] < nextId'
    BY <1>3, BoundsAssumption DEF LogInv, LogTypeOK, PairInv
  <2>2. \A s \in starts : s.id < nextId' /\ nextId < nextId'
    BY <1>3, <1>4, BoundsAssumption DEF LogInv, LogTypeOK, PairInv, Entry
  <2> QED BY <1>3, <2>1, <2>2
<1>8. \A p \in pairs' : \A s \in log' : s.id = p[1] =>
          \E c \in log' : /\ c.id = p[2] /\ c.id > s.id
                          /\ c.rid = s.rid /\ Ends(c.kind) /\ c.at >= s.at
  <2> SUFFICES ASSUME NEW p \in pairs', NEW s \in log', s.id = p[1]
               PROVE  \E c \in log' : /\ c.id = p[2] /\ c.id > s.id
                                      /\ c.rid = s.rid /\ Ends(c.kind) /\ c.at >= s.at
    OBVIOUS
  <2>1. s \in log \cup {entry} /\ s \in Entry
    BY <1>1, <1>2 DEF Suffix, LogInv, LogTypeOK
  <2>2. CASE p \in pairs
    <3>1. s \in log
      BY <2>1, <2>2, BoundsAssumption DEF LogInv, LogTypeOK, PairInv
    <3>2. PICK c \in log : /\ c.id = p[2] /\ c.id > s.id
                           /\ c.rid = s.rid /\ Ends(c.kind) /\ c.at >= s.at
      BY <2>2, <3>1 DEF LogInv, PairInv
    <3>3. c \in log'
      BY <1>2, <3>2, <2>1, BoundsAssumption DEF Suffix, LogInv, LogTypeOK, Entry
    <3> QED BY <3>2, <3>3
  <2>3. CASE p \notin pairs
    <3>1. PICK t \in starts : p = <<t.id, nextId>>
      BY <1>3, <2>3
    <3>2. t \in log /\ t.id < nextId /\ t \in Entry
      BY <1>4, <3>1 DEF LogInv, LogTypeOK, PairInv
    <3>3. s = t
      <4>1. s # entry
        BY <3>1, <3>2, BoundsAssumption DEF Entry, LogInv, LogTypeOK
      <4> QED BY <2>1, <3>1, <3>2, <4>1 DEF LogInv, PairInv
    <3>4. entry \in log'
      BY <1>2, <2>1, <3>2, <3>3, BoundsAssumption DEF Suffix, LogInv, LogTypeOK, Entry
    <3>5. entry.id > s.id /\ entry.rid = s.rid /\ Ends(entry.kind) /\ entry.at >= s.at
      BY <1>4, <3>1, <3>2, <3>3, BoundsAssumption DEF Entry, LogInv, LogTypeOK
    <3> QED BY <3>1, <3>4, <3>5
  <2> QED BY <2>2, <2>3
<1>9. PairedOnce'
  <2> SUFFICES ASSUME NEW p \in pairs', NEW q \in pairs', p[1] = q[1]
               PROVE  p = q
    BY DEF PairedOnce
  <2>1. ASSUME NEW t \in starts, NEW r \in pairs, r[1] = t.id
        PROVE  FALSE
    <3>1. t \in log /\ t.rid = rid
      BY <1>4
    <3>2. PICK c \in log : /\ c.id = r[2] /\ c.id > t.id
                           /\ c.rid = t.rid /\ Ends(c.kind) /\ c.at >= t.at
      BY <2>1, <3>1 DEF LogInv, PairInv
    <3>3. t \in InWindow(rid, at) /\ \A f \in InWindow(rid, at) : f.id <= t.id
      BY DEF PairedStart
    <3>4. c.at >= at - MaxRun
      <4>1. t.at >= at - MaxRun /\ t.at \in Int /\ c.at \in Int /\ at \in Int /\ MaxRun \in Int
        BY <3>1, <3>2, <3>3, BudgetAssumption, BoundsAssumption DEF InWindow, LogInv, LogTypeOK, Entry
      <4> QED BY <3>2, <4>1
    <3>5. c \in InWindow(rid, at)
      BY <3>1, <3>2, <3>4 DEF InWindow, Ends
    <3>6. t.id \in Int /\ c.id \in Int
      BY <3>1, <3>2 DEF LogInv, LogTypeOK, Entry
    <3> QED BY <3>2, <3>3, <3>5, <3>6
  <2>2. CASE p \in pairs /\ q \in pairs
    BY <2>2 DEF LogInv, PairedOnce
  <2>3. CASE p \in pairs /\ q \notin pairs
    BY <1>3, <2>1, <2>3
  <2>4. CASE p \notin pairs /\ q \in pairs
    BY <1>3, <2>1, <2>4
  <2>5. CASE p \notin pairs /\ q \notin pairs
    BY <1>3, <2>5
  <2> QED BY <2>2, <2>3, <2>4, <2>5
<1> QED BY <1>5, <1>6, <1>7, <1>8, <1>9 DEF LogInv, PairInv

\* Removing the entries stamped before a cutoff keeps the invariant: a
\* completion is never older than the start it is paired with.
LEMMA PruneKeeps ==
    ASSUME LogInv, NEW before \in 0..LogMaxTime, Prune(before)
    PROVE  LogInv'
<1>1. LogTypeOK'
  BY DEF LogInv, LogTypeOK, Prune
<1>2. PairedOnce'
  BY DEF LogInv, PairedOnce, Prune
<1>3. \A p \in pairs' : \A s \in log' : s.id = p[1] =>
          \E c \in log' : /\ c.id = p[2] /\ c.id > s.id
                          /\ c.rid = s.rid /\ Ends(c.kind) /\ c.at >= s.at
  <2> SUFFICES ASSUME NEW p \in pairs, NEW s \in log, s.at >= before, s.id = p[1]
               PROVE  \E c \in log : /\ c.at >= before /\ c.id = p[2] /\ c.id > s.id
                                     /\ c.rid = s.rid /\ Ends(c.kind) /\ c.at >= s.at
    BY DEF Prune
  <2>1. PICK c \in log : /\ c.id = p[2] /\ c.id > s.id
                         /\ c.rid = s.rid /\ Ends(c.kind) /\ c.at >= s.at
    BY DEF LogInv, PairInv
  <2>2. c.at >= before
    BY <2>1, BoundsAssumption DEF LogInv, LogTypeOK, Entry
  <2> QED BY <2>1, <2>2
<1> QED BY <1>1, <1>2, <1>3 DEF LogInv, PairInv, Prune

\* Every step keeps the invariant.
LEMMA LogStep == LogInv /\ [LogNext]_logVars => LogInv'
<1> SUFFICES ASSUME LogInv, [LogNext]_logVars PROVE LogInv'
  OBVIOUS
<1>1. CASE Delete
  BY <1>1 DEF LogInv, LogTypeOK, PairInv, PairedOnce, Delete
<1>2. CASE LogPass
  BY <1>2, BoundsAssumption DEF LogInv, LogTypeOK, PairInv, PairedOnce, LogPass
<1>3. CASE UNCHANGED logVars
  BY <1>3 DEF LogInv, LogTypeOK, PairInv, PairedOnce, logVars
<1> QED BY <1>1, <1>2, <1>3, RecordKeeps, PruneKeeps DEF LogNext

\* runDuration gives the time since a start to one completion at most, for
\* every window, budget, order of recording and schedule of the sweep.
THEOREM StartPairedOnce == LogSpec => []PairedOnce
<1>1. LogInv => PairedOnce
  BY DEF LogInv
<1> QED BY <1>1, LogStarts, LogStep, PTL DEF LogSpec

-----------------------------------------------------------------------------
(* The budgets of the ping log.  Bytes is a sum over a set, so first: the  *)
(* sum over a finite set of entries is a number, and over one entry its    *)
(* size.  A recording adds one entry to a log within the entry budget, so  *)
(* the trim by entries drops the oldest or nothing; the trim by bytes      *)
(* keeps the longest suffix that fits, which holds at least the new entry. *)

\* A set of naturals that is not empty has a least element.
LEMMA LeastNatural ==
    ASSUME NEW T \in SUBSET Nat, T # {}
    PROVE  \E x \in T : \A y \in T : x <= y
<1> DEFINE R == {ss \in Nat \X Nat : ss[1] < ss[2]}
<1>1. IsWellFoundedOn(R, Nat)
  BY NatLessThanWellFounded DEF OpToRel
<1>2. \A x, y \in Nat : <<y, x>> \in R <=> y < x
  OBVIOUS
<1> HIDE DEF R
<1>3. PICK x \in T : \A y \in T : ~ (<<y, x>> \in R)
  BY <1>1, WFMin
<1>4. ASSUME NEW y \in T
      PROVE  x <= y
  <2>1. x \in Nat /\ y \in Nat
    OBVIOUS
  <2>2. ~(y < x)
    BY <1>2, <1>3, <2>1
  <2> QED BY <2>1, <2>2
<1> QED BY <1>4

\* An entry has a numeric id, and its body fits the byte budget by itself.
LEMMA EntryNumbers ==
    ASSUME NEW e \in Entry
    PROVE  e.id \in 1..MaxId /\ e.id \in Nat /\ e.bytes \in Nat /\ e.bytes <= MaxBytes
<1>1. e.bytes \in Sizes /\ e.id \in 1..MaxId
  BY DEF Entry
<1>2. e.bytes \in 0..MaxBytes
  BY <1>1, SizesAssumption
<1>3. e.bytes \in Nat /\ e.bytes <= MaxBytes
  BY <1>2, BudgetAssumption
<1>4. e.id \in Nat
  BY <1>1, BoundsAssumption
<1> QED BY <1>1, <1>3, <1>4

\* The entry the sum over a set takes next, and the equation the sum solves.
Pick(s) == CHOOSE x \in s : TRUE
SumEq(f, s) == f[s] = IF s = {} THEN 0 ELSE Pick(s).bytes + f[s \ {Pick(s)}]
Sums(S, f) == f = [s \in SUBSET S |-> IF s = {} THEN 0 ELSE Pick(s).bytes + f[s \ {Pick(s)}]]

\* Bytes is the sum that solves the equation.
LEMMA BytesIsSum ==
    ASSUME NEW S
    PROVE  Bytes(S) = (CHOOSE f : Sums(S, f))[S]
BY DEF Bytes, MapThenSumSet, MapThenFoldSet, Sums, Pick

\* Taking one entry away leaves a smaller set.
LEMMA Picked ==
    ASSUME NEW S, IsFiniteSet(S), S \subseteq Entry, NEW s \in SUBSET S, s # {}
    PROVE  /\ Pick(s) \in s /\ Pick(s).bytes \in Nat
           /\ s \ {Pick(s)} \in SUBSET S
           /\ Cardinality(s) \in Nat /\ Cardinality(s \ {Pick(s)}) \in Nat
           /\ Cardinality(s \ {Pick(s)}) = Cardinality(s) - 1
<1>1. Pick(s) \in s
  BY DEF Pick
<1>2. Pick(s).bytes \in Nat
  <2>1. Pick(s) \in Entry
    BY <1>1
  <2> QED BY <2>1, EntryNumbers
<1>3. IsFiniteSet(s)
  BY FS_Subset
<1>4. Cardinality(s) \in Nat /\ IsFiniteSet(s \ {Pick(s)}) /\ Cardinality(s \ {Pick(s)}) = Cardinality(s) - 1
  BY <1>1, <1>3, FS_CardinalityType, FS_RemoveElement
<1>5. Cardinality(s \ {Pick(s)}) \in Nat
  BY <1>4, FS_CardinalityType
<1> QED BY <1>1, <1>2, <1>4, <1>5

\* The sum over the sets of at most n entries.
Level(S, n) == {s \in SUBSET S : Cardinality(s) <= n}
SumsTo(S, n, h) == h \in [Level(S, n) -> Nat] /\ \A s \in Level(S, n) : SumEq(h, s)

\* The equation is solved up to every size: a least size without a solution
\* would extend the solution of the size below.
LEMMA SumsToAll ==
    ASSUME NEW S, IsFiniteSet(S), S \subseteq Entry, NEW n \in Nat
    PROVE  \E h : SumsTo(S, n, h)
<1> SUFFICES ASSUME ~ \E h : SumsTo(S, n, h) PROVE FALSE
  OBVIOUS
<1> DEFINE T == {k \in Nat : ~ \E h : SumsTo(S, k, h)}
<1>1. T \in SUBSET Nat /\ T # {}
  OBVIOUS
<1>2. PICK k \in T : \A y \in T : k <= y
  <2> HIDE DEF T
  <2> QED BY <1>1, LeastNatural
<1>3. \A h : ~ SumsTo(S, k, h)
  BY <1>2
<1>4. \A s \in SUBSET S : IsFiniteSet(s) /\ Cardinality(s) \in Nat
  BY FS_Subset, FS_CardinalityType
<1>5. CASE k = 0
  <2> DEFINE h == [s \in Level(S, 0) |-> 0]
  <2>1. \A s \in Level(S, 0) : s = {}
    BY <1>4, FS_EmptySet DEF Level
  <2>2. SumsTo(S, 0, h)
    BY <2>1 DEF SumsTo, SumEq
  <2> QED BY <1>3, <1>5, <2>2
<1>6. CASE k # 0
  <2>1. k - 1 \in Nat /\ k - 1 \notin T /\ k \in Nat
    BY <1>2, <1>6
  <2>2. PICK g : SumsTo(S, k - 1, g)
    BY <2>1
  <2> DEFINE h == [s \in Level(S, k) |-> IF s = {} THEN 0 ELSE Pick(s).bytes + g[s \ {Pick(s)}]]
  <2>3. ASSUME NEW s \in Level(S, k), s # {}
        PROVE  /\ s \ {Pick(s)} \in Level(S, k - 1) /\ s \ {Pick(s)} \in Level(S, k)
               /\ Pick(s).bytes \in Nat
    <3>1. s \in SUBSET S /\ Cardinality(s) <= k
      BY DEF Level
    <3>2. /\ s \ {Pick(s)} \in SUBSET S /\ Pick(s).bytes \in Nat
          /\ Cardinality(s) \in Nat /\ Cardinality(s \ {Pick(s)}) = Cardinality(s) - 1
      BY <2>3, <3>1, Picked
    <3> QED BY <2>1, <3>1, <3>2 DEF Level
  <2>4. \A s \in Level(S, k - 1) : g[s] \in Nat /\ SumEq(g, s) /\ s \in Level(S, k)
    <3>1. \A s \in Level(S, k - 1) : s \in Level(S, k)
      BY <1>4, <2>1 DEF Level
    <3> QED BY <2>2, <3>1 DEF SumsTo
  <2>5. ASSUME NEW s \in Level(S, k) PROVE h[s] \in Nat /\ SumEq(h, s)
    <3>1. CASE s = {}
      BY <3>1 DEF SumEq
    <3>2. CASE s # {}
      <4> DEFINE t == s \ {Pick(s)}
      <4>1. t \in Level(S, k - 1) /\ t \in Level(S, k) /\ Pick(s).bytes \in Nat
        BY <2>3, <3>2
      <4>2. g[t] \in Nat /\ SumEq(g, t)
        BY <2>4, <4>1
      <4>3. h[t] = g[t]
        BY <4>1, <4>2 DEF SumEq
      <4>4. h[s] = Pick(s).bytes + g[t]
        BY <3>2
      <4> HIDE DEF h, t
      <4>5. h[s] \in Nat
        BY <4>1, <4>2, <4>4
      <4>6. h[s] = Pick(s).bytes + h[s \ {Pick(s)}]
        BY <4>3, <4>4 DEF t
      <4> QED BY <3>2, <4>5, <4>6 DEF SumEq
    <3> QED BY <3>1, <3>2
  <2>6. h = [s \in Level(S, k) |-> h[s]]
    OBVIOUS
  <2> HIDE DEF h
  <2>7. SumsTo(S, k, h)
    BY <2>5, <2>6 DEF SumsTo
  <2> QED BY <1>3, <2>7
<1> QED BY <1>5, <1>6

\* So it is solved for every finite set of entries,
LEMMA SumsExist ==
    ASSUME NEW S, IsFiniteSet(S), S \subseteq Entry
    PROVE  \E f : Sums(S, f)
<1>1. Cardinality(S) \in Nat
  BY FS_CardinalityType
<1>2. PICK h : SumsTo(S, Cardinality(S), h)
  BY <1>1, SumsToAll
<1>3. Level(S, Cardinality(S)) = SUBSET S
  BY FS_Subset DEF Level
<1>4. h = [s \in SUBSET S |-> h[s]] /\ \A s \in SUBSET S : SumEq(h, s)
  BY <1>2, <1>3 DEF SumsTo
<1>5. Sums(S, h)
  BY <1>4 DEF Sums, SumEq
<1> QED BY <1>5

\* and Bytes is computed by a solution.
LEMMA TheSum ==
    ASSUME NEW S, IsFiniteSet(S), S \subseteq Entry
    PROVE  \E f : Bytes(S) = f[S] /\ \A s \in SUBSET S : SumEq(f, s)
<1> DEFINE g == CHOOSE f : Sums(S, f)
<1>1. Sums(S, g)
  BY SumsExist
<1>2. Bytes(S) = g[S]
  BY BytesIsSum
<1> HIDE DEF g
<1>3. \A s \in SUBSET S : SumEq(g, s)
  <2> TAKE s \in SUBSET S
  <2>1. g = [r \in SUBSET S |-> IF r = {} THEN 0 ELSE Pick(r).bytes + g[r \ {Pick(r)}]]
    BY <1>1 DEF Sums
  <2> QED BY <2>1 DEF SumEq
<1> QED BY <1>2, <1>3

\* The bytes of a log are a number: a smallest log whose bytes are not would
\* have a smaller one.
LEMMA BytesIsNat ==
    ASSUME NEW S, IsFiniteSet(S), S \subseteq Entry
    PROVE  Bytes(S) \in Nat
<1>1. PICK f : Bytes(S) = f[S] /\ \A s \in SUBSET S : SumEq(f, s)
  BY TheSum
<1> SUFFICES ASSUME f[S] \notin Nat PROVE FALSE
  BY <1>1
<1> DEFINE T == {Cardinality(s) : s \in {r \in SUBSET S : f[r] \notin Nat}}
<1>2. \A s \in SUBSET S : Cardinality(s) \in Nat
  BY FS_Subset, FS_CardinalityType
<1>3. T \in SUBSET Nat /\ T # {}
  BY <1>2
<1>4. PICK k \in T : \A y \in T : k <= y
  <2> HIDE DEF T
  <2> QED BY <1>3, LeastNatural
<1>5. PICK s \in SUBSET S : f[s] \notin Nat /\ k = Cardinality(s)
  BY <1>4
<1>6. s # {} /\ f[s] = Pick(s).bytes + f[s \ {Pick(s)}]
  <2>1. f[s] = IF s = {} THEN 0 ELSE Pick(s).bytes + f[s \ {Pick(s)}]
    BY <1>1 DEF SumEq
  <2>2. 0 \in Nat
    OBVIOUS
  <2> QED BY <1>5, <2>1, <2>2
<1>7. /\ Pick(s).bytes \in Nat /\ s \ {Pick(s)} \in SUBSET S
      /\ Cardinality(s \ {Pick(s)}) = Cardinality(s) - 1
  BY <1>6, Picked
<1>8. f[s \ {Pick(s)}] \notin Nat
  BY <1>5, <1>6, <1>7
<1>9. Cardinality(s \ {Pick(s)}) \in T
  BY <1>7, <1>8
<1> HIDE DEF T
<1>10. Cardinality(s) <= Cardinality(s) - 1 /\ Cardinality(s) \in Nat
  BY <1>2, <1>4, <1>5, <1>7, <1>9
<1> QED BY <1>10

\* The bytes of a log of one entry are those of the entry.
LEMMA BytesOfOne ==
    ASSUME NEW e \in Entry
    PROVE  Bytes({e}) = e.bytes
<1>1. IsFiniteSet({e}) /\ {e} \subseteq Entry
  BY FS_Singleton
<1>2. PICK f : Bytes({e}) = f[{e}] /\ \A s \in SUBSET {e} : SumEq(f, s)
  BY <1>1, TheSum
<1>3. Pick({e}) = e /\ {e} \ {e} = {} /\ e.bytes \in Nat
  BY EntryNumbers DEF Pick
<1>4. f[{}] = 0
  BY <1>2 DEF SumEq
<1>5. f[{e}] = e.bytes + 0
  BY <1>2, <1>3, <1>4 DEF SumEq
<1> QED BY <1>2, <1>3, <1>5

\* A log that is not empty has an oldest entry.
LEMMA OldestEntry ==
    ASSUME NEW entries \in SUBSET Entry, entries # {}
    PROVE  \E m \in entries : \A f \in entries : m.id <= f.id
<1> DEFINE T == {e.id : e \in entries}
<1>1. T \in SUBSET Nat /\ T # {}
  BY EntryNumbers
<1>2. PICK k \in T : \A y \in T : k <= y
  <2> HIDE DEF T
  <2> QED BY <1>1, LeastNatural
<1>3. PICK m \in entries : k = m.id
  BY <1>2
<1>4. \A f \in entries : m.id <= f.id
  BY <1>2, <1>3
<1> QED BY <1>4

\* Entries with distinct ids, the last recorded of them `entry`, one more than the budget at most.
Recorded(entries, entry) ==
    /\ entries \in SUBSET Entry /\ IsFiniteSet(entries) /\ entry \in entries
    /\ \A e, f \in entries : e.id = f.id => e = f
    /\ \A f \in entries : f # entry => f.id < entry.id
    /\ Cardinality(entries) <= MaxPings + 1

\* The trim by entries leaves at most maxPingsPerHeartbeat of them.
LEMMA TrimEntriesFits ==
    ASSUME NEW entries, NEW entry, Recorded(entries, entry)
    PROVE  /\ IsFiniteSet(TrimEntries(entries))
           /\ Cardinality(TrimEntries(entries)) \in Nat
           /\ Cardinality(TrimEntries(entries)) <= MaxPings
<1> DEFINE kept == TrimEntries(entries)
<1>1. entries \in SUBSET Entry /\ IsFiniteSet(entries) /\ entries # {}
  BY DEF Recorded
<1>2. kept \in SUBSET entries
  BY DEF TrimEntries
<1>3. Cardinality(entries) \in Nat /\ MaxPings \in Nat
  BY <1>1, FS_CardinalityType, BudgetAssumption
<1>4. IsFiniteSet(kept) /\ Cardinality(kept) \in Nat /\ Cardinality(kept) <= Cardinality(entries)
  BY <1>1, <1>2, FS_Subset, FS_CardinalityType
<1>5. CASE Cardinality(entries) = MaxPings + 1
  <2>1. PICK m \in entries : \A f \in entries : m.id <= f.id
    BY <1>1, OldestEntry
  <2>2. \A f \in entries : f.id \in Nat
    BY <1>1, EntryNumbers
  <2>3. {f \in entries : f.id > m.id} = entries \ {m}
    BY <2>1, <2>2 DEF Recorded
  <2>4. Cardinality({f \in entries : f.id > m.id}) = MaxPings
    <3>1. Cardinality(entries \ {m}) = Cardinality(entries) - 1
      BY <1>1, <2>1, FS_RemoveElement
    <3> QED BY <1>3, <1>5, <2>3, <3>1
  <2>5. m \notin kept
    BY <2>1, <2>2, <2>4 DEF TrimEntries
  <2>6. kept # entries
    BY <2>1, <2>5
  <2> HIDE DEF kept
  <2>7. Cardinality(kept) # Cardinality(entries)
    BY <1>1, <1>2, <2>6, FS_Subset
  <2>8. Cardinality(kept) <= MaxPings
    BY <1>3, <1>4, <1>5, <2>7
  <2> QED BY <1>4, <2>8 DEF kept
<1>6. CASE Cardinality(entries) # MaxPings + 1
  BY <1>3, <1>4, <1>6 DEF Recorded
<1> QED BY <1>4, <1>5, <1>6

\* Both trims keep the entry just recorded: no entry is newer, and it alone is
\* within the byte budget.
LEMMA TrimsKeepNewest ==
    ASSUME NEW entries, NEW entry, Recorded(entries, entry)
    PROVE  /\ entry \in TrimEntries(entries)
           /\ entry \in TrimBytes(TrimEntries(entries))
<1>1. \A f \in entries : f.id \in Nat
  BY EntryNumbers DEF Recorded
<1>2. entry \in TrimEntries(entries)
  <2> DEFINE cut == {e \in entries : Cardinality({f \in entries : f.id > e.id}) = MaxPings}
  <2>1. {f \in entries : f.id > entry.id} = {}
    BY <1>1 DEF Recorded
  <2>2. MaxPings # 0
    BY BudgetAssumption
  <2>3. entry \notin cut
    BY <2>1, <2>2, FS_EmptySet
  <2>4. \A c \in cut : entry.id > c.id
    BY <1>1, <2>3 DEF Recorded
  <2> QED BY <2>4 DEF TrimEntries, Recorded
<1> DEFINE kept == TrimEntries(entries)
<1>3. kept \subseteq entries
  BY DEF TrimEntries
<1>4. entry \in kept
  BY <1>2
<1> HIDE DEF kept
<1>5. entry \in TrimBytes(kept)
  <2> DEFINE over == {e \in kept : Bytes({f \in kept : f.id >= e.id}) > MaxBytes}
  <2>1. {f \in kept : f.id >= entry.id} = {entry}
    BY <1>1, <1>3, <1>4 DEF Recorded
  <2>2. Bytes({entry}) = entry.bytes /\ entry.bytes \in Nat /\ entry.bytes <= MaxBytes
    BY BytesOfOne, EntryNumbers DEF Recorded
  <2>3. entry \notin over
    BY <2>1, <2>2, BudgetAssumption
  <2>4. \A c \in over : entry.id > c.id
    BY <1>1, <1>3, <2>3 DEF Recorded
  <2> QED BY <1>4, <2>4 DEF TrimBytes
<1> QED BY <1>2, <1>5 DEF kept

\* What the byte trim leaves is within the byte budget.
LEMMA TrimBytesFits ==
    ASSUME NEW entries \in SUBSET Entry, IsFiniteSet(entries), TrimBytes(entries) # {}
    PROVE  Bytes(TrimBytes(entries)) <= MaxBytes
<1> DEFINE kept == TrimBytes(entries)
           over == {e \in entries : Bytes({f \in entries : f.id >= e.id}) > MaxBytes}
<1>1. Suffix(kept, entries)
  BY TrimsKeepSuffix
<1>2. kept \in SUBSET Entry /\ kept \in SUBSET entries
  BY <1>1 DEF Suffix
<1>3. PICK m \in kept : \A f \in kept : m.id <= f.id
  BY <1>2, OldestEntry
<1>4. \A f \in entries : f.id \in Nat
  BY EntryNumbers
<1>5. kept = {f \in entries : f.id >= m.id}
  <2> HIDE DEF kept
  <2> QED BY <1>1, <1>2, <1>3, <1>4 DEF Suffix
<1>6. m \notin over
  <2>1. ~(m.id > m.id) /\ m \in entries
    BY <1>2, <1>3, <1>4
  <2>2. \A c \in over : m.id > c.id
    BY <1>3 DEF TrimBytes
  <2> QED BY <2>1, <2>2
<1>7. ~(Bytes(kept) > MaxBytes)
  BY <1>2, <1>3, <1>5, <1>6
<1>8. Bytes(kept) \in Nat
  <2>1. IsFiniteSet(kept)
    BY <1>2, FS_Subset
  <2> HIDE DEF kept
  <2> QED BY <1>2, <2>1, BytesIsNat
<1> HIDE DEF kept
<1>9. Bytes(kept) <= MaxBytes
  BY <1>7, <1>8, BudgetAssumption
<1> QED BY <1>9 DEF kept

\* The newest entry the trims drop would not have fitted.
LEMMA TrimsDropOnlyOver ==
    ASSUME NEW entries, NEW entry, Recorded(entries, entry),
           NEW kept, kept = TrimBytes(TrimEntries(entries)),
           NEW d \in entries \ kept, \A c \in entries \ kept : c.id <= d.id
    PROVE  Cardinality(kept \cup {d}) > MaxPings \/ Bytes(kept \cup {d}) > MaxBytes
<1> DEFINE first == TrimEntries(entries)
<1>1. \A f \in entries : f.id \in Nat
  BY EntryNumbers DEF Recorded
<1>2. Suffix(kept, entries)
  BY TrimmedIsSuffix DEF Recorded
<1>3. \A f \in entries : f.id > d.id => f \in kept
  BY <1>1
<1>4. \A f \in kept : f \in entries /\ f.id > d.id
  BY <1>1, <1>2 DEF Suffix
<1>5. kept \subseteq first /\ first \subseteq entries
  BY DEF TrimBytes, TrimEntries
<1>6. CASE d \notin first
  <2>1. PICK c \in entries : /\ Cardinality({f \in entries : f.id > c.id}) = MaxPings
                             /\ ~(d.id > c.id)
    BY <1>6 DEF TrimEntries
  <2>2. c \notin kept
    <3>1. c \notin first
      BY <1>1, <2>1 DEF TrimEntries
    <3> QED BY <1>5, <3>1
  <2>3. c = d
    BY <1>1, <2>1, <2>2 DEF Recorded
  <2>4. {f \in entries : f.id > d.id} = kept
    BY <1>3, <1>4
  <2>5. Cardinality(kept) = MaxPings
    BY <2>1, <2>3, <2>4
  <2>6. IsFiniteSet(kept)
    BY <1>4, FS_Subset DEF Recorded
  <2>7. Cardinality(kept \cup {d}) = MaxPings + 1
    BY <2>5, <2>6, FS_AddElement
  <2> QED BY <2>7, BudgetAssumption
<1>7. CASE d \in first
  <2>1. d \notin TrimBytes(first)
    OBVIOUS
  <2> HIDE DEF first
  <2>2. PICK c \in first : Bytes({f \in first : f.id >= c.id}) > MaxBytes /\ ~(d.id > c.id)
    BY <1>7, <2>1 DEF TrimBytes
  <2>3. c \notin TrimBytes(first)
    BY <1>1, <1>5, <2>2 DEF TrimBytes
  <2>4. c = d
    BY <1>1, <1>5, <2>2, <2>3 DEF Recorded, first
  <2>5. {f \in first : f.id >= d.id} = kept \cup {d}
    BY <1>1, <1>3, <1>4, <1>5, <1>7 DEF Recorded
  <2> QED BY <2>2, <2>4, <2>5
<1> QED BY <1>6, <1>7

\* What the trims keep from step to step: with it a recording is one entry over
\* at most, so the oldest entry is the cut.
SizeInv == IsFiniteSet(log) /\ Cardinality(log) <= MaxPings

\* Recording a ping leaves the log within its budgets and drops no more than it must.
LEMMA RecordTrims ==
    ASSUME LogInv, SizeInv, NEW kind \in LogKinds, NEW rid \in LogRids, NEW at \in 0..LogMaxTime, NEW bytes \in Sizes,
           LogPing(kind, rid, at, bytes)
    PROVE  SizeInv' /\ KeepsNewestThatFit
<1> DEFINE entry == [id |-> nextId, kind |-> kind, rid |-> rid, at |-> at, bytes |-> bytes]
           entries == log \cup {entry}
<1>1. entry \in Entry /\ entry.id = nextId /\ nextId \in Nat
  BY BoundsAssumption DEF LogPing, Entry, LogInv, LogTypeOK
<1>2. log' = TrimBytes(TrimEntries(entries))
  BY DEF LogPing
<1>3. \A f \in log : f.id < nextId /\ f.id \in Nat
  BY EntryNumbers DEF LogInv, LogTypeOK, PairInv
<1>4. entry \notin log
  BY <1>1, <1>3
<1> HIDE DEF entry
<1>5. Recorded(entries, entry)
  <2>1. entries \in SUBSET Entry /\ entry \in entries
    BY <1>1 DEF LogInv, LogTypeOK
  <2>2. \A e, f \in entries : e.id = f.id => e = f
    BY <1>1, <1>3 DEF LogInv, PairInv
  <2>3. \A f \in entries : f # entry => f.id < entry.id
    BY <1>1, <1>3
  <2>4. IsFiniteSet(entries) /\ Cardinality(entries) <= MaxPings + 1
    <3>1. Cardinality(log) \in Nat /\ IsFiniteSet(log) /\ Cardinality(log) <= MaxPings /\ MaxPings \in Nat
      BY FS_CardinalityType, BudgetAssumption DEF SizeInv
    <3>2. IsFiniteSet(entries) /\ Cardinality(entries) = Cardinality(log) + 1
      BY <1>4, <3>1, FS_AddElement
    <3> HIDE DEF entries
    <3> QED BY <3>1, <3>2
  <2> QED BY <2>1, <2>2, <2>3, <2>4 DEF Recorded
<1>6. log \subseteq entries /\ entries \subseteq log \cup {entry}
  OBVIOUS
<1> HIDE DEF entries
<1> DEFINE first == TrimEntries(entries)
<1>7. IsFiniteSet(first) /\ Cardinality(first) \in Nat /\ Cardinality(first) <= MaxPings
  BY <1>5, TrimEntriesFits
<1>8. first \in SUBSET Entry
  BY <1>5 DEF TrimEntries, Recorded
<1>9. entry \in log'
  BY <1>2, <1>5, TrimsKeepNewest
<1>10. Suffix(log', entries)
  BY <1>2, <1>5, TrimmedIsSuffix DEF Recorded
<1>11. log' \in SUBSET first /\ log' = TrimBytes(first)
  BY <1>2 DEF TrimBytes
<1> HIDE DEF first
<1>12. IsFiniteSet(log') /\ Cardinality(log') <= MaxPings
  <2>1. IsFiniteSet(log') /\ Cardinality(log') <= Cardinality(first) /\ Cardinality(log') \in Nat
    BY <1>7, <1>11, FS_Subset, FS_CardinalityType
  <2> QED BY <1>7, <2>1, BudgetAssumption
<1>13. Bytes(log') <= MaxBytes
  BY <1>7, <1>8, <1>9, <1>11, TrimBytesFits
<1> DEFINE dropped == {e \in log : e \notin log'}
<1>14. dropped = entries \ log'
  BY <1>6, <1>9
<1>15. ASSUME NEW d \in dropped, NEW e \in log'
       PROVE  d.id < e.id
  <2>1. d \in entries /\ e \in entries /\ d.id \in Nat /\ e.id \in Nat
    BY <1>6, <1>10, EntryNumbers, <1>5 DEF Suffix, Recorded
  <2> QED BY <1>10, <2>1 DEF Suffix
<1>16. ASSUME NEW d \in dropped, \A c \in dropped : c.id <= d.id
       PROVE  Cardinality(log' \cup {d}) > MaxPings \/ Bytes(log' \cup {d}) > MaxBytes
  BY <1>2, <1>5, <1>14, <1>16, TrimsDropOnlyOver
<1>17. SizeInv'
  BY <1>12 DEF SizeInv
<1>18. LogBounded'
  BY <1>12, <1>13 DEF LogBounded
<1> QED BY <1>1, <1>9, <1>15, <1>16, <1>17, <1>18 DEF KeepsNewestThatFit

\* Recording is the only step that adds to the log.
LEMMA SizeStep == LogInv /\ SizeInv /\ [LogNext]_logVars => SizeInv' /\ KeepsNewestThatFit
<1> SUFFICES ASSUME LogInv, SizeInv, [LogNext]_logVars PROVE SizeInv' /\ KeepsNewestThatFit
  OBVIOUS
<1>1. ASSUME log' \subseteq log, nextId' = nextId
      PROVE  SizeInv' /\ KeepsNewestThatFit
  <2>1. IsFiniteSet(log') /\ Cardinality(log') \in Nat /\ Cardinality(log') <= Cardinality(log)
    BY <1>1, FS_Subset, FS_CardinalityType DEF SizeInv
  <2>2. Cardinality(log) \in Nat /\ Cardinality(log) <= MaxPings /\ MaxPings \in Nat
    BY FS_CardinalityType, BudgetAssumption DEF SizeInv
  <2>3. SizeInv'
    BY <2>1, <2>2 DEF SizeInv
  <2> QED BY <1>1, <2>3 DEF KeepsNewestThatFit
<1>2. ASSUME NEW before \in 0..LogMaxTime, Prune(before)
      PROVE  SizeInv' /\ KeepsNewestThatFit
  BY <1>1, <1>2 DEF Prune
<1>3. CASE Delete
  BY <1>1, <1>3 DEF Delete
<1>4. CASE LogPass
  BY <1>1, <1>4 DEF LogPass
<1>5. CASE UNCHANGED logVars
  BY <1>1, <1>5 DEF logVars
<1> QED BY <1>2, <1>3, <1>4, <1>5, RecordTrims DEF LogNext

\* "Keep the heartbeat's newest maxPingsPerHeartbeat entries, and of those only
\* as many as fit": for every budget, body size and schedule of sweeps and
\* deletions, recordHeartbeatPing keeps the ping it records, leaves the log
\* within both budgets, drops only entries older than all it keeps, and drops
\* none that would still have fitted.
THEOREM LogHeldToBudget == LogSpec => TrimsToBudget
<1>1. LogInit => SizeInv
  BY FS_EmptySet, BudgetAssumption DEF LogInit, SizeInv
<1>2. LogInv /\ SizeInv /\ [LogNext]_logVars => [KeepsNewestThatFit]_logVars
  BY SizeStep
<1> QED BY <1>1, <1>2, LogStarts, LogStep, SizeStep, PTL DEF LogSpec, TrimsToBudget
=============================================================================
