-------------------------- MODULE DeliveriesProofs --------------------------
(***************************************************************************)
(* The delivery queue, for any number of workers, channels, deliveries and *)
(* failures: a queued delivery keeps its event, none is lost in silence or *)
(* given up twice, and each channel is sent to in order.                   *)
(*                                                                         *)
(* Every action is first shown to be a Step, which says of each row, of    *)
(* what each worker has in hand and of each event how it may change; the   *)
(* invariant then follows from Step alone.                                 *)
(***************************************************************************)
EXTENDS Deliveries, TLAPS

Index == 1..MaxRows
Table == [Channels -> [Index -> Row \cup {NoRow}]]
EventRow == [type : Types, at : Times]

\* DeliveryTypeOK, the part the invariants rest on.
QueueType ==
    /\ now \in Times /\ event \in [EventIds -> EventRow \cup {Absent}] /\ lastEvent \in 0..MaxEvents
    /\ row \in Table /\ last \in [Channels -> 0..MaxRows]
    /\ channels \in SUBSET Channels /\ held \in SUBSET (EventIds \X Channels)
    /\ hand \in [Workers -> SUBSET Claimed] /\ reported \in [Channels -> [Index -> Nat]]

\* When delivery n of channel c may reach its destination: see ChannelOrder.
Ordered(c, n) ==
    \A m \in 1..(n - 1) :
        \/ <<c, m>> \in got
        \/ ~Pending(c, m)
        \/ Hold = 0
        \/ row[c][m].first # Absent /\ row[c][m].first <= now - Hold

\* Ids are used in turn, and what was reported is settled.
RowInv ==
    \A c \in Channels, n \in Index :
        /\ n > last[c] => row[c][n] = NoRow /\ reported[c][n] = 0
        /\ reported[c][n] > 0 => ~Pending(c, n)

\* What a worker has in hand was queued, is of its row's type, and is in order.
HandInv ==
    \A w \in Workers : \A h \in hand[w] :
        /\ h.n <= last[h.c]
        /\ row[h.c][h.n] # NoRow => row[h.c][h.n].type = h.type
        /\ h.answer = "ok" => <<h.c, h.n>> \in got
        /\ Ordered(h.c, h.n)

DeliveryInv == QueueType /\ RowInv /\ HandInv /\ QueuedHasEvent /\ NoSilentLoss

-----------------------------------------------------------------------------
(* How one step may change a row, the report of a delivery, an event, and  *)
(* what a worker has in hand.                                              *)

Queues(c, n) ==
    /\ n = last[c] + 1 /\ last'[c] = n
    /\ row'[c][n] \in Row /\ row'[c][n].state = "pending" /\ event'[row'[c][n].event] # Absent

Retimes(c, n) ==
    /\ Pending(c, n) /\ row'[c][n] \in Row /\ row'[c][n].state = "pending"
    /\ row'[c][n].event = row[c][n].event /\ row'[c][n].type = row[c][n].type
    /\ row[c][n].first # Absent => row'[c][n].first = row[c][n].first

Settles(c, n) ==
    /\ row[c][n] # NoRow /\ row'[c][n] \in Row /\ row'[c][n].state # "pending"
    /\ row'[c][n].type = row[c][n].type
    /\ row'[c][n].state = "delivered" => <<c, n>> \in got
    /\ row'[c][n].state = "failed" =>
          c \notin channels' \/ row[c][n].type = "notification.failed" \/ reported'[c][n] > 0

Prunes(c, n) == row[c][n] # NoRow /\ ~Pending(c, n) /\ row'[c][n] = NoRow

RowStep(c, n) ==
    \/ row'[c][n] = row[c][n]
    \/ Queues(c, n)
    \/ Retimes(c, n)
    \/ Settles(c, n)
    \/ Prunes(c, n)

ReportStep(c, n) ==
    \/ reported'[c][n] = reported[c][n]
    \/ /\ Pending(c, n) /\ reported'[c][n] = reported[c][n] + 1
       /\ row'[c][n] # NoRow /\ row'[c][n].state # "pending"

Takes(h) == Pending(h.c, h.n) /\ h.type = row[h.c][h.n].type /\ h.answer = "none" /\ Ordered(h.c, h.n)

Holds(w, h) ==
    \E g \in hand[w] : /\ h.c = g.c /\ h.n = g.n /\ h.type = g.type
                       /\ h.answer = g.answer \/ (h.answer = "ok" => <<h.c, h.n>> \in got')

Step ==
    /\ \A c \in Channels, n \in Index : RowStep(c, n) /\ ReportStep(c, n)
    /\ \A c \in Channels : last'[c] \in {last[c], last[c] + 1}
    /\ \A e \in EventIds : event[e] # Absent => event'[e] # Absent \/ ~Referenced(e)
    /\ \A p \in held' : p \in held \/ event'[p[1]] # Absent
    /\ \A w \in Workers : \A h \in hand'[w] : Takes(h) \/ Holds(w, h)
    /\ channels' \subseteq channels /\ got \subseteq got' /\ now <= now'

-----------------------------------------------------------------------------
\* The bounds are natural numbers.
LEMMA Bounds ==
    /\ MaxRows \in Nat /\ MaxEvents \in Nat /\ MaxTime \in Nat /\ Hold \in Nat /\ Lease \in Nat
    /\ \A b \in Backoffs : b \in Nat
BY BoundsAssumption, TimesAssumption

\* A row of the table, and the numbers of its channel and of its reports.
LEMMA Cell ==
    ASSUME QueueType, NEW c \in Channels, NEW n \in Index
    PROVE  /\ row[c][n] \in Row \cup {NoRow} /\ last[c] \in 0..MaxRows /\ reported[c][n] \in Nat
           /\ row[c][n] # NoRow => row[c][n].event \in EventIds
           /\ n \in Int /\ 1 <= n
<1>1. row[c][n] \in Row \cup {NoRow} /\ last[c] \in 0..MaxRows /\ reported[c][n] \in Nat
  BY DEF QueueType, Table
<1>2. \A r \in Row : r.event \in EventIds
  BY DEF Row
<1> QED BY <1>1, <1>2 DEF Index

\* A step keeps RowInv.
LEMMA RowInvStep == ASSUME DeliveryInv, Step, QueueType' PROVE RowInv'
<1> SUFFICES ASSUME NEW c \in Channels, NEW n \in Index
             PROVE  /\ n > last'[c] => row'[c][n] = NoRow /\ reported'[c][n] = 0
                    /\ reported'[c][n] > 0 => ~Pending(c, n)'
  BY DEF RowInv
<1>1. /\ last[c] \in Int /\ reported[c][n] \in Nat /\ n \in Int /\ last'[c] \in {last[c], last[c] + 1}
      /\ RowStep(c, n) /\ ReportStep(c, n)
  BY Cell, Bounds DEF DeliveryInv, Step
<1>2. /\ n > last[c] => row[c][n] = NoRow /\ reported[c][n] = 0
      /\ reported[c][n] > 0 => ~Pending(c, n)
  BY DEF DeliveryInv, RowInv
<1>3. NoRow \notin Row
  BY MarkersAssumption
<1>4. ASSUME n > last'[c] PROVE row'[c][n] = NoRow /\ reported'[c][n] = 0
  <2>1. n > last[c] /\ n # last'[c]
    BY <1>1, <1>4
  <2>2. row[c][n] = NoRow /\ reported[c][n] = 0 /\ ~Pending(c, n)
    BY <1>2, <2>1 DEF Pending
  <2> QED BY <1>1, <2>1, <2>2 DEF RowStep, ReportStep, Queues, Retimes, Settles, Prunes
<1>5. ASSUME reported'[c][n] > 0 PROVE ~Pending(c, n)'
  <2>1. CASE reported'[c][n] = reported[c][n]
    <3>1. ~Pending(c, n) /\ ~(n > last[c])
      BY <1>1, <1>2, <1>5, <2>1
    <3>2. ~Queues(c, n) /\ ~Retimes(c, n)
      BY <1>1, <3>1 DEF Queues, Retimes
    <3> QED BY <1>1, <3>1, <3>2 DEF RowStep, Settles, Prunes, Pending
  <2>2. CASE reported'[c][n] # reported[c][n]
    BY <1>1, <2>2 DEF ReportStep, Pending
  <2> QED BY <2>1, <2>2
<1> QED BY <1>4, <1>5

\* A delivery queued earlier that no longer holds its channel back stays so.
LEMMA OrderedStep ==
    ASSUME DeliveryInv, Step, QueueType', NEW c \in Channels, NEW n \in Index, n <= last[c], Ordered(c, n)
    PROVE  Ordered(c, n)'
<1> SUFFICES ASSUME NEW m \in 1..(n - 1), Pending(c, m)', <<c, m>> \notin got', Hold # 0
             PROVE  row'[c][m].first # Absent /\ row'[c][m].first <= now' - Hold
  BY DEF Ordered
<1>1. m \in Index /\ m < n /\ m # last[c] + 1
  BY Bounds, Cell DEF Index, DeliveryInv
<1>2. RowStep(c, m) /\ got \subseteq got' /\ now <= now'
  BY <1>1 DEF Step
<1>3. Pending(c, m) /\ (row[c][m].first # Absent => row'[c][m].first = row[c][m].first)
  BY <1>1, <1>2 DEF RowStep, Queues, Retimes, Settles, Prunes, Pending
<1>4. row[c][m].first # Absent /\ row[c][m].first <= now - Hold
  BY <1>2, <1>3 DEF Ordered
<1>5. row[c][m].first \in Int /\ now \in Int /\ now' \in Int
  <2>1. row[c][m] \in Row
    BY <1>1, <1>3, Cell DEF DeliveryInv, Pending
  <2>2. row[c][m].first \in Times \cup {Absent}
    BY <2>1 DEF Row
  <2> QED BY <1>4, <2>2, Bounds DEF Times, DeliveryInv, QueueType
<1> QED BY <1>2, <1>3, <1>4, <1>5, Bounds

\* A step keeps what is known of the deliveries in hand.
LEMMA HandInvStep == ASSUME DeliveryInv, Step, QueueType' PROVE HandInv'
<1> SUFFICES ASSUME NEW w \in Workers, NEW h \in hand'[w]
             PROVE  /\ h.n <= last'[h.c]
                    /\ row'[h.c][h.n] # NoRow => row'[h.c][h.n].type = h.type
                    /\ h.answer = "ok" => <<h.c, h.n>> \in got'
                    /\ Ordered(h.c, h.n)'
  BY DEF HandInv
<1>1. h \in Claimed
  BY DEF QueueType
<1>2. h.c \in Channels /\ h.n \in Index
  BY <1>1 DEF Claimed, Index
<1>3. /\ h.n <= last[h.c] /\ Ordered(h.c, h.n)
      /\ row[h.c][h.n] # NoRow => row[h.c][h.n].type = h.type
      /\ h.answer = "ok" => <<h.c, h.n>> \in got'
  <2>1. CASE Takes(h)
    <3>1. ~(h.n > last[h.c])
      BY <1>2, <2>1 DEF Takes, DeliveryInv, RowInv, Pending
    <3>2. h.n <= last[h.c]
      BY <1>2, <3>1, Cell, Bounds DEF DeliveryInv
    <3> QED BY <2>1, <3>2 DEF Takes
  <2>2. CASE Holds(w, h)
    <3>1. PICK g \in hand[w] : /\ h.c = g.c /\ h.n = g.n /\ h.type = g.type
                               /\ h.answer = g.answer \/ (h.answer = "ok" => <<h.c, h.n>> \in got')
      BY <2>2 DEF Holds
    <3>2. /\ g.n <= last[g.c] /\ Ordered(g.c, g.n)
          /\ row[g.c][g.n] # NoRow => row[g.c][g.n].type = g.type
          /\ g.answer = "ok" => <<g.c, g.n>> \in got
      BY <3>1 DEF DeliveryInv, HandInv
    <3>3. got \subseteq got'
      BY DEF Step
    <3> QED BY <3>1, <3>2, <3>3
  <2> QED BY <2>1, <2>2 DEF Step
<1>4. Ordered(h.c, h.n)'
  <2>1. \A c \in Channels, n \in Index : n <= last[c] /\ Ordered(c, n) => Ordered(c, n)'
    BY OrderedStep
  <2> QED BY <1>2, <1>3, <2>1
<1>5. h.n <= last'[h.c] /\ h.n # last[h.c] + 1
  BY <1>2, <1>3, Cell, Bounds DEF DeliveryInv, Step
<1>6. RowStep(h.c, h.n)
  BY <1>2 DEF Step
<1>7. row'[h.c][h.n] # NoRow => row'[h.c][h.n].type = h.type
  BY <1>3, <1>5, <1>6 DEF RowStep, Queues, Retimes, Settles, Prunes, Pending
<1> QED BY <1>3, <1>4, <1>5, <1>7

\* A step keeps the events of what is queued and held.
LEMMA QueuedStep == ASSUME DeliveryInv, Step, QueueType' PROVE QueuedHasEvent'
<1>1. ASSUME NEW c \in Channels, NEW n \in Index, Pending(c, n)'
      PROVE  event'[row'[c][n].event] # Absent
  <2>1. RowStep(c, n)
    BY DEF Step
  <2>2. CASE Queues(c, n)
    BY <2>2 DEF Queues
  <2>3. CASE ~Queues(c, n)
    <3>1. Pending(c, n) /\ row'[c][n].event = row[c][n].event
      BY <1>1, <2>1, <2>3 DEF RowStep, Retimes, Settles, Prunes, Pending
    <3> DEFINE e == row[c][n].event
    <3>2. e \in EventIds /\ event[e] # Absent /\ Referenced(e)
      BY <3>1, Cell DEF DeliveryInv, QueuedHasEvent, Referenced, Pending, Index
    <3> QED BY <3>1, <3>2 DEF Step
  <2> QED BY <2>2, <2>3
<1>2. ASSUME NEW p \in held' PROVE event'[p[1]] # Absent
  <2>1. CASE p \in held
    <3>1. p[1] \in EventIds /\ p[2] \in Channels /\ p = <<p[1], p[2]>>
      BY <2>1 DEF DeliveryInv, QueueType
    <3>2. event[p[1]] # Absent /\ Referenced(p[1])
      BY <2>1, <3>1 DEF DeliveryInv, QueuedHasEvent, Referenced
    <3> QED BY <3>1, <3>2 DEF Step
  <2>2. CASE p \notin held
    BY <2>2 DEF Step
  <2> QED BY <2>1, <2>2
<1> QED BY <1>1, <1>2 DEF QueuedHasEvent, Index

\* A step loses no delivery in silence and reports none twice.
LEMMA LossStep == ASSUME DeliveryInv, Step, QueueType' PROVE NoSilentLoss'
<1>1. ASSUME NEW c \in channels', NEW n \in Index, row'[c][n] # NoRow
      PROVE  /\ row'[c][n].state = "delivered" => <<c, n>> \in got'
             /\ row'[c][n].state = "failed" =>
                   row'[c][n].type = "notification.failed" \/ reported'[c][n] > 0
  <2>1. c \in channels /\ c \in Channels /\ got \subseteq got'
    BY DEF Step, QueueType
  <2>2. RowStep(c, n) /\ ReportStep(c, n) /\ reported[c][n] \in Nat
    BY <2>1, Cell DEF Step, DeliveryInv
  <2>3. reported[c][n] > 0 => reported'[c][n] > 0
    BY <2>2 DEF ReportStep
  <2>4. CASE row'[c][n] = row[c][n]
    BY <1>1, <2>1, <2>3, <2>4 DEF DeliveryInv, NoSilentLoss, Index
  <2>5. CASE row'[c][n] # row[c][n]
    BY <1>1, <2>1, <2>2, <2>5 DEF RowStep, Queues, Retimes, Settles, Prunes
  <2> QED BY <2>4, <2>5
<1>2. ASSUME NEW c \in Channels, NEW n \in Index PROVE reported'[c][n] <= 1
  <2>1. ReportStep(c, n) /\ reported[c][n] \in Nat /\ reported[c][n] <= 1
    BY Cell DEF Step, DeliveryInv, NoSilentLoss, Index
  <2>2. Pending(c, n) => reported[c][n] = 0
    BY <2>1 DEF DeliveryInv, RowInv
  <2> QED BY <2>1, <2>2 DEF ReportStep
<1> QED BY <1>1, <1>2 DEF NoSilentLoss, Index

\* The invariant follows from Step.
LEMMA InvStep == ASSUME DeliveryInv, Step, QueueType' PROVE DeliveryInv'
BY RowInvStep, HandInvStep, QueuedStep, LossStep DEF DeliveryInv

-----------------------------------------------------------------------------
(* The pieces of the transactions *)

\* The row insertDelivery writes.
NewRow(e, type) == [state |-> "pending", event |-> e, type |-> type, due |-> now, first |-> Absent, at |-> now]

\* It is a row.
LEMMA NewRowType ==
    ASSUME QueueType, NEW e \in EventIds, NEW type \in Types
    PROVE  NewRow(e, type) \in Row /\ NewRow(e, type).state = "pending" /\ NewRow(e, type).event = e
BY DEF NewRow, Row, QueueType

\* insertDelivery gives each of its channels one new row, behind the others.
LEMMA InsertFacts ==
    ASSUME QueueType, NEW rows \in Table, NEW e \in EventIds, NEW type \in Types,
           NEW chs \in SUBSET Channels, InsertDelivery(rows, e, type, chs)
    PROVE  /\ row' \in Table /\ last' \in [Channels -> 0..MaxRows]
           /\ \A c \in Channels : last'[c] = IF c \in chs THEN last[c] + 1 ELSE last[c]
           /\ \A c \in Channels, n \in Index :
                 row'[c][n] = IF c \in chs /\ n = last[c] + 1 THEN NewRow(e, type) ELSE rows[c][n]
<1>1. /\ \A c \in chs : last[c] < MaxRows
      /\ last' = [c \in Channels |-> IF c \in chs THEN last[c] + 1 ELSE last[c]]
      /\ row' = [c \in Channels |->
                    IF c \in chs THEN [rows[c] EXCEPT ![last[c] + 1] = NewRow(e, type)] ELSE rows[c]]
  BY DEF InsertDelivery, NewRow
<1>2. \A c \in Channels : last[c] \in 0..MaxRows
  BY DEF QueueType
<1>3. last' \in [Channels -> 0..MaxRows] /\ \A c \in Channels : last'[c] = IF c \in chs THEN last[c] + 1 ELSE last[c]
  BY <1>1, <1>2, Bounds
<1>4. NewRow(e, type) \in Row
  BY NewRowType
<1>5. \A c \in Channels : rows[c] \in [Index -> Row \cup {NoRow}]
  BY DEF Table
<1>6. \A c \in Channels : row'[c] \in [Index -> Row \cup {NoRow}]
  BY <1>1, <1>4, <1>5
<1>7. row' \in Table
  BY <1>1, <1>6 DEF Table
<1>8. \A c \in Channels, n \in Index :
          row'[c][n] = IF c \in chs /\ n = last[c] + 1 THEN NewRow(e, type) ELSE rows[c][n]
  BY <1>1, <1>5
<1> QED BY <1>3, <1>7, <1>8

\* A recorded event is new, and none is lost.
LEMMA RecordFacts ==
    ASSUME QueueType, NEW type \in Types, RecordEvent(type)
    PROVE  /\ lastEvent + 1 \in EventIds /\ lastEvent' \in 0..MaxEvents
           /\ event' \in [EventIds -> EventRow \cup {Absent}] /\ event'[lastEvent + 1] # Absent
           /\ \A e \in EventIds : event[e] # Absent => event'[e] # Absent
<1>1. lastEvent < MaxEvents /\ lastEvent \in 0..MaxEvents
  BY DEF RecordEvent, QueueType
<1>2. lastEvent + 1 \in EventIds /\ lastEvent' \in 0..MaxEvents
  BY <1>1, Bounds DEF EventIds, RecordEvent
<1> DEFINE r == [type |-> type, at |-> now]
<1>3. r \in EventRow /\ r # Absent
  BY MarkersAssumption DEF QueueType, EventRow
<1>4. event' = [event EXCEPT ![lastEvent + 1] = r]
  BY DEF RecordEvent
<1> HIDE DEF r
<1>5. event \in [EventIds -> EventRow \cup {Absent}]
  BY DEF QueueType
<1> QED BY <1>2, <1>3, <1>4, <1>5

\* A table in which one row has changed.
WithRow(rows, c, n, r) == [rows EXCEPT ![c][n] = r]

\* It differs in that row only.
LEMMA SetRow ==
    ASSUME NEW rows \in Table, NEW c \in Channels, NEW n \in Index, NEW r \in Row \cup {NoRow}
    PROVE  /\ WithRow(rows, c, n, r) \in Table
           /\ \A d \in Channels, m \in Index :
                 WithRow(rows, c, n, r)[d][m] = IF d = c /\ m = n THEN r ELSE rows[d][m]
<1> DEFINE q == [rows[c] EXCEPT ![n] = r]
           t == WithRow(rows, c, n, r)
<1>1. rows[c] \in [Index -> Row \cup {NoRow}]
  BY DEF Table
<1>2. q \in [Index -> Row \cup {NoRow}] /\ \A m \in Index : q[m] = IF m = n THEN r ELSE rows[c][m]
  BY <1>1
<1>3. t = [rows EXCEPT ![c] = q]
  BY DEF WithRow
<1> HIDE DEF q, t
<1>4. t \in Table /\ \A d \in Channels, m \in Index : t[d][m] = IF d = c /\ m = n THEN r ELSE rows[d][m]
  BY <1>2, <1>3 DEF Table
<1> QED BY <1>4 DEF t

\* A row with another state, or due at another time.
LEMMA RowFields ==
    ASSUME NEW r \in Row
    PROVE  /\ \A s \in {"delivered", "failed"} :
                 /\ [r EXCEPT !.state = s] \in Row /\ [r EXCEPT !.state = s].state = s
                 /\ [r EXCEPT !.state = s].type = r.type
           /\ \A t \in Times :
                 /\ [r EXCEPT !.due = t] \in Row /\ [r EXCEPT !.due = t].state = r.state
                 /\ [r EXCEPT !.due = t].type = r.type /\ [r EXCEPT !.due = t].event = r.event
                 /\ [r EXCEPT !.due = t].first = r.first
BY DEF Row

\* A lease or a back off ends within the clock.
LEMMA LaterType == ASSUME QueueType, NEW d \in Nat PROVE Later(d) \in Times
BY Bounds DEF Later, Times, QueueType

-----------------------------------------------------------------------------
(* Every action is a Step *)

\* A step that leaves the table alone changes no row, report or id.
LEMMA NoRowStep ==
    ASSUME UNCHANGED <<row, last, reported>>
    PROVE  /\ \A c \in Channels, n \in Index : RowStep(c, n) /\ ReportStep(c, n)
           /\ \A c \in Channels : last'[c] \in {last[c], last[c] + 1}
BY DEF RowStep, ReportStep

\* What stays in hand is as it was.
LEMMA HandStep ==
    ASSUME NEW w \in Workers, hand'[w] \subseteq hand[w]
    PROVE  \A h \in hand'[w] : Takes(h) \/ Holds(w, h)
BY DEF Holds

\* insertDelivery of an event that is there: new rows at the end.
LEMMA InsertStep ==
    ASSUME DeliveryInv, NEW e \in EventIds, NEW type \in Types, NEW chs \in SUBSET Channels,
           InsertDelivery(row, e, type, chs), event'[e] # Absent, reported' = reported
    PROVE  /\ \A c \in Channels, n \in Index : RowStep(c, n) /\ ReportStep(c, n)
           /\ \A c \in Channels : last'[c] \in {last[c], last[c] + 1}
<1>1. /\ \A c \in Channels : last'[c] = IF c \in chs THEN last[c] + 1 ELSE last[c]
      /\ \A c \in Channels, n \in Index :
            row'[c][n] = IF c \in chs /\ n = last[c] + 1 THEN NewRow(e, type) ELSE row[c][n]
  BY InsertFacts DEF DeliveryInv, QueueType
<1>2. NewRow(e, type) \in Row /\ NewRow(e, type).state = "pending" /\ NewRow(e, type).event = e
  BY NewRowType DEF DeliveryInv
<1> QED BY <1>1, <1>2 DEF RowStep, ReportStep, Queues

\* An emitted event is recorded with its deliveries and its holds.
LEMMA EmitEventStep ==
    ASSUME DeliveryInv, NEW send \in SUBSET Channels, NEW hold \in SUBSET Channels, EmitEvent(send, hold)
    PROVE  Step /\ QueueType'
<1> USE DEF DeliveryInv
<1>1. /\ RecordEvent("alert") /\ InsertDelivery(row, lastEvent + 1, "alert", send)
      /\ held' = held \cup {<<lastEvent + 1, c>> : c \in hold}
      /\ UNCHANGED <<now, channels, hand, got, reported>>
  BY DEF EmitEvent
<1>2. "alert" \in Types
  BY DEF Types
<1>3. /\ lastEvent + 1 \in EventIds /\ lastEvent' \in 0..MaxEvents
      /\ event' \in [EventIds -> EventRow \cup {Absent}] /\ event'[lastEvent + 1] # Absent
      /\ \A e \in EventIds : event[e] # Absent => event'[e] # Absent
  BY <1>1, <1>2, RecordFacts
<1>4. row' \in Table /\ last' \in [Channels -> 0..MaxRows]
  BY <1>1, <1>2, <1>3, InsertFacts DEF QueueType
<1>5. held' \in SUBSET (EventIds \X Channels) /\ \A p \in held' : p \in held \/ p[1] = lastEvent + 1
  BY <1>1, <1>3 DEF QueueType
<1>6. QueueType'
  BY <1>1, <1>3, <1>4, <1>5 DEF QueueType
<1>7. /\ \A c \in Channels, n \in Index : RowStep(c, n) /\ ReportStep(c, n)
      /\ \A c \in Channels : last'[c] \in {last[c], last[c] + 1}
  BY <1>1, <1>2, <1>3, InsertStep
<1>8. \A w \in Workers : \A h \in hand'[w] : Takes(h) \/ Holds(w, h)
  BY <1>1, HandStep
<1>9. now <= now'
  BY <1>1, Bounds DEF QueueType, Times
<1> QED BY <1>1, <1>3, <1>5, <1>6, <1>7, <1>8, <1>9 DEF Step

\* A released failure is queued; its event is there.
LEMMA ReleaseHeldStep ==
    ASSUME DeliveryInv, NEW e \in EventIds, NEW c \in Channels, ReleaseHeld(e, c)
    PROVE  Step /\ QueueType'
<1> USE DEF DeliveryInv
<1>1. /\ event[e] # Absent /\ held' \subseteq held /\ InsertDelivery(row, e, "alert", {c})
      /\ UNCHANGED <<now, event, lastEvent, channels, hand, got, reported>>
  BY DEF ReleaseHeld
<1>2. "alert" \in Types /\ {c} \in SUBSET Channels
  BY DEF Types
<1>3. row' \in Table /\ last' \in [Channels -> 0..MaxRows]
  BY <1>1, <1>2, InsertFacts DEF QueueType
<1>4. QueueType'
  BY <1>1, <1>3 DEF QueueType
<1>5. /\ \A d \in Channels, n \in Index : RowStep(d, n) /\ ReportStep(d, n)
      /\ \A d \in Channels : last'[d] \in {last[d], last[d] + 1}
  BY <1>1, <1>2, InsertStep
<1>6. \A w \in Workers : \A h \in hand'[w] : Takes(h) \/ Holds(w, h)
  BY <1>1, HandStep
<1>7. now <= now'
  BY <1>1, Bounds DEF QueueType, Times
<1> QED BY <1>1, <1>4, <1>5, <1>6, <1>7 DEF Step

\* A held failure that is dropped leaves the rest alone.
LEMMA DropHeldStep ==
    ASSUME DeliveryInv, NEW e \in EventIds, NEW c \in Channels, DropHeld(e, c)
    PROVE  Step /\ QueueType'
<1> USE DEF DeliveryInv
<1>1. /\ held' \subseteq held
      /\ UNCHANGED <<now, event, lastEvent, row, last, channels, hand, got, reported>>
  BY DEF DropHeld
<1>2. QueueType'
  BY <1>1 DEF QueueType
<1>3. \A w \in Workers : \A h \in hand'[w] : Takes(h) \/ Holds(w, h)
  BY <1>1, HandStep
<1>4. now <= now'
  BY <1>1, Bounds DEF QueueType, Times
<1> QED BY <1>1, <1>2, <1>3, <1>4, NoRowStep DEF Step

\* A claim takes only what is due and not held back, which is in order.
LEMMA ClaimStep ==
    ASSUME DeliveryInv, NEW w \in Workers, ClaimDueDeliveries(w)
    PROVE  Step /\ QueueType'
<1> USE DEF DeliveryInv
<1>1. PICK S \in SUBSET Claimable :
          /\ row' = [c \in Channels |-> [n \in 1..MaxRows |->
                        IF <<c, n>> \in S
                        THEN [row[c][n] EXCEPT !.due = Later(Lease),
                                               !.first = IF @ = Absent THEN now ELSE @]
                        ELSE row[c][n]]]
          /\ hand' = [hand EXCEPT ![w] =
                {[c |-> d[1], n |-> d[2], type |-> row[d[1]][d[2]].type,
                  at |-> row[d[1]][d[2]].at, answer |-> "none"] : d \in S}]
  BY DEF ClaimDueDeliveries
<1>2. hand[w] = {} /\ UNCHANGED <<now, event, lastEvent, last, channels, held, got, reported>>
  BY DEF ClaimDueDeliveries
<1>3. \A d \in S : /\ d[1] \in Channels /\ d[2] \in Index /\ d = <<d[1], d[2]>>
                    /\ Pending(d[1], d[2]) /\ ~HeldBack(d[1], d[2])
  BY DEF Claimable, Delivery, Index
<1>4. \A d \in S : row[d[1]][d[2]] \in Row
  BY <1>3, Cell DEF Pending
<1>5. Later(Lease) \in Times /\ now \in Times
  BY LaterType, Bounds DEF QueueType
<1>6. \A c \in Channels, n \in Index :
          \/ <<c, n>> \notin S /\ row'[c][n] = row[c][n]
          \/ <<c, n>> \in S /\ Retimes(c, n)
  <2> SUFFICES ASSUME NEW c \in Channels, NEW n \in Index, <<c, n>> \in S PROVE Retimes(c, n)
    BY <1>1 DEF Index
  <2> DEFINE r == row[c][n]
             f == IF r.first = Absent THEN now ELSE r.first
             t == Later(Lease)
  <2>1. Pending(c, n) /\ r \in Row
    BY <1>3, <1>4
  <2>2. row'[c][n] = [r EXCEPT !.due = t, !.first = f]
    BY <1>1 DEF Index
  <2>3. f \in Times \cup {Absent} /\ t \in Times /\ (r.first # Absent => f = r.first)
    BY <1>5, <2>1 DEF Row
  <2>4. r.state = "pending"
    BY <2>1 DEF Pending
  <2> HIDE DEF f, t
  <2>5. /\ row'[c][n] \in Row /\ row'[c][n].state = r.state /\ row'[c][n].event = r.event
        /\ row'[c][n].type = r.type /\ row'[c][n].first = f
    <3> HIDE DEF r
    <3> QED BY <2>1, <2>2, <2>3 DEF Row
  <2> QED BY <2>1, <2>3, <2>4, <2>5 DEF Retimes
<1>7. \A d \in S : Ordered(d[1], d[2])
  <2> SUFFICES ASSUME NEW d \in S, NEW m \in 1..(d[2] - 1), Pending(d[1], m), Hold # 0
               PROVE  row[d[1]][m].first # Absent /\ row[d[1]][m].first <= now - Hold
    BY DEF Ordered
  <2>1. ~(row[d[1]][m].first = Absent \/ row[d[1]][m].first > now - Hold)
    BY <1>3, Bounds DEF HeldBack
  <2>2. m \in Index
    BY <1>3, Bounds DEF Index
  <2>3. row[d[1]][m] \in Row
    BY <1>3, <2>2, Cell DEF Pending
  <2>4. row[d[1]][m].first \in Times \cup {Absent}
    BY <2>3 DEF Row
  <2> QED BY <1>5, <2>1, <2>4, Bounds DEF Times
<1>8. \A h \in hand'[w] : h \in Claimed /\ Takes(h)
  <2> SUFFICES ASSUME NEW h \in hand'[w] PROVE h \in Claimed /\ Takes(h)
    OBVIOUS
  <2>1. PICK d \in S : h = [c |-> d[1], n |-> d[2], type |-> row[d[1]][d[2]].type,
                            at |-> row[d[1]][d[2]].at, answer |-> "none"]
    BY <1>1 DEF QueueType
  <2>2. row[d[1]][d[2]].type \in Types /\ row[d[1]][d[2]].at \in Times
    BY <1>4 DEF Row
  <2>3. h \in Claimed
    BY <1>3, <2>1, <2>2 DEF Claimed, Index
  <2> QED BY <1>3, <1>7, <2>1, <2>3 DEF Takes
<1>9. QueueType'
  <2>1. row' \in Table
    <3>1. \A c \in Channels, n \in Index : row'[c][n] \in Row \cup {NoRow}
      BY <1>6, Cell DEF Retimes
    <3> QED BY <1>1, <3>1 DEF Table, Index
  <2>2. hand' \in [Workers -> SUBSET Claimed]
    BY <1>1, <1>8 DEF QueueType
  <2> QED BY <1>2, <2>1, <2>2 DEF QueueType
<1>10. \A v \in Workers : \A h \in hand'[v] : Takes(h) \/ Holds(v, h)
  BY <1>1, <1>8, HandStep DEF QueueType
<1>11. now <= now'
  BY <1>2, Bounds DEF QueueType, Times
<1> QED BY <1>2, <1>6, <1>9, <1>10, <1>11 DEF Step, RowStep, ReportStep

\* What a worker has in hand.
LEMMA InHand ==
    ASSUME DeliveryInv, NEW w \in Workers, NEW h \in hand[w]
    PROVE  /\ h \in Claimed /\ h.c \in Channels /\ h.n \in Index
           /\ row[h.c][h.n] \in Row \cup {NoRow}
<1>1. h \in Claimed
  BY DEF DeliveryInv, QueueType
<1>2. h.c \in Channels /\ h.n \in Index
  BY <1>1 DEF Claimed, Index
<1> QED BY <1>1, <1>2, Cell DEF DeliveryInv

\* The destination answers: what it took is remembered in got.
LEMMA SendStep ==
    ASSUME DeliveryInv, NEW w \in Workers, NEW h \in hand[w], NEW answer \in Answers, Send(w, h, answer)
    PROVE  Step /\ QueueType' /\ got' \subseteq got \cup {<<h.c, h.n>>}
<1> USE DEF DeliveryInv
<1> DEFINE g == [h EXCEPT !.answer = answer]
<1>1. /\ hand' = [hand EXCEPT ![w] = (@ \ {h}) \cup {g}]
      /\ got' = IF answer = "ok" THEN got \cup {<<h.c, h.n>>} ELSE got
      /\ UNCHANGED <<now, event, lastEvent, row, last, channels, held, reported>>
  BY DEF Send
<1>2. g \in Claimed /\ g.c = h.c /\ g.n = h.n /\ g.type = h.type /\ g.answer = answer
  BY InHand DEF Claimed
<1> HIDE DEF g
<1>3. QueueType'
  BY <1>1, <1>2 DEF QueueType
<1>4. Holds(w, g)
  BY <1>1, <1>2 DEF Holds
<1>5. \A v \in Workers : \A k \in hand'[v] : Takes(k) \/ Holds(v, k)
  <2> SUFFICES ASSUME NEW v \in Workers, NEW k \in hand'[v] PROVE Takes(k) \/ Holds(v, k)
    OBVIOUS
  <2>1. k \in hand[v] \/ (v = w /\ k = g)
    BY <1>1 DEF QueueType
  <2>2. k \in hand[v] => Holds(v, k)
    BY DEF Holds
  <2> QED BY <1>4, <2>1, <2>2
<1>6. now <= now'
  BY <1>1, Bounds DEF QueueType, Times
<1> QED BY <1>1, <1>3, <1>5, <1>6, NoRowStep DEF Step

\* A worker writes an answer back: one row changes, and what it has in hand
\* gets less.
LEMMA SettleStep ==
    ASSUME DeliveryInv, NEW w \in Workers, NEW h \in hand[w], Settle(w, h), row' \in Table,
           UNCHANGED <<now, event, lastEvent, last, channels, held, got, reported>>,
           \A c \in Channels, n \in Index : RowStep(c, n)
    PROVE  Step /\ QueueType'
<1> USE DEF DeliveryInv
<1>1. hand' = [hand EXCEPT ![w] = @ \ {h}]
  BY DEF Settle
<1>2. hand' \in [Workers -> SUBSET Claimed] /\ \A v \in Workers : hand'[v] \subseteq hand[v]
  BY <1>1 DEF QueueType
<1>3. QueueType'
  BY <1>2 DEF QueueType
<1>4. \A v \in Workers : \A k \in hand'[v] : Takes(k) \/ Holds(v, k)
  BY <1>2, HandStep
<1>5. now <= now'
  BY Bounds DEF QueueType, Times
<1> QED BY <1>3, <1>4, <1>5 DEF Step, ReportStep

\* The state of one row is written, if the row is still there.
LEMMA SetStateFacts ==
    ASSUME QueueType, NEW c \in Channels, NEW n \in Index, NEW s \in {"delivered", "failed"}, SetState(c, n, s)
    PROVE  /\ row' \in Table
           /\ \A d \in Channels, m \in Index :
                 \/ row'[d][m] = row[d][m]
                 \/ /\ d = c /\ m = n /\ row[c][n] # NoRow /\ row'[c][n] \in Row
                    /\ row'[c][n].state = s /\ row'[c][n].type = row[c][n].type
<1>1. CASE row[c][n] = NoRow
  BY <1>1 DEF SetState, QueueType
<1>2. CASE row[c][n] # NoRow
  <2> DEFINE r == [row[c][n] EXCEPT !.state = s]
  <2>1. row[c][n] \in Row
    BY <1>2, Cell
  <2>2. r \in Row /\ r.state = s /\ r.type = row[c][n].type
    BY <2>1, RowFields
  <2>3. row' = WithRow(row, c, n, r) /\ row \in Table
    BY <1>2 DEF SetState, WithRow, QueueType
  <2> HIDE DEF r
  <2>4. /\ row' \in Table
        /\ \A d \in Channels, m \in Index : row'[d][m] = IF d = c /\ m = n THEN r ELSE row[d][m]
    BY <2>2, <2>3, SetRow
  <2> QED BY <1>2, <2>2, <2>4
<1> QED BY <1>1, <1>2

\* A delivery is marked delivered only when its destination took it.
LEMMA MarkDeliveredStep ==
    ASSUME DeliveryInv, NEW w \in Workers, NEW h \in hand[w], MarkDeliveryDelivered(w, h)
    PROVE  Step /\ QueueType'
<1>1. /\ h.answer = "ok" /\ SetState(h.c, h.n, "delivered") /\ Settle(w, h)
      /\ UNCHANGED <<now, event, lastEvent, last, channels, held, got, reported>>
  BY DEF MarkDeliveryDelivered
<1>2. <<h.c, h.n>> \in got /\ h.c \in Channels /\ h.n \in Index /\ QueueType
  BY <1>1, InHand DEF DeliveryInv, HandInv
<1>3. /\ row' \in Table
      /\ \A d \in Channels, m \in Index :
            \/ row'[d][m] = row[d][m]
            \/ /\ d = h.c /\ m = h.n /\ row[h.c][h.n] # NoRow /\ row'[h.c][h.n] \in Row
               /\ row'[h.c][h.n].state = "delivered" /\ row'[h.c][h.n].type = row[h.c][h.n].type
  BY <1>1, <1>2, SetStateFacts
<1>4. \A d \in Channels, m \in Index : RowStep(d, m)
  BY <1>2, <1>3 DEF RowStep, Settles
<1> QED BY <1>1, <1>3, <1>4, SettleStep

\* A notification.failed that is given up is failed, and no event recorded.
LEMMA FailDeliveryStep ==
    ASSUME DeliveryInv, NEW w \in Workers, NEW h \in hand[w], FailDelivery(w, h)
    PROVE  Step /\ QueueType'
<1>1. /\ h.type = "notification.failed" /\ SetState(h.c, h.n, "failed") /\ Settle(w, h)
      /\ UNCHANGED <<now, event, lastEvent, last, channels, held, got, reported>>
  BY DEF FailDelivery
<1>2. /\ h.c \in Channels /\ h.n \in Index /\ QueueType
      /\ row[h.c][h.n] # NoRow => row[h.c][h.n].type = h.type
  BY InHand DEF DeliveryInv, HandInv
<1>3. /\ row' \in Table
      /\ \A d \in Channels, m \in Index :
            \/ row'[d][m] = row[d][m]
            \/ /\ d = h.c /\ m = h.n /\ row[h.c][h.n] # NoRow /\ row'[h.c][h.n] \in Row
               /\ row'[h.c][h.n].state = "failed" /\ row'[h.c][h.n].type = row[h.c][h.n].type
  BY <1>1, <1>2, SetStateFacts
<1>4. \A d \in Channels, m \in Index : RowStep(d, m)
  BY <1>1, <1>2, <1>3 DEF RowStep, Settles
<1> QED BY <1>1, <1>3, <1>4, SettleStep

\* A delivery still pending is due again later.
LEMMA RescheduleStep ==
    ASSUME DeliveryInv, NEW w \in Workers, NEW h \in hand[w], NEW b \in Backoffs, RescheduleDelivery(w, h, b)
    PROVE  Step /\ QueueType'
<1>1. /\ row' = IF Pending(h.c, h.n) THEN [row EXCEPT ![h.c][h.n] = [@ EXCEPT !.due = Later(b)]] ELSE row
      /\ Settle(w, h) /\ UNCHANGED <<now, event, lastEvent, last, channels, held, got, reported>>
  BY DEF RescheduleDelivery
<1>2. h.c \in Channels /\ h.n \in Index /\ QueueType
  BY InHand DEF DeliveryInv
<1>3. row' \in Table /\ \A d \in Channels, m \in Index : RowStep(d, m)
  <2>1. CASE ~Pending(h.c, h.n)
    BY <1>1, <1>2, <2>1 DEF RowStep, QueueType
  <2>2. CASE Pending(h.c, h.n)
    <3> DEFINE t == Later(b)
               r == [row[h.c][h.n] EXCEPT !.due = t]
    <3>1. row[h.c][h.n] \in Row /\ t \in Times /\ row[h.c][h.n].state = "pending"
      BY <1>2, <2>2, Cell, LaterType, Bounds DEF Pending
    <3>2. /\ r \in Row /\ r.state = "pending" /\ r.type = row[h.c][h.n].type
          /\ r.event = row[h.c][h.n].event /\ r.first = row[h.c][h.n].first
      <4> HIDE DEF t
      <4> QED BY <3>1, RowFields
    <3>3. row' = WithRow(row, h.c, h.n, r) /\ row \in Table
      BY <1>1, <1>2, <2>2 DEF WithRow, QueueType
    <3> HIDE DEF r
    <3>4. /\ row' \in Table
          /\ \A d \in Channels, m \in Index : row'[d][m] = IF d = h.c /\ m = h.n THEN r ELSE row[d][m]
      BY <1>2, <3>2, <3>3, SetRow
    <3>5. Retimes(h.c, h.n)
      BY <1>2, <2>2, <3>2, <3>4 DEF Retimes
    <3> QED BY <3>4, <3>5 DEF RowStep
  <2> QED BY <2>1, <2>2
<1> QED BY <1>1, <1>3, SettleStep

\* A delivery that is given up is reported, once: only a row still pending is.
LEMMA FailAndEmitStep ==
    ASSUME DeliveryInv, NEW w \in Workers, NEW h \in hand[w], FailDeliveryAndEmit(w, h)
    PROVE  Step /\ QueueType'
<1>1. Settle(w, h) /\ UNCHANGED <<now, channels, held, got>>
  BY DEF FailDeliveryAndEmit
<1>2. CASE ~Pending(h.c, h.n)
  <2>1. UNCHANGED <<event, lastEvent, row, last, reported>>
    BY <1>2 DEF FailDeliveryAndEmit
  <2>2. row' \in Table /\ \A c \in Channels, n \in Index : RowStep(c, n)
    BY <2>1 DEF RowStep, DeliveryInv, QueueType
  <2> QED BY <1>1, <2>1, <2>2, SettleStep
<1>3. CASE Pending(h.c, h.n)
  <2> DEFINE k == h.c
             i == h.n
             r == [row[k][i] EXCEPT !.state = "failed"]
             t == WithRow(row, k, i, r)
             e == lastEvent + 1
             chs == FailRoute \cap channels
             type == "notification.failed"
  <2>1. k \in Channels /\ i \in Index /\ row[k][i] \in Row /\ QueueType
    BY <1>3, InHand DEF DeliveryInv, Pending
  <2>2. r \in Row /\ r.state = "failed" /\ r.type = row[k][i].type
    BY <2>1, RowFields
  <2>3. t \in Table /\ \A c \in Channels, n \in Index : t[c][n] = IF c = k /\ n = i THEN r ELSE row[c][n]
    <3>1. row \in Table
      BY <2>1 DEF QueueType
    <3> HIDE DEF r, k, i
    <3> QED BY <2>1, <2>2, <3>1, SetRow
  <2>4. /\ RecordEvent(type) /\ InsertDelivery(t, e, type, chs)
        /\ reported' = [reported EXCEPT ![k][i] = @ + 1]
    BY <1>3 DEF FailDeliveryAndEmit, EmitFailed, WithRow
  <2>5. type \in Types /\ chs \in SUBSET Channels
    BY <2>1 DEF Types, QueueType
  <2> HIDE DEF r, t, chs, type
  <2>6. /\ e \in EventIds /\ lastEvent' \in 0..MaxEvents
        /\ event' \in [EventIds -> EventRow \cup {Absent}] /\ event'[e] # Absent
        /\ \A f \in EventIds : event[f] # Absent => event'[f] # Absent
    BY <2>1, <2>4, <2>5, RecordFacts
  <2> HIDE DEF e
  <2>7. /\ row' \in Table /\ last' \in [Channels -> 0..MaxRows]
        /\ \A c \in Channels : last'[c] = IF c \in chs THEN last[c] + 1 ELSE last[c]
        /\ \A c \in Channels, n \in Index :
              row'[c][n] = IF c \in chs /\ n = last[c] + 1 THEN NewRow(e, type) ELSE t[c][n]
    BY <2>1, <2>3, <2>4, <2>5, <2>6, InsertFacts
  <2>8. NewRow(e, type) \in Row /\ NewRow(e, type).state = "pending" /\ NewRow(e, type).event = e
    BY <2>1, <2>5, <2>6, NewRowType
  <2>9. ~(i > last[k]) /\ i # last[k] + 1
    <3>1. i > last[k] => row[k][i] = NoRow
      BY <2>1 DEF DeliveryInv, RowInv
    <3>2. last[k] \in 0..MaxRows /\ i \in Int
      BY <2>1, Cell
    <3>3. i = last[k] + 1 => i > last[k]
      BY <3>2, Bounds
    <3> QED BY <1>3, <3>1, <3>3 DEF Pending
  <2>10. row'[k][i] = r
    BY <2>1, <2>3, <2>7, <2>9
  <2>11. /\ reported' \in [Channels -> [Index -> Nat]]
         /\ \A c \in Channels, n \in Index :
               reported'[c][n] = IF c = k /\ n = i THEN reported[c][n] + 1 ELSE reported[c][n]
    <3> DEFINE q == [reported[k] EXCEPT ![i] = @ + 1]
    <3>1. reported[k] \in [Index -> Nat]
      BY <2>1 DEF QueueType
    <3>2. q \in [Index -> Nat] /\ \A n \in Index : q[n] = IF n = i THEN reported[k][n] + 1 ELSE reported[k][n]
      BY <2>1, <3>1
    <3>3. reported' = [reported EXCEPT ![k] = q]
      BY <2>4
    <3> HIDE DEF q, k, i
    <3> QED BY <2>1, <3>2, <3>3 DEF QueueType
  <2>12. \A c \in Channels, n \in Index : RowStep(c, n) /\ ReportStep(c, n)
    <3> SUFFICES ASSUME NEW c \in Channels, NEW n \in Index PROVE RowStep(c, n) /\ ReportStep(c, n)
      OBVIOUS
    <3>1. CASE c = k /\ n = i
      <4>1. r # NoRow /\ row[k][i] # NoRow /\ r.state # "pending" /\ r.state # "delivered"
        BY <2>1, <2>2, MarkersAssumption
      <4>2. reported'[k][i] = reported[k][i] + 1 /\ reported'[k][i] > 0
        BY <2>1, <2>11, Cell
      <4>3. Settles(k, i)
        BY <2>2, <2>10, <4>1, <4>2 DEF Settles
      <4> QED BY <1>3, <2>10, <3>1, <4>1, <4>2, <4>3 DEF RowStep, ReportStep
    <3>2. CASE ~(c = k /\ n = i)
      <4>1. reported'[c][n] = reported[c][n] /\ t[c][n] = row[c][n]
        BY <2>3, <2>11, <3>2
      <4>2. row'[c][n] = row[c][n] \/ Queues(c, n)
        BY <2>6, <2>7, <2>8, <4>1 DEF Queues
      <4> QED BY <4>1, <4>2 DEF RowStep, ReportStep
    <3> QED BY <3>1, <3>2
  <2>13. hand' \in [Workers -> SUBSET Claimed] /\ \A v \in Workers : hand'[v] \subseteq hand[v]
    BY <1>1, <2>1 DEF Settle, QueueType
  <2>14. QueueType'
    BY <1>1, <2>1, <2>6, <2>7, <2>11, <2>13 DEF QueueType
  <2>15. \A v \in Workers : \A g \in hand'[v] : Takes(g) \/ Holds(v, g)
    BY <2>13, HandStep
  <2>16. now <= now'
    BY <1>1, <2>1, Bounds DEF QueueType, Times
  <2>17. \A c \in Channels : last'[c] \in {last[c], last[c] + 1}
    BY <2>7
  <2> QED BY <1>1, <2>6, <2>12, <2>14, <2>15, <2>16, <2>17 DEF Step
<1> QED BY <1>2, <1>3

\* A worker that dies forgets what it had in hand.
LEMMA LoseStep ==
    ASSUME DeliveryInv, NEW w \in Workers, Lose(w)
    PROVE  Step /\ QueueType'
<1> USE DEF DeliveryInv
<1>1. /\ hand' = [hand EXCEPT ![w] = {}]
      /\ UNCHANGED <<now, event, lastEvent, row, last, channels, held, got, reported>>
  BY DEF Lose
<1>2. hand' \in [Workers -> SUBSET Claimed] /\ \A v \in Workers : hand'[v] \subseteq hand[v]
  BY <1>1 DEF QueueType
<1>3. QueueType'
  BY <1>1, <1>2 DEF QueueType
<1>4. \A v \in Workers : \A h \in hand'[v] : Takes(h) \/ Holds(v, h)
  BY <1>2, HandStep
<1>5. now <= now'
  BY <1>1, Bounds DEF QueueType, Times
<1> QED BY <1>1, <1>3, <1>4, <1>5, NoRowStep DEF Step

\* A deleted channel's pending deliveries are failed: it is no channel any more.
LEMMA DeleteChannelStep ==
    ASSUME DeliveryInv, NEW k \in Channels, DeleteChannel(k)
    PROVE  Step /\ QueueType'
<1> USE DEF DeliveryInv
<1>1. /\ channels' = channels \ {k} /\ held' \subseteq held
      /\ row' = [row EXCEPT ![k] = [n \in Index |->
                    IF Pending(k, n) THEN [row[k][n] EXCEPT !.state = "failed"] ELSE row[k][n]]]
      /\ UNCHANGED <<now, event, lastEvent, last, hand, got, reported>>
  BY DEF DeleteChannel, Index
<1> DEFINE q == [n \in Index |->
                    IF Pending(k, n) THEN [row[k][n] EXCEPT !.state = "failed"] ELSE row[k][n]]
<1>2. \A n \in Index :
          \/ q[n] = row[k][n]
          \/ /\ Pending(k, n) /\ q[n] \in Row /\ q[n].state = "failed"
             /\ q[n].type = row[k][n].type
  <2> SUFFICES ASSUME NEW n \in Index, Pending(k, n)
               PROVE  q[n] \in Row /\ q[n].state = "failed" /\ q[n].type = row[k][n].type
    OBVIOUS
  <2> DEFINE r == [row[k][n] EXCEPT !.state = "failed"]
  <2>1. row[k][n] \in Row /\ q[n] = r
    BY Cell DEF Pending
  <2>2. r \in Row /\ r.state = "failed" /\ r.type = row[k][n].type
    BY <2>1, RowFields
  <2> HIDE DEF q, r
  <2> QED BY <2>1, <2>2
<1>3. q \in [Index -> Row \cup {NoRow}]
  <2>1. \A n \in Index : q[n] \in Row \cup {NoRow}
    <3> HIDE DEF q
    <3> QED BY <1>2, Cell
  <2>2. q = [n \in Index |-> q[n]]
    OBVIOUS
  <2> HIDE DEF q
  <2> QED BY <2>1, <2>2
<1>4. row' = [row EXCEPT ![k] = q]
  BY <1>1
<1> HIDE DEF q
<1>5. row' \in Table /\ \A c \in Channels : row'[c] = IF c = k THEN q ELSE row[c]
  BY <1>3, <1>4 DEF QueueType, Table
<1>6. \A c \in Channels, n \in Index : RowStep(c, n)
  <2> SUFFICES ASSUME NEW c \in Channels, NEW n \in Index, row'[c][n] # row[c][n] PROVE Settles(c, n)
    BY DEF RowStep
  <2>1. c = k /\ k \notin channels'
    BY <1>1, <1>5
  <2>2. /\ Pending(k, n) /\ row'[k][n] \in Row /\ row'[k][n].state = "failed"
        /\ row'[k][n].type = row[k][n].type
    BY <1>2, <1>5, <2>1
  <2> QED BY <2>1, <2>2 DEF Settles, Pending
<1>7. QueueType'
  BY <1>1, <1>5 DEF QueueType
<1>8. \A w \in Workers : \A h \in hand'[w] : Takes(h) \/ Holds(w, h)
  BY <1>1, HandStep
<1>9. now <= now'
  BY <1>1, Bounds DEF QueueType, Times
<1> QED BY <1>1, <1>5, <1>6, <1>7, <1>8, <1>9 DEF Step, ReportStep

\* The sweep prunes no event that is referred to, and no pending delivery.
LEMMA SweepStep ==
    ASSUME DeliveryInv, Sweep
    PROVE  Step /\ QueueType'
<1> USE DEF DeliveryInv
<1>1. PruneEvents /\ PruneDeliveries /\ UNCHANGED <<now, lastEvent, last, channels, held, hand, got, reported>>
  BY DEF Sweep
<1>2. /\ event' \in [EventIds -> EventRow \cup {Absent}]
      /\ \A e \in EventIds : event[e] # Absent => event'[e] # Absent \/ ~Referenced(e)
  BY <1>1 DEF PruneEvents, QueueType
<1>3. \A c \in Channels, n \in Index : row'[c][n] = row[c][n] \/ Prunes(c, n)
  BY <1>1 DEF PruneDeliveries, Index, Prunes, Pending
<1>4. row' \in Table
  <2>1. \A c \in Channels, n \in Index : row'[c][n] \in Row \cup {NoRow}
    BY <1>3, Cell DEF Prunes
  <2> QED BY <1>1, <2>1 DEF PruneDeliveries, Table, Index
<1>5. QueueType'
  BY <1>1, <1>2, <1>4 DEF QueueType
<1>6. \A w \in Workers : \A h \in hand'[w] : Takes(h) \/ Holds(w, h)
  BY <1>1, HandStep
<1>7. now <= now'
  BY <1>1, Bounds DEF QueueType, Times
<1> QED BY <1>1, <1>2, <1>3, <1>5, <1>6, <1>7 DEF Step, RowStep, ReportStep

\* Time passes.
LEMMA TickStep == ASSUME DeliveryInv, Tick PROVE Step /\ QueueType'
<1> USE DEF DeliveryInv
<1>1. /\ now < MaxTime /\ now' = now + 1
      /\ UNCHANGED <<event, lastEvent, row, last, channels, held, hand, got, reported>>
  BY DEF Tick
<1>2. now' \in Times /\ now <= now'
  BY <1>1, Bounds DEF QueueType, Times
<1>3. QueueType'
  BY <1>1, <1>2 DEF QueueType
<1>4. \A w \in Workers : \A h \in hand'[w] : Takes(h) \/ Holds(w, h)
  BY <1>1, HandStep
<1> QED BY <1>1, <1>2, <1>3, <1>4, NoRowStep DEF Step

-----------------------------------------------------------------------------
(* The specification *)

\* ChannelOrder, of one step.
OrderedSends ==
    \A d \in got' \ got : \A m \in 1..(d[2] - 1) :
        \/ <<d[1], m>> \in got
        \/ ~Pending(d[1], m)
        \/ Hold = 0
        \/ row[d[1]][m].first # Absent /\ row[d[1]][m].first <= now - Hold

\* It starts empty.
LEMMA DeliveryInvInit == ASSUME Init PROVE DeliveryInv
<1> USE DEF Init
<1>1. 0 \in Times /\ 0 \in 0..MaxEvents /\ 0 \in 0..MaxRows
  BY Bounds DEF Times
<1>2. QueueType
  BY <1>1 DEF QueueType, Table, Index
<1>3. \A c \in Channels, n \in Index : row[c][n] = NoRow /\ reported[c][n] = 0
  BY DEF Index
<1>4. RowInv
  <2> SUFFICES ASSUME NEW c \in Channels, NEW n \in Index
               PROVE  row[c][n] = NoRow /\ reported[c][n] = 0 /\ ~(reported[c][n] > 0)
    BY DEF RowInv
  <2>1. row[c][n] = NoRow /\ reported[c][n] = 0
    BY <1>3
  <2> QED BY <2>1
<1>5. \A w \in Workers : hand[w] = {}
  OBVIOUS
<1>6. HandInv
  BY <1>5 DEF HandInv
<1>7. QueuedHasEvent
  BY <1>3 DEF QueuedHasEvent, Pending, Index
<1>8. NoSilentLoss
  BY <1>3 DEF NoSilentLoss, Index
<1> QED BY <1>2, <1>4, <1>6, <1>7, <1>8 DEF DeliveryInv

\* Every step of the queue keeps the invariant, and sends in order.
LEMMA DeliveryNext == ASSUME DeliveryInv, [Next]_vars PROVE DeliveryInv' /\ OrderedSends
<1>1. CASE UNCHANGED vars
  <2>1. UNCHANGED <<now, event, lastEvent, row, last, channels, held, hand, got, reported>>
    BY <1>1 DEF vars
  <2>2. QueueType' /\ OrderedSends
    BY <2>1 DEF DeliveryInv, QueueType, OrderedSends
  <2>3. Step
    <3>1. \A w \in Workers : \A h \in hand'[w] : Takes(h) \/ Holds(w, h)
      BY <2>1, HandStep
    <3>2. now <= now'
      BY <2>1, Bounds DEF DeliveryInv, QueueType, Times
    <3> QED BY <2>1, <3>1, <3>2, NoRowStep DEF Step
  <2> QED BY <2>2, <2>3, InvStep
<1>2. ASSUME NEW w \in Workers, NEW h \in hand[w], NEW answer \in Answers, Send(w, h, answer)
      PROVE  DeliveryInv' /\ OrderedSends
  <2>1. Step /\ QueueType' /\ got' \subseteq got \cup {<<h.c, h.n>>}
    BY <1>2, SendStep
  <2>2. Ordered(h.c, h.n)
    BY DEF DeliveryInv, HandInv
  <2>3. OrderedSends
    <3>1. \A d \in got' \ got : d = <<h.c, h.n>>
      BY <2>1
    <3> QED BY <2>2, <3>1 DEF OrderedSends, Ordered
  <2> QED BY <2>1, <2>3, InvStep
<1>3. ASSUME NEW send \in SUBSET Channels, NEW hold \in SUBSET Channels, EmitEvent(send, hold)
      PROVE  DeliveryInv' /\ OrderedSends
  <2>1. got' = got
    BY <1>3 DEF EmitEvent
  <2> QED BY <1>3, <2>1, EmitEventStep, InvStep DEF OrderedSends
<1>4. ASSUME NEW e \in EventIds, NEW c \in Channels, ReleaseHeld(e, c) \/ DropHeld(e, c)
      PROVE  DeliveryInv' /\ OrderedSends
  <2>1. got' = got
    BY <1>4 DEF ReleaseHeld, DropHeld
  <2>2. Step /\ QueueType'
    BY <1>4, ReleaseHeldStep, DropHeldStep
  <2> QED BY <2>1, <2>2, InvStep DEF OrderedSends
<1>5. ASSUME NEW w \in Workers, ClaimDueDeliveries(w) \/ Lose(w)
      PROVE  DeliveryInv' /\ OrderedSends
  <2>1. got' = got
    BY <1>5 DEF ClaimDueDeliveries, Lose
  <2>2. Step /\ QueueType'
    BY <1>5, ClaimStep, LoseStep
  <2> QED BY <2>1, <2>2, InvStep DEF OrderedSends
<1>6. ASSUME NEW w \in Workers, NEW h \in hand[w], Answered(w, h)
      PROVE  DeliveryInv' /\ OrderedSends
  <2>1. got' = got
    BY <1>6 DEF Answered, MarkDeliveryDelivered, RescheduleDelivery, FailDelivery, FailDeliveryAndEmit
  <2>2. Step /\ QueueType'
    BY <1>6, MarkDeliveredStep, RescheduleStep, FailDeliveryStep, FailAndEmitStep DEF Answered
  <2> QED BY <2>1, <2>2, InvStep DEF OrderedSends
<1>7. ASSUME NEW c \in Channels, DeleteChannel(c)
      PROVE  DeliveryInv' /\ OrderedSends
  <2>1. got' = got
    BY <1>7 DEF DeleteChannel
  <2> QED BY <1>7, <2>1, DeleteChannelStep, InvStep DEF OrderedSends
<1>8. ASSUME Sweep \/ Tick
      PROVE  DeliveryInv' /\ OrderedSends
  <2>1. got' = got
    BY <1>8 DEF Sweep, Tick
  <2>2. Step /\ QueueType'
    BY <1>8, SweepStep, TickStep
  <2> QED BY <2>1, <2>2, InvStep DEF OrderedSends
<1> QED BY <1>1, <1>2, <1>3, <1>4, <1>5, <1>6, <1>7, <1>8 DEF Next, Work

\* The invariant holds in every reachable state.
LEMMA DeliveryInvHolds == Spec => []DeliveryInv
<1>1. Init => DeliveryInv
  BY DeliveryInvInit
<1>2. DeliveryInv /\ [Next]_vars => DeliveryInv'
  BY DeliveryNext
<1> QED BY <1>1, <1>2, PTL DEF Spec

\* DeliveryTypeOK, the rest of it.
RestType ==
    alerts \in 0..MaxAlerts /\ drained \in SUBSET Workers /\ got \in SUBSET Delivery /\ faults \in 0..MaxFaults

\* Every step of the queue keeps it.
LEMMA RestNext == ASSUME DeliveryInv, RestType, [Next]_vars PROVE RestType'
<1> DEFINE others == UNCHANGED <<alerts, drained, got, faults>>
<1> USE DEF RestType
<1>1. CASE UNCHANGED vars
  BY <1>1 DEF vars
<1>2. ASSUME NEW w \in Workers, NEW h \in hand[w], NEW answer \in Answers, Send(w, h, answer)
      PROVE  RestType'
  <2>1. <<h.c, h.n>> \in Delivery
    BY InHand DEF Delivery, Index
  <2> QED BY <1>2, <2>1 DEF Send
<1>3. ASSUME NEW send \in SUBSET Channels, NEW hold \in SUBSET Channels, EmitEvent(send, hold)
      PROVE  RestType'
  <2>1. alerts' \in 0..MaxAlerts
    BY <1>3, BoundsAssumption DEF EmitEvent, HasRoom
  <2> QED BY <1>3, <2>1 DEF EmitEvent
<1>4. ASSUME NEW e \in EventIds, NEW c \in Channels, ReleaseHeld(e, c) \/ DropHeld(e, c)
      PROVE  RestType'
  <2>1. others
    BY <1>4 DEF ReleaseHeld, DropHeld
  <2> QED BY <2>1
<1>5. ASSUME NEW w \in Workers, ClaimDueDeliveries(w)
      PROVE  RestType'
  BY <1>5 DEF ClaimDueDeliveries
<1>6. ASSUME NEW w \in Workers, Lose(w)
      PROVE  RestType'
  <2>1. faults' \in 0..MaxFaults
    BY <1>6, BoundsAssumption DEF Lose
  <2> QED BY <1>6, <2>1 DEF Lose
<1>7. ASSUME NEW w \in Workers, NEW h \in hand[w], Answered(w, h)
      PROVE  RestType'
  <2>1. others
    BY <1>7 DEF Answered, MarkDeliveryDelivered, RescheduleDelivery, FailDelivery, FailDeliveryAndEmit
  <2> QED BY <2>1
<1>8. ASSUME NEW c \in Channels, DeleteChannel(c)
      PROVE  RestType'
  BY <1>8 DEF DeleteChannel
<1>9. ASSUME Sweep \/ Tick
      PROVE  RestType'
  <2>1. others
    BY <1>9 DEF Sweep, Tick
  <2> QED BY <2>1
<1> QED BY <1>1, <1>2, <1>3, <1>4, <1>5, <1>6, <1>7, <1>8, <1>9 DEF Next, Work

\* Every variable of the queue keeps its type.
THEOREM DeliveryTypes == Spec => []DeliveryTypeOK
<1>1. Init => RestType
  BY BoundsAssumption DEF Init, RestType
<1>2. DeliveryInv /\ RestType /\ [Next]_vars => RestType'
  BY RestNext
<1>3. DeliveryInv /\ RestType => DeliveryTypeOK
  BY DEF DeliveryInv, QueueType, RestType, DeliveryTypeOK, Table, Index, EventRow
<1> QED BY <1>1, <1>2, <1>3, DeliveryInvHolds, PTL DEF Spec

(***************************************************************************)
(* Whatever the sweeps, the late answers and the deleted channels, a       *)
(* pending delivery and a held alert have their event: no claim fails for  *)
(* a row whose event PruneEvents took away.                                *)
(***************************************************************************)
THEOREM QueueKeepsEvents == Spec => []QueuedHasEvent
<1>1. DeliveryInv => QueuedHasEvent
  BY DEF DeliveryInv
<1> QED BY <1>1, DeliveryInvHolds, PTL

(***************************************************************************)
(* No delivery of an existing channel is lost in silence, and none is      *)
(* reported twice, for any number of workers, crashes and expired leases.  *)
(***************************************************************************)
THEOREM LossIsReported == Spec => []NoSilentLoss
<1>1. DeliveryInv => NoSilentLoss
  BY DEF DeliveryInv
<1> QED BY <1>1, DeliveryInvHolds, PTL

(***************************************************************************)
(* A channel is sent to in order, whichever workers send and however long  *)
(* they keep what they claimed.                                            *)
(***************************************************************************)
THEOREM SendsInOrder == Spec => ChannelOrder
<1>1. DeliveryInv /\ [Next]_vars => [OrderedSends]_vars
  BY DeliveryNext
<1> QED BY <1>1, DeliveryInvHolds, PTL DEF Spec, ChannelOrder, OrderedSends
=============================================================================
