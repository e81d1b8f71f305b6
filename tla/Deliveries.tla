----------------------------- MODULE Deliveries -----------------------------
(***************************************************************************)
(* The durable notification queue (table deliveries) and its workers: the  *)
(* delivery worker of serve and the drain at the end of every `tend run`   *)
(* are processes that claim due rows under a lease, send them, and write   *)
(* the answer back.  A worker may be slow, crash or fail to write, so an   *)
(* answer can arrive after the lease ran out and another worker has taken  *)
(* the delivery.  The retention sweep and DeleteChannel change the same    *)
(* rows.  Every store call is one transaction (internal/store/sqlite.go)   *)
(* and so one step.                                                        *)
(*                                                                         *)
(* A delivery is named <<c, n>>, the n-th queued on channel c: ids only    *)
(* order the deliveries of one channel.  attempts only chooses the back    *)
(* off, which is any member of Backoffs.  Which alerts are held, and when  *)
(* a hold ends, is decided by module Alerts; here any event may be held    *)
(* and released.                                                           *)
(***************************************************************************)
EXTENDS Integers, FiniteSets

CONSTANTS
    Channels,      \* channel ids
    AlertRoute,    \* the channels with a rule for the alerts
    FailRoute,     \* the channels with a rule for notification.failed
    Workers,       \* the delivery workers
    ServeWorker,   \* serve's, the one that is restarted for ever
    Lease,         \* Worker.Lease
    Hold,          \* Worker.Hold (TEND_DELIVERY_HOLD_MINUTES); 0: no ordering
    Limit,         \* how many rows one claim takes at most
    MaxAge,        \* Worker.MaxAge: give-up age
    Destinations,  \* the sets of answers a destination may give: "ok", "error", "refused"
    Backoffs,      \* the delays of a retry
    KeepEvents,    \* the retention windows
    KeepDeliveries,
    MaxAlerts,     \* bound: events recorded by the emitters
    MaxEvents,     \* bound: all events, notification.failed included
    MaxRows,       \* bound: deliveries per channel
    MaxTime,       \* bound: the clock
    MaxFaults,     \* bound: crashes and failed writes
    Absent,        \* an event or a time that is not there
    NoRow          \* a delivery id not used yet, or pruned

ASSUME TimesAssumption == /\ {Lease, Hold, MaxAge, KeepEvents, KeepDeliveries, MaxTime} \subseteq Nat
                          /\ Backoffs \subseteq Nat
                          /\ Absent \notin Int
ASSUME BoundsAssumption == /\ MaxAlerts \in Nat
                           /\ MaxEvents \in Nat
                           /\ MaxRows \in Nat
                           /\ MaxFaults \in Nat
ASSUME ChannelsAssumption == FailRoute \subseteq Channels /\ AlertRoute \subseteq Channels /\ ServeWorker \in Workers

EventIds == 1..MaxEvents
Times == 0..MaxTime
Types == {"alert", "notification.failed"}
Answers == {"ok", "error", "refused"}
Delivery == Channels \X (1..MaxRows)

VARIABLES
    now,        \* the clock
    event,      \* [EventIds -> event, or Absent]
    lastEvent,  \* AUTOINCREMENT of events
    alerts,     \* how many of them were recorded by the emitters
    row,        \* [Channels -> [1..MaxRows -> deliveries row, or NoRow]]
    last,       \* [Channels -> number of deliveries queued so far]
    destination, \* what a send may come to
    channels,   \* the channels that exist
    held,       \* failure_alerts: the <<event, channel>> held back
    drained,    \* the `tend run` processes that have made their one claim
    hand,       \* [Workers -> what the worker has claimed and not settled]
    got,        \* history: the deliveries that reached their destination
    reported,   \* history: notification.failed events recorded for a delivery
    faults      \* crashes and failed writes so far

vars == <<now, event, lastEvent, alerts, row, last, channels, held, drained, hand, got, reported, faults, destination>>

Row == [state : {"pending", "delivered", "failed"}, event : EventIds, type : Types,
        due : Times, first : Times \cup {Absent}, at : Times]
\* The markers are neither events nor rows.
ASSUME MarkersAssumption == Absent \notin [type : Types, at : Times] /\ NoRow \notin Row

Claimed == [c : Channels, n : 1..MaxRows, type : Types, at : Times,
            answer : Answers \cup {"none"}]

Pending(c, n) == row[c][n] # NoRow /\ row[c][n].state = "pending"

\* At the end of the clock a lease or a backoff is over at once.
Later(d) == IF now + d > MaxTime THEN MaxTime ELSE now + d

-----------------------------------------------------------------------------
(* Recording an event and queueing its deliveries (emit.go).               *)

(***************************************************************************)
(* insertDelivery, once for every channel of chs: pending and due now.     *)
(* rows is the table as the transaction has left it so far.                *)
(***************************************************************************)
InsertDelivery(rows, e, type, chs) ==
    /\ \A c \in chs : last[c] < MaxRows
    /\ last' = [c \in Channels |-> IF c \in chs THEN last[c] + 1 ELSE last[c]]
    /\ row' = [c \in Channels |->
                  IF c \in chs
                  THEN [rows[c] EXCEPT ![last[c] + 1] =
                           [state |-> "pending", event |-> e, type |-> type,
                            due |-> now, first |-> Absent, at |-> now]]
                  ELSE rows[c]]

RecordEvent(type) ==
    /\ lastEvent < MaxEvents
    /\ lastEvent' = lastEvent + 1
    /\ event' = [event EXCEPT ![lastEvent + 1] = [type |-> type, at |-> now]]

\* Bounds: at most MaxAlerts alerts, so that a give-up always has room, and
\* one held at a time.
HasRoom(hold) == alerts < MaxAlerts /\ (held = {} \/ hold = {})

(***************************************************************************)
(* EmitEvent, FinishRunAndEmit, ...: the event and a pending delivery for  *)
(* each channel it is sent to, in one transaction; on the channels of hold *)
(* its alert is held back.                                                 *)
(***************************************************************************)
EmitEvent(send, hold) ==
    /\ HasRoom(hold) /\ now < MaxTime
    /\ send \cup hold \subseteq AlertRoute \cap channels
    /\ send \cap hold = {} /\ send \cup hold # {}
    /\ RecordEvent("alert")
    /\ InsertDelivery(row, lastEvent + 1, "alert", send)
    /\ held' = held \cup {<<lastEvent + 1, c>> : c \in hold}
    /\ alerts' = alerts + 1
    /\ UNCHANGED <<now, channels, hand, got, reported, faults, drained, destination>>

(***************************************************************************)
(* ReleaseHeldAlerts, which a worker calls before each claim: one held     *)
(* failure is queued, or dropped (its job recovered, its event is gone).   *)
(***************************************************************************)
ReleaseHeld(e, c) ==
    /\ <<e, c>> \in held
    /\ event[e] # Absent
    /\ held' = held \ {<<e, c>>}
    /\ InsertDelivery(row, e, "alert", {c})
    /\ UNCHANGED <<now, event, lastEvent, channels, hand, got, reported, faults, alerts, drained, destination>>

DropHeld(e, c) ==
    /\ <<e, c>> \in held
    /\ held' = held \ {<<e, c>>}
    /\ UNCHANGED <<now, event, lastEvent, row, last, channels, hand, got, reported, faults, alerts, drained, destination>>

-----------------------------------------------------------------------------
(* ClaimDueDeliveries.                                                     *)

(***************************************************************************)
(* Held back: an older pending delivery of the channel that was not tried  *)
(* yet, or was first tried within the hold.                                *)
(***************************************************************************)
\* Not part of the specification: only an untried older delivery holds the others back.
HeldBackUntried(c, n) ==
    /\ Hold > 0
    /\ \E m \in 1..(n - 1) : Pending(c, m) /\ row[c][m].first = Absent

HeldBack(c, n) ==
    /\ Hold > 0
    /\ \E m \in 1..(n - 1) :
          /\ Pending(c, m)
          /\ row[c][m].first = Absent \/ row[c][m].first > now - Hold

Claimable == {d \in Delivery : /\ Pending(d[1], d[2])
                               /\ row[d[1]][d[2]].due <= now
                               /\ ~HeldBack(d[1], d[2])}

(***************************************************************************)
(* One transaction: attempts and first_attempt_at are stamped, the lease   *)
(* is taken, and the events are joined in.  ORDER BY id LIMIT: the oldest  *)
(* of a channel first.  A row whose event is gone fails the join, which    *)
(* rolls the whole claim back.                                             *)
(***************************************************************************)
ClaimDueDeliveries(w) ==
    /\ hand[w] = {}
    /\ w \notin drained
    /\ drained' = IF w = ServeWorker THEN drained ELSE drained \cup {w}
    /\ \E S \in SUBSET Claimable :
          /\ S # {}
          /\ Cardinality(S) = Limit \/ (S = Claimable /\ Cardinality(S) < Limit)
          /\ \A d \in S, o \in Claimable \ S : d[1] = o[1] => d[2] < o[2]
          /\ \A d \in S : event[row[d[1]][d[2]].event] # Absent
          /\ row' = [c \in Channels |-> [n \in 1..MaxRows |->
                        IF <<c, n>> \in S
                        THEN [row[c][n] EXCEPT !.due = Later(Lease),
                                               !.first = IF @ = Absent THEN now ELSE @]
                        ELSE row[c][n]]]
          /\ hand' = [hand EXCEPT ![w] =
                {[c |-> d[1], n |-> d[2], type |-> row[d[1]][d[2]].type,
                  at |-> row[d[1]][d[2]].at, answer |-> "none"] : d \in S}]
    /\ UNCHANGED <<now, event, lastEvent, last, channels, held, got, reported, faults, alerts, destination>>

-----------------------------------------------------------------------------
(* sender, and the answers it leads to (kit's worker calls the queue back).*)

(***************************************************************************)
(* sender: without its channel the delivery cannot be sent; else the       *)
(* destination takes it, fails, or refuses it for good.                    *)
(***************************************************************************)
Send(w, h, answer) ==
    /\ h \in hand[w]
    /\ h.answer = "none"
    /\ answer \in IF h.c \in channels THEN destination ELSE {"error"}
    /\ hand' = [hand EXCEPT ![w] = (@ \ {h}) \cup {[h EXCEPT !.answer = answer]}]
    /\ got' = IF answer = "ok" THEN got \cup {<<h.c, h.n>>} ELSE got
    /\ UNCHANGED <<now, event, lastEvent, row, last, channels, held, reported, faults, alerts, drained, destination>>

Settle(w, h) == hand' = [hand EXCEPT ![w] = @ \ {h}]

(***************************************************************************)
(* UPDATE deliveries SET state = s WHERE id = ...: the row may be gone.    *)
(***************************************************************************)
SetState(c, n, s) ==
    row' = IF row[c][n] = NoRow THEN row ELSE [row EXCEPT ![c][n] = [@ EXCEPT !.state = s]]

MarkDeliveryDelivered(w, h) ==
    /\ h \in hand[w]
    /\ h.answer = "ok"
    /\ SetState(h.c, h.n, "delivered")
    /\ Settle(w, h)
    /\ UNCHANGED <<now, event, lastEvent, last, channels, held, got, reported, faults, alerts, drained, destination>>

\* The clock stops at MaxTime: by then any age has been reached.
TooOld(h) == now - h.at > MaxAge \/ now = MaxTime

(***************************************************************************)
(* RescheduleDelivery: only a row still pending is rescheduled.            *)
(***************************************************************************)
RescheduleDelivery(w, h, b) ==
    /\ h \in hand[w]
    /\ h.answer = "error"
    /\ ~TooOld(h)
    /\ row' = IF Pending(h.c, h.n) THEN [row EXCEPT ![h.c][h.n] = [@ EXCEPT !.due = Later(b)]] ELSE row
    /\ Settle(w, h)
    /\ UNCHANGED <<now, event, lastEvent, last, channels, held, got, reported, faults, alerts, drained, destination>>

GivesUp(w, h) ==
    /\ h \in hand[w]
    /\ h.answer = "refused" \/ (h.answer = "error" /\ TooOld(h))

(***************************************************************************)
(* GiveUp of a notification.failed: FailDelivery, and nothing is recorded  *)
(* (the loop guard).                                                       *)
(***************************************************************************)
FailDelivery(w, h) ==
    /\ GivesUp(w, h)
    /\ h.type = "notification.failed"
    /\ SetState(h.c, h.n, "failed")
    /\ Settle(w, h)
    /\ UNCHANGED <<now, event, lastEvent, last, channels, held, got, reported, faults, alerts, drained, destination>>

(***************************************************************************)
(* GiveUp of any other event: a row still pending is failed and            *)
(* notification.failed recorded, with its deliveries, in one transaction.  *)
(***************************************************************************)
EmitFailed(h) ==
    /\ RecordEvent("notification.failed")
    /\ InsertDelivery([row EXCEPT ![h.c][h.n] = [@ EXCEPT !.state = "failed"]],
                      lastEvent + 1, "notification.failed", FailRoute \cap channels)
    /\ reported' = [reported EXCEPT ![h.c][h.n] = @ + 1]

\* Not part of the specification: gives up whatever became of the row meanwhile.
FailWithoutGuard(w, h) ==
    /\ GivesUp(w, h)
    /\ h.type # "notification.failed"
    /\ IF row[h.c][h.n] # NoRow
       THEN EmitFailed(h)
       ELSE UNCHANGED <<event, lastEvent, row, last, reported>>
    /\ Settle(w, h)
    /\ UNCHANGED <<now, channels, held, got, faults, alerts, drained, destination>>

FailDeliveryAndEmit(w, h) ==
    /\ GivesUp(w, h)
    /\ h.type # "notification.failed"
    /\ IF Pending(h.c, h.n)
       THEN EmitFailed(h)
       ELSE UNCHANGED <<event, lastEvent, row, last, reported>>
    /\ Settle(w, h)
    /\ UNCHANGED <<now, channels, held, got, faults, alerts, drained, destination>>

(***************************************************************************)
(* The write of an answer fails, or serve dies and is started again: what  *)
(* was in hand becomes due again when its lease ends.  A `tend run` that   *)
(* dies is one that takes no further step.                                 *)
(***************************************************************************)
Lose(w) ==
    /\ faults < MaxFaults
    /\ w = ServeWorker
    /\ hand[w] # {}
    /\ faults' = faults + 1
    /\ hand' = [hand EXCEPT ![w] = {}]
    /\ UNCHANGED <<now, event, lastEvent, alerts, row, last, channels, held, got, reported, drained, destination>>

-----------------------------------------------------------------------------
(* DeleteChannel and the retention sweep.                                  *)

(***************************************************************************)
(* The channel's rules, its alert states and itself go; its pending        *)
(* deliveries are finalized.                                               *)
(***************************************************************************)
DeleteChannel(c) ==
    /\ c \in channels
    /\ channels' = channels \ {c}
    /\ held' = {p \in held : p[2] # c}
    /\ row' = [row EXCEPT ![c] = [n \in 1..MaxRows |->
                  IF Pending(c, n) THEN [row[c][n] EXCEPT !.state = "failed"] ELSE row[c][n]]]
    /\ UNCHANGED <<now, event, lastEvent, last, hand, got, reported, faults, alerts, drained, destination>>

(***************************************************************************)
(* PruneEvents: what a pending delivery or a held alert refers to is kept. *)
(***************************************************************************)
Referenced(e) ==
    \/ \E c \in Channels, n \in 1..MaxRows : Pending(c, n) /\ row[c][n].event = e
    \/ \E c \in Channels : <<e, c>> \in held

\* Not part of the specification: does not look at the held alerts.
PruneEventsIgnoringHeld ==
    event' = [e \in EventIds |->
        IF event[e] # Absent /\ event[e].at < now - KeepEvents
           /\ ~\E c \in Channels, n \in 1..MaxRows : Pending(c, n) /\ row[c][n].event = e
        THEN Absent ELSE event[e]]

\* Not part of the specification: does not look at the pending deliveries.
PruneEventsIgnoringQueue ==
    event' = [e \in EventIds |->
        IF event[e] # Absent /\ event[e].at < now - KeepEvents /\ ~\E c \in Channels : <<e, c>> \in held
        THEN Absent ELSE event[e]]

PruneEvents ==
    event' = [e \in EventIds |->
        IF event[e] # Absent /\ event[e].at < now - KeepEvents /\ ~Referenced(e)
        THEN Absent ELSE event[e]]

(***************************************************************************)
(* PruneDeliveries: finalized rows only, whatever the age of the others.   *)
(***************************************************************************)
PruneDeliveries ==
    row' = [c \in Channels |-> [n \in 1..MaxRows |->
        IF row[c][n] # NoRow /\ row[c][n].state # "pending" /\ row[c][n].at < now - KeepDeliveries
        THEN NoRow ELSE row[c][n]]]

(***************************************************************************)
(* sweeper.run, at startup and daily: the two prunes are transactions of   *)
(* their own and follow each other at once; what happens between them only *)
(* changes which rows the next sweep finds.                                *)
(***************************************************************************)
Sweep ==
    /\ PruneEvents
    /\ PruneDeliveries
    /\ UNCHANGED <<now, lastEvent, last, channels, held, hand, got, reported, faults, alerts, drained, destination>>

Tick ==
    /\ now < MaxTime
    /\ now' = now + 1
    /\ UNCHANGED <<event, lastEvent, row, last, channels, held, hand, got, reported, faults, alerts, drained, destination>>

-----------------------------------------------------------------------------
Init ==
    /\ now = 0
    /\ event = [e \in EventIds |-> Absent]
    /\ lastEvent = 0
    /\ alerts = 0
    /\ row = [c \in Channels |-> [n \in 1..MaxRows |-> NoRow]]
    /\ last = [c \in Channels |-> 0]
    /\ channels = Channels
    /\ held = {}
    /\ drained = {}
    /\ destination \in Destinations
    /\ hand = [w \in Workers |-> {}]
    /\ got = {}
    /\ reported = [c \in Channels |-> [n \in 1..MaxRows |-> 0]]
    /\ faults = 0

Answered(w, h) ==
    \/ MarkDeliveryDelivered(w, h)
    \/ \E b \in Backoffs : RescheduleDelivery(w, h, b)
    \/ FailDelivery(w, h)
    \/ FailDeliveryAndEmit(w, h)

Work(w) ==
    \/ ClaimDueDeliveries(w)
    \/ \E h \in hand[w] :
          \/ \E answer \in Answers : Send(w, h, answer)
          \/ Answered(w, h)

Next ==
    \/ \E send, hold \in SUBSET Channels : EmitEvent(send, hold)
    \/ \E e \in EventIds, c \in Channels : ReleaseHeld(e, c) \/ DropHeld(e, c)
    \/ \E w \in Workers :
          \/ Work(w)
          \/ Lose(w)
    \/ \E c \in Channels : DeleteChannel(c)
    \/ Sweep
    \/ Tick

Spec == Init /\ [][Next]_vars

(***************************************************************************)
(* serve's worker polls for ever and its sends are bounded in time; a      *)
(* `tend run` drain may stop anywhere.                                     *)
(***************************************************************************)
Fairness == WF_vars(Work(ServeWorker)) /\ WF_vars(Tick)
FairSpec == Spec /\ Fairness

-----------------------------------------------------------------------------
(* Properties.                                                             *)

\* Every variable has its type.
DeliveryTypeOK ==
    /\ now \in Times
    /\ event \in [EventIds -> [type : Types, at : Times] \cup {Absent}]
    /\ lastEvent \in 0..MaxEvents
    /\ alerts \in 0..MaxAlerts
    /\ row \in [Channels -> [1..MaxRows -> Row \cup {NoRow}]]
    /\ last \in [Channels -> 0..MaxRows]
    /\ channels \in SUBSET Channels
    /\ held \in SUBSET (EventIds \X Channels)
    /\ drained \in SUBSET Workers
    /\ hand \in [Workers -> SUBSET Claimed]
    /\ got \in SUBSET Delivery
    /\ reported \in [Channels -> [1..MaxRows -> Nat]]
    /\ faults \in 0..MaxFaults

(***************************************************************************)
(* The event of a pending delivery, or of a held alert, is never pruned:   *)
(* one claimed row without its event would fail every claim of the queue   *)
(* (the join of ClaimDueDeliveries), and a held one could not be sent.     *)
(***************************************************************************)
QueuedHasEvent ==
    /\ \A c \in Channels, n \in 1..MaxRows : Pending(c, n) => event[row[c][n].event] # Absent
    /\ \A p \in held : event[p[1]] # Absent

(***************************************************************************)
(* "A dropped alert is never silent" (worker.go), and "a delivery is never *)
(* given up twice" (FailDeliveryAndEmit): whatever late answers, crashes   *)
(* and failed writes do to a row, a delivery on an existing channel that   *)
(* is marked delivered has been received, one that is marked failed has    *)
(* been reported as notification.failed (or is one), and two workers that  *)
(* both have it in hand report it once between them.                       *)
(***************************************************************************)
NoSilentLoss ==
    /\ \A c \in channels, n \in 1..MaxRows :
        row[c][n] # NoRow =>
            /\ row[c][n].state = "delivered" => <<c, n>> \in got
            /\ row[c][n].state = "failed" =>
                  row[c][n].type = "notification.failed" \/ reported[c][n] > 0
    /\ \A c \in Channels, n \in 1..MaxRows : reported[c][n] <= 1

(***************************************************************************)
(* Ordered per channel (ClaimDueDeliveries): when a delivery first reaches *)
(* its destination, each one queued before it on the channel has been      *)
(* received or is settled, or was first attempted at least the hold ago.   *)
(***************************************************************************)
ChannelOrder ==
    [][\A d \in got' \ got : \A m \in 1..(d[2] - 1) :
          \/ <<d[1], m>> \in got
          \/ ~Pending(d[1], m)
          \/ Hold = 0
          \/ row[d[1]][m].first # Absent /\ row[d[1]][m].first <= now - Hold]_vars

(***************************************************************************)
(* Once the emitters stop the queue becomes empty, on serve's worker       *)
(* alone: a destination that keeps failing, a lease left by a dead worker, *)
(* a late answer or a held channel keeps no delivery pending for ever.     *)
(***************************************************************************)
QueueDrains == []<>(\A c \in Channels, n \in 1..MaxRows : ~Pending(c, n))
=============================================================================
