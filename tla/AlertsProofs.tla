---------------------------- MODULE AlertsProofs ----------------------------
(***************************************************************************)
(* Proofs, for every set of channels, every repeat interval, hold, slack   *)
(* and retention window, and every number of changes and failed releases,  *)
(* of what module Alerts says of a job's failures: what is held is news,   *)
(* no routed outage is left unannounced, what a channel is sent is spaced, *)
(* and a recovery goes where the failure went.                             *)
(***************************************************************************)
EXTENDS Alerts, TLAPS

USE IntervalAssumption, ScopesAssumption, NoneAssumption

\* Every variable has its type.
TypeInv ==
    /\ now \in Nat
    /\ job \in JobRow \cup {None}
    /\ last \in RunRow \cup {None}
    /\ kind \in [Channels -> Kinds \cup {None}]
    /\ failed \in [Channels -> [Scopes -> Repeats \cup {Off, Unset}]]
    /\ recovered \subseteq Channels
    /\ alert \in [Channels -> AlertRow \cup {None}]
    /\ poll \in Nat \cup {None}
    /\ cands \subseteq [c : Channels, held : Nat, kind : Kinds]
    /\ inStreak \subseteq Channels /\ heard \subseteq Channels
    /\ sent \in [Channels -> Nat \cup {None}]

\* No stamp lies in the future, the worker's clock included; it looks at
\* candidates only while it has one.
ClockInv ==
    /\ poll # None => poll <= now
    /\ poll = None => cands = {}
    /\ job # None /\ job.since # None => job.since <= now
    /\ \A c \in Channels : alert[c] # None =>
        /\ alert[c].last <= now
        /\ alert[c].held # None => alert[c].held <= now

\* The job's row agrees with its last run, and a streak that is over was
\* announced to nobody.
StreakInv ==
    /\ job # None => (job.failing <=> job.since # None)
    /\ AfterSuccess => job # None /\ ~job.failing
    /\ job # None /\ ~job.failing => inStreak = {}

\* A channel's alert state says when it was last sent a failure, and one that
\* was sent a failure stamped in this streak is known to have been.
StampInv ==
    \A c \in Channels :
        /\ alert[c] # None => sent[c] = alert[c].last
        /\ alert[c] = None /\ job # None /\ kind[c] # None => sent[c] = None
        /\ alert[c] # None /\ job # None /\ job.failing /\ alert[c].last >= job.since => c \in inStreak

\* A channel that heard of the streak is routed.
HeardInv == \A c \in heard : Rules(c) # {}

Inv == TypeInv /\ ClockInv /\ StreakInv /\ StampInv /\ HeardInv /\ HeldIsNews /\ Announced

-----------------------------------------------------------------------------
(* The pacing of failures.                                                 *)

\* PaceFailure sends, passes over a failure of a streak the channel was told
\* of, or holds one of a streak it was not told of after an earlier one.
LEMMA PaceVerdict ==
    ASSUME NEW st, NEW at, NEW since, NEW repeat
    PROVE  LET v == PaceFailure(st, at, since, repeat)
           IN  \/ v = "send"
               \/ v = "pass" /\ Told(st, since)
               \/ v = "hold" /\ ~Told(st, since) /\ st # None
BY DEF PaceFailure

\* The state of each channel after a failure recorded at at: sent, passed
\* over, held, or not routed there at all.
SentAt(c, at) ==
    /\ alert'[c] # None /\ alert'[c].last = at /\ alert'[c].held = None
    /\ sent'[c] = at /\ c \in inStreak'
PassedOver(c, since) ==
    /\ alert[c] # None /\ alert[c].last >= since
    /\ alert'[c] # None /\ alert'[c].last = alert[c].last /\ alert'[c].held = None
    /\ sent'[c] = sent[c]
HeldAt(c, at, since) ==
    /\ alert[c] # None /\ ~(alert[c].last >= since)
    /\ alert'[c] # None /\ alert'[c].last = alert[c].last /\ alert'[c].held = at
    /\ sent'[c] = sent[c]
NotRouted(c) ==
    /\ alert'[c] = alert[c] /\ sent'[c] = sent[c]
    /\ c \in heard' => c \in heard /\ ~AfterSuccess

\* recordEvent of a run.failed, channel by channel.
LEMMA RecordFailedStep ==
    ASSUME TypeInv, NEW at \in Nat, RecordFailed(at)
    PROVE  /\ job' = StreakOf(at)
           /\ alert' \in [Channels -> AlertRow \cup {None}]
           /\ sent' \in [Channels -> Nat \cup {None}]
           /\ inStreak' \subseteq Channels
           /\ inStreak \subseteq inStreak' \/ AfterSuccess
           /\ heard' \subseteq Channels
           /\ \A c \in heard' : c \in heard \/ Routed(c)
           /\ \A c \in Channels : \/ SentAt(c, at)
                                  \/ PassedOver(c, job'.since) \/ HeldAt(c, at, job'.since)
                                  \/ NotRouted(c)
           /\ \A c \in Channels : c \in inStreak' /\ ~SentAt(c, at) => c \in inStreak /\ ~AfterSuccess
<1> DEFINE since == StreakOf(at).since
           verdict(c) == PaceFailure(alert[c], at, since, FailedRepeat(c, kind[c]))
           sends == {c \in Channels : Routed(c) /\ verdict(c) = "send"}
<1>1. /\ job' = StreakOf(at)
      /\ alert' = [c \in Channels |-> IF Routed(c) THEN NextState(alert[c], at, verdict(c)) ELSE alert[c]]
      /\ inStreak' = (IF AfterSuccess THEN {} ELSE inStreak) \cup sends
      /\ heard' = (IF AfterSuccess THEN {} ELSE heard) \cup {c \in Channels : Routed(c)}
      /\ sent' = [c \in Channels |-> IF c \in sends THEN at ELSE sent[c]]
  BY DEF RecordFailed
<1>2. job'.since = since
  BY <1>1
<1>3. \A c \in Channels : \/ verdict(c) = "send"
                          \/ verdict(c) = "pass" /\ alert[c] # None /\ alert[c].last >= since
                          \/ verdict(c) = "hold" /\ alert[c] # None /\ ~(alert[c].last >= since)
  BY PaceVerdict DEF Told
<1>4. \A c \in sends : SentAt(c, at) /\ alert'[c] \in AlertRow
  <2> DEFINE row == [last |-> at, held |-> None]
  <2>1. row \in AlertRow /\ row.last = at /\ row.held = None
    BY DEF AlertRow
  <2>2. row # None
    BY <2>1
  <2>3. \A c \in sends : alert'[c] = row /\ sent'[c] = at /\ c \in inStreak'
    BY <1>1 DEF NextState
  <2> HIDE DEF row, sends
  <2> QED BY <2>1, <2>2, <2>3 DEF SentAt
<1>5. \A c \in Channels : ~Routed(c) => NotRouted(c)
  BY <1>1 DEF NotRouted
<1>6. ASSUME NEW c \in Channels, Routed(c), c \notin sends
      PROVE  (PassedOver(c, since) \/ HeldAt(c, at, since)) /\ alert'[c] \in AlertRow
  <2>1. sent'[c] = sent[c] /\ alert'[c] = NextState(alert[c], at, verdict(c)) /\ verdict(c) # "send"
    BY <1>1, <1>6
  <2>2. alert[c] # None /\ alert[c] \in AlertRow
    BY <1>3, <2>1 DEF TypeInv
  <2> HIDE DEF verdict, since
  <2>3. CASE verdict(c) = "pass"
    <3>1. alert'[c] = [alert[c] EXCEPT !.held = None]
      BY <2>1, <2>3 DEF NextState
    <3>2. alert'[c] \in AlertRow /\ alert'[c].last = alert[c].last /\ alert'[c].held = None
      BY <2>2, <3>1 DEF AlertRow
    <3> QED BY <1>3, <2>1, <2>2, <2>3, <3>2 DEF PassedOver
  <2>4. CASE verdict(c) = "hold"
    <3>1. alert'[c] = [alert[c] EXCEPT !.held = at]
      BY <2>1, <2>4 DEF NextState
    <3>2. alert'[c] \in AlertRow /\ alert'[c].last = alert[c].last /\ alert'[c].held = at
      BY <2>2, <3>1 DEF AlertRow
    <3> QED BY <1>3, <2>1, <2>2, <2>4, <3>2 DEF HeldAt
  <2> QED BY <1>3, <2>1, <2>3, <2>4
<1>7. \A c \in Channels : \/ SentAt(c, at) \/ PassedOver(c, since) \/ HeldAt(c, at, since) \/ NotRouted(c)
  BY <1>4, <1>5, <1>6
<1>8. inStreak' \subseteq Channels /\ heard' \subseteq Channels
  BY <1>1 DEF TypeInv
<1>9. inStreak \subseteq inStreak' \/ AfterSuccess
  BY <1>1
<1>10. \A c \in heard' : c \in heard \/ Routed(c)
  BY <1>1
<1>11. \A c \in Channels : c \in inStreak' /\ ~SentAt(c, at) => c \in inStreak /\ ~AfterSuccess
  BY <1>1, <1>4
<1>12. sent' \in [Channels -> Nat \cup {None}]
  <2> HIDE DEF sends
  <2> QED BY <1>1 DEF TypeInv
<1>13. alert' \in [Channels -> AlertRow \cup {None}]
  <2>1. \A c \in Channels : alert'[c] \in AlertRow \cup {None}
    <3>1. \A c \in Channels : ~Routed(c) => alert'[c] \in AlertRow \cup {None}
      BY <1>1 DEF TypeInv
    <3> QED BY <1>4, <1>6, <3>1
  <2>2. alert' = [c \in Channels |-> alert'[c]]
    BY <1>1
  <2> QED BY <2>1, <2>2
<1> QED BY <1>1, <1>2, <1>7, <1>8, <1>9, <1>10, <1>11, <1>12, <1>13

-----------------------------------------------------------------------------
(* Every step keeps the inductive invariant.                               *)

\* A failure of a job that is there keeps the invariant.
LEMMA FailureInv ==
    ASSUME Inv, job # None, RecordFailed(now + 1), now' = now + 1,
           last' = [status |-> "failed", at |-> now + 1], UNCHANGED <<config, worker>>
    PROVE  Inv'
<1> DEFINE at == now + 1
           since == job'.since
<1>0. TypeInv /\ ClockInv /\ StreakInv /\ StampInv /\ HeardInv /\ HeldIsNews /\ Announced
  BY DEF Inv
<1>1. at \in Nat /\ now \in Nat /\ now' = at
  BY <1>0 DEF TypeInv
<1>2. /\ job' = StreakOf(at)
      /\ alert' \in [Channels -> AlertRow \cup {None}]
      /\ sent' \in [Channels -> Nat \cup {None}]
      /\ inStreak' \subseteq Channels
      /\ inStreak \subseteq inStreak' \/ AfterSuccess
      /\ heard' \subseteq Channels
      /\ \A c \in heard' : c \in heard \/ Routed(c)
      /\ \A c \in Channels : SentAt(c, at) \/ PassedOver(c, since) \/ HeldAt(c, at, since) \/ NotRouted(c)
      /\ \A c \in Channels : c \in inStreak' /\ ~SentAt(c, at) => c \in inStreak /\ ~AfterSuccess
  BY <1>0, <1>1, RecordFailedStep
<1>3. UNCHANGED <<kind, failed, recovered, poll, cands>>
  BY DEF config, worker
<1>4. /\ job \in JobRow
      /\ job.since \in Nat \cup {None}
      /\ job.since # None => job.since <= now
  BY <1>0 DEF TypeInv, ClockInv, JobRow
<1>5. /\ job' \in JobRow /\ job' # None /\ job'.failing = TRUE /\ since \in Nat /\ since <= at
      /\ (AfterSuccess \/ job.since = None) => since = at
      /\ ~AfterSuccess /\ job.since # None => since = job.since /\ job.failing
  <2>1. job' = [failing |-> TRUE, since |-> IF AfterSuccess \/ job.since = None THEN at ELSE job.since]
    BY <1>2 DEF StreakOf
  <2>2. job' \in JobRow
    BY <1>1, <1>4, <2>1 DEF JobRow
  <2>3. job' # None
    BY <2>2
  <2>4. ~AfterSuccess /\ job.since # None => job.failing
    BY <1>0 DEF StreakInv
  <2>5. /\ job'.failing = TRUE
        /\ since = IF AfterSuccess \/ job.since = None THEN at ELSE job.since
    BY <2>1
  <2> HIDE DEF at, since
  <2>6. since \in Nat /\ since <= at
    <3>1. CASE AfterSuccess \/ job.since = None
      BY <1>1, <2>5, <3>1
    <3>2. CASE ~AfterSuccess /\ job.since # None
      BY <1>1, <1>4, <2>5, <3>2 DEF at
    <3> QED BY <3>1, <3>2
  <2> QED BY <2>2, <2>3, <2>4, <2>5, <2>6
<1>6. last' \in RunRow /\ last' # None /\ ~AfterSuccess'
  <2>1. last' \in RunRow
    BY <1>1 DEF RunRow
  <2> QED BY <2>1 DEF AfterSuccess
<1>7. \A c \in Channels : alert[c] # None =>
        /\ alert[c] \in AlertRow /\ alert[c].last \in Nat /\ alert[c].held \in Nat \cup {None}
        /\ alert[c].last <= now /\ sent[c] = alert[c].last
        /\ alert[c].held # None => alert[c].held <= now
  BY <1>0 DEF TypeInv, ClockInv, StampInv, AlertRow
<1> HIDE DEF at, since
<1>8. TypeInv'
  BY <1>0, <1>1, <1>2, <1>3, <1>5, <1>6 DEF TypeInv
<1>9. ClockInv'
  <2>1. poll' # None => poll' <= now'
    BY <1>0, <1>1, <1>3 DEF ClockInv, TypeInv
  <2>2. poll' = None => cands' = {}
    BY <1>0, <1>3 DEF ClockInv
  <2>3. job'.since <= now'
    BY <1>1, <1>5 DEF since
  <2>4. ASSUME NEW c \in Channels, alert'[c] # None
        PROVE  alert'[c].last <= now' /\ (alert'[c].held # None => alert'[c].held <= now')
    <3>1. CASE SentAt(c, at)
      BY <1>1, <3>1 DEF SentAt
    <3>2. CASE PassedOver(c, since)
      BY <1>1, <1>7, <3>2 DEF PassedOver, at
    <3>3. CASE HeldAt(c, at, since)
      BY <1>1, <1>7, <3>3 DEF HeldAt, at
    <3>4. CASE NotRouted(c)
      BY <1>1, <1>7, <2>4, <3>4 DEF NotRouted, at
    <3> QED BY <1>2, <3>1, <3>2, <3>3, <3>4
  <2> QED BY <2>1, <2>2, <2>3, <2>4 DEF ClockInv
<1>10. StreakInv'
  BY <1>5, <1>6 DEF StreakInv, since
<1>11. StampInv'
  <2>1. ASSUME NEW c \in Channels
        PROVE  /\ alert'[c] # None => sent'[c] = alert'[c].last
               /\ alert'[c] = None /\ kind'[c] # None => sent'[c] = None
               /\ alert'[c] # None /\ alert'[c].last >= since => c \in inStreak'
    <3>1. CASE SentAt(c, at)
      BY <3>1 DEF SentAt
    <3>2. ASSUME alert[c] # None, alert'[c] # None, alert'[c].last = alert[c].last, sent'[c] = sent[c]
          PROVE  sent'[c] = alert'[c].last /\ (alert'[c].last >= since => c \in inStreak')
      <4>1. sent'[c] = alert'[c].last
        BY <1>7, <3>2
      <4>2. CASE alert[c].last >= since
        <5>1. since # at
          BY <1>1, <1>7, <3>2, <4>2 DEF at
        <5>2. ~AfterSuccess /\ job.since # None /\ since = job.since /\ job.failing
          BY <1>5, <5>1
        <5>3. c \in inStreak
          BY <1>0, <3>2, <4>2, <5>2 DEF StampInv
        <5> QED BY <1>2, <3>2, <4>1, <5>2, <5>3
      <4> QED BY <3>2, <4>1, <4>2
    <3>3. CASE PassedOver(c, since) \/ HeldAt(c, at, since)
      BY <3>2, <3>3 DEF PassedOver, HeldAt
    <3>4. CASE NotRouted(c)
      BY <1>0, <1>3, <3>2, <3>4 DEF NotRouted, StampInv
    <3> QED BY <1>2, <3>1, <3>3, <3>4
  <2> QED BY <1>5, <2>1 DEF StampInv, since
<1>12. HeardInv'
  BY <1>0, <1>2, <1>3 DEF HeardInv, Routed, Rules
<1>13. HeldIsNews'
  <2>1. ASSUME NEW c \in Channels, alert'[c] # None, alert'[c].held # None
        PROVE  /\ c \in inStreak' => sent'[c] < since
               /\ alert'[c].held >= since /\ alert'[c].last < since
    <3>1. CASE HeldAt(c, at, since)
      <4>1. alert[c].last < since /\ sent'[c] = alert[c].last
        BY <1>5, <1>7, <3>1 DEF HeldAt
      <4> QED BY <1>1, <1>5, <3>1, <4>1 DEF HeldAt
    <3>2. CASE NotRouted(c)
      <4>1. /\ alert'[c] = alert[c] /\ sent'[c] = sent[c]
            /\ job.failing /\ ~AfterSuccess
            /\ alert[c].held >= job.since /\ alert[c].last < job.since
        BY <1>0, <2>1, <3>2 DEF NotRouted, HeldIsNews
      <4>2. since = job.since
        BY <1>0, <1>5, <4>1 DEF StreakInv
      <4> QED BY <1>7, <2>1, <4>1, <4>2
    <3>3. ~SentAt(c, at) /\ ~PassedOver(c, since)
      BY <2>1 DEF SentAt, PassedOver
    <3> QED BY <1>2, <3>1, <3>2, <3>3
  <2> QED BY <1>5, <1>6, <2>1 DEF HeldIsNews, since
<1>14. Announced'
  <2>1. ASSUME NEW c \in heard' PROVE c \in inStreak' \/ (alert'[c] # None /\ alert'[c].held # None)
    <3>0. c \in Channels
      BY <1>2
    <3>1. CASE SentAt(c, at)
      BY <3>1 DEF SentAt
    <3>2. CASE PassedOver(c, since)
      BY <1>5, <1>7, <1>11, <3>0, <3>2 DEF PassedOver, StampInv, since
    <3>3. CASE HeldAt(c, at, since)
      BY <1>1, <3>3 DEF HeldAt
    <3>4. CASE NotRouted(c)
      BY <1>0, <1>2, <2>1, <3>4 DEF NotRouted, Announced
    <3> QED BY <1>2, <3>0, <3>1, <3>2, <3>3, <3>4
  <2> QED BY <2>1 DEF Announced
<1> QED BY <1>8, <1>9, <1>10, <1>11, <1>12, <1>13, <1>14 DEF Inv

\* A step that leaves the streak, the alert states and what was sent alone
\* keeps the invariant, whatever happens to rules, kinds and the worker.
LEMMA QuietInv ==
    ASSUME Inv, TypeInv', HeardInv', UNCHANGED <<job, alert, inStreak, sent>>,
           last' = last \/ ~AfterSuccess', now' >= now,
           poll' # None => poll' <= now', poll' = None => cands' = {},
           heard' \subseteq heard, \A c \in Channels : kind[c] = None => kind'[c] = None
    PROVE  Inv'
<1>0. TypeInv /\ ClockInv /\ StreakInv /\ StampInv /\ HeardInv /\ HeldIsNews /\ Announced
  BY DEF Inv
<1>1. now \in Nat /\ now' \in Nat /\ (job # None /\ job.since # None => job.since \in Nat)
  BY <1>0 DEF TypeInv, JobRow
<1>2. \A c \in Channels : alert[c] # None =>
        alert[c].last \in Nat /\ (alert[c].held # None => alert[c].held \in Nat)
  BY <1>0 DEF TypeInv, AlertRow
<1>3. ClockInv'
  BY <1>0, <1>1, <1>2 DEF ClockInv
<1>4. AfterSuccess' => AfterSuccess
  BY DEF AfterSuccess
<1>5. StreakInv'
  BY <1>0, <1>4 DEF StreakInv
<1>6. StampInv'
  BY <1>0 DEF StampInv
<1>7. HeldIsNews'
  BY <1>0, <1>4 DEF HeldIsNews
<1>8. Announced'
  BY <1>0 DEF Announced
<1> QED BY <1>3, <1>5, <1>6, <1>7, <1>8 DEF Inv

\* A failure that ends a run, or that an unreadable job is given.
LEMMA FailedInv ==
    ASSUME Inv, FinishFailed \/ FailUnreadableJob
    PROVE  Inv'
<1>0. TypeInv /\ ClockInv /\ HeardInv
  BY DEF Inv
<1>1. /\ now' = now + 1 /\ last' = [status |-> "failed", at |-> now + 1]
      /\ UNCHANGED <<config, worker>>
  BY DEF FinishFailed, FailUnreadableJob
<1>2. CASE job # None
  <2>1. RecordFailed(now + 1)
    BY <1>2 DEF FinishFailed, FailUnreadableJob
  <2> QED BY <1>1, <1>2, <2>1, FailureInv
<1>3. CASE job = None
  <2>1. UNCHANGED <<job, alert, inStreak, sent, heard, kind, failed, recovered, poll, cands>>
    BY <1>1, <1>3 DEF FinishFailed, FailUnreadableJob, RecordFailedOfNoJob, history, config, worker
  <2>2. now \in Nat /\ now' \in Nat /\ now' >= now
    BY <1>0, <1>1 DEF TypeInv
  <2>3. last' \in RunRow
    BY <1>1, <2>2 DEF RunRow
  <2>4. ~AfterSuccess'
    BY <1>1 DEF AfterSuccess
  <2>5. TypeInv'
    BY <1>0, <2>1, <2>2, <2>3 DEF TypeInv
  <2>6. HeardInv'
    BY <1>0, <2>1 DEF HeardInv, Rules
  <2>7. (poll' # None => poll' <= now') /\ (poll' = None => cands' = {})
    BY <1>0, <1>1, <2>1, <2>2 DEF ClockInv, TypeInv
  <2> QED BY <2>1, <2>2, <2>4, <2>5, <2>6, <2>7, QuietInv
<1> QED BY <1>2, <1>3

\* A success ends the streak: nothing is held any more.
LEMMA SucceededInv ==
    ASSUME Inv, FinishSucceeded
    PROVE  Inv'
<1>0. TypeInv /\ ClockInv /\ StampInv
  BY DEF Inv
<1>1. /\ now' = now + 1 /\ job # None
      /\ last' = [status |-> "succeeded", at |-> now + 1]
      /\ job' = [failing |-> FALSE, since |-> None]
      /\ alert' = [c \in Channels |-> IF alert[c] = None THEN None ELSE [alert[c] EXCEPT !.held = None]]
      /\ inStreak' = {} /\ heard' = {}
      /\ UNCHANGED <<sent, kind, failed, recovered, poll, cands>>
  BY DEF FinishSucceeded, EndStreak, DropHeld, config, worker
<1>2. now \in Nat /\ now' \in Nat
  BY <1>0, <1>1 DEF TypeInv
<1>3. last' \in RunRow
  BY <1>1, <1>2 DEF RunRow
<1>4. job' \in JobRow /\ job'.failing = FALSE /\ job'.since = None
  BY <1>1 DEF JobRow
<1>5. ASSUME NEW c \in Channels
      PROVE  /\ alert'[c] \in AlertRow \cup {None}
             /\ alert'[c] = None <=> alert[c] = None
             /\ alert[c] # None => alert'[c].last = alert[c].last /\ alert'[c].held = None
  <2>1. CASE alert[c] = None
    BY <1>1, <2>1
  <2>2. CASE alert[c] # None
    <3>1. alert[c] \in AlertRow /\ alert'[c] = [alert[c] EXCEPT !.held = None]
      BY <1>0, <1>1, <2>2 DEF TypeInv
    <3>2. alert'[c] \in AlertRow /\ alert'[c].last = alert[c].last /\ alert'[c].held = None
      BY <3>1 DEF AlertRow
    <3> QED BY <2>2, <3>2
  <2> QED BY <2>1, <2>2
<1>6. alert' \in [Channels -> AlertRow \cup {None}]
  <2>1. alert' = [c \in Channels |-> alert'[c]]
    BY <1>1
  <2> QED BY <1>5, <2>1
<1>7. TypeInv'
  BY <1>0, <1>1, <1>2, <1>3, <1>4, <1>6 DEF TypeInv
<1>8. ClockInv'
  <2>1. (poll' # None => poll' <= now') /\ (poll' = None => cands' = {})
    BY <1>0, <1>1, <1>2 DEF ClockInv, TypeInv
  <2>2. \A c \in Channels : alert[c] # None => alert[c].last \in Nat /\ alert[c].last <= now
    BY <1>0 DEF TypeInv, ClockInv, AlertRow
  <2>3. \A c \in Channels : alert'[c] # None => alert'[c].last <= now' /\ alert'[c].held = None
    BY <1>1, <1>2, <1>5, <2>2
  <2> QED BY <1>4, <2>1, <2>3 DEF ClockInv
<1>9. StreakInv' /\ HeardInv' /\ Announced'
  <2>1. job' # None
    BY <1>4
  <2> QED BY <1>1, <1>4, <2>1 DEF StreakInv, HeardInv, Announced
<1>10. StampInv'
  BY <1>0, <1>1, <1>4, <1>5 DEF StampInv
<1>11. HeldIsNews'
  BY <1>5 DEF HeldIsNews
<1> QED BY <1>7, <1>8, <1>9, <1>10, <1>11 DEF Inv

\* The worker's steps that send nothing: it reads its clock, lists what is
\* held, or fails to release.
LEMMA WorkerInv ==
    ASSUME Inv, Poll \/ ListHeld \/ \E h \in cands : ReleaseFails(h)
    PROVE  Inv'
<1>0. TypeInv /\ ClockInv /\ HeardInv
  BY DEF Inv
<1>1. UNCHANGED <<now, job, last, alert, inStreak, sent, heard, kind, failed, recovered>>
  BY DEF Poll, ListHeld, ReleaseFails, history, config
<1>2. HeardInv'
  BY <1>0, <1>1 DEF HeardInv, Rules
<1>3. now \in Nat /\ now' \in Nat /\ now' >= now
  BY <1>0, <1>1 DEF TypeInv
<1>4. cands' \subseteq [c : Channels, held : Nat, kind : Kinds]
  <2>1. CASE Poll
    BY <1>0, <2>1 DEF Poll, TypeInv
  <2>2. CASE ListHeld
    <3>1. cands' = {[c |-> c, held |-> alert[c].held, kind |-> kind[c]] : c \in {d \in Channels : Held(d)}}
      BY <2>2 DEF ListHeld
    <3>2. \A c \in {d \in Channels : Held(d)} : alert[c].held \in Nat /\ kind[c] \in Kinds
      BY <1>0 DEF Held, TypeInv, AlertRow
    <3> QED BY <3>1, <3>2
  <2>3. CASE \E h \in cands : ReleaseFails(h)
    BY <1>0, <2>3 DEF ReleaseFails, Looked, TypeInv
  <2> QED BY <2>1, <2>2, <2>3
<1>5. poll' \in Nat \cup {None} /\ (poll' # None => poll' <= now') /\ (poll' = None => cands' = {})
  <2>1. CASE Poll
    BY <1>0, <1>1, <1>3, <2>1 DEF Poll, ClockInv
  <2>2. CASE ListHeld
    BY <1>0, <1>1, <1>3, <2>2 DEF ListHeld, TypeInv, ClockInv
  <2>3. CASE \E h \in cands : ReleaseFails(h)
    BY <1>0, <1>1, <1>3, <2>3 DEF ReleaseFails, Looked, TypeInv, ClockInv
  <2> QED BY <2>1, <2>2, <2>3
<1>6. TypeInv'
  BY <1>0, <1>1, <1>3, <1>4, <1>5 DEF TypeInv
<1> QED BY <1>1, <1>2, <1>3, <1>5, <1>6, QuietInv

\* releaseOne sends only what is news, stamped with the worker's clock, and
\* drops only what is not news or not routed any more.
LEMMA ReleaseInv ==
    ASSUME Inv, NEW h \in cands, ReleaseOne(h)
    PROVE  Inv'
<1> DEFINE ch == h.c
<1>0. TypeInv /\ ClockInv /\ StreakInv /\ StampInv /\ HeardInv /\ HeldIsNews /\ Announced
  BY DEF Inv
<1>1. /\ UNCHANGED <<now, job, last, heard, kind, failed, recovered>>
      /\ cands' = cands \ {h} /\ poll' = IF cands' = {} THEN None ELSE poll
  BY DEF ReleaseOne, Looked, config
<1>2. ch \in Channels /\ h.held \in Nat /\ poll \in Nat /\ poll <= now /\ now \in Nat
  BY <1>0 DEF TypeInv, ClockInv
<1>3. TypeInv' <=> /\ alert' \in [Channels -> AlertRow \cup {None}]
                   /\ sent' \in [Channels -> Nat \cup {None}]
                   /\ inStreak' \subseteq Channels
  BY <1>0, <1>1, <1>2 DEF TypeInv
<1>4. HeardInv' /\ (AfterSuccess' <=> AfterSuccess)
  BY <1>0, <1>1 DEF HeardInv, Rules, AfterSuccess
<1>5. (poll' # None => poll' <= now') /\ (poll' = None => cands' = {})
  BY <1>1, <1>2
<1>6. CASE StillHeld(h) /\ ReleaseSends(h)
  <2> DEFINE row == [last |-> poll, held |-> None]
  <2>1. /\ alert' = [alert EXCEPT ![ch] = row]
        /\ inStreak' = inStreak \cup {ch} /\ sent' = [sent EXCEPT ![ch] = poll]
    <3>1. ~ReleaseDrops(h)
      BY <1>6 DEF ReleaseSends, ReleaseDrops
    <3> QED BY <1>6, <3>1 DEF ReleaseOne
  <2>2. row \in AlertRow /\ row.last = poll /\ row.held = None
    BY <1>2 DEF AlertRow
  <2>3. row # None
    BY <2>2
  <2> HIDE DEF row, ch
  <2>4. TypeInv'
    BY <1>0, <1>2, <1>3, <2>1, <2>2 DEF TypeInv
  <2>5. \A c \in Channels : alert'[c] = IF c = ch THEN row ELSE alert[c]
    BY <1>0, <2>1 DEF TypeInv
  <2>6. \A c \in Channels : sent'[c] = IF c = ch THEN poll ELSE sent[c]
    BY <1>0, <2>1 DEF TypeInv
  <2>7. job # None /\ job.failing
    BY <1>6 DEF ReleaseSends
  <2>8. ClockInv'
    BY <1>0, <1>1, <1>2, <1>5, <2>2, <2>5 DEF ClockInv
  <2>9. StreakInv'
    BY <1>0, <1>1, <1>4, <2>7 DEF StreakInv
  <2>10. StampInv'
    BY <1>0, <1>1, <2>1, <2>2, <2>3, <2>5, <2>6 DEF StampInv
  <2>11. HeldIsNews'
    BY <1>0, <1>1, <1>4, <2>1, <2>2, <2>5, <2>6 DEF HeldIsNews
  <2>12. Announced'
    BY <1>0, <1>1, <2>1, <2>5 DEF Announced, TypeInv
  <2> QED BY <1>4, <2>4, <2>8, <2>9, <2>10, <2>11, <2>12 DEF Inv
<1>7. CASE StillHeld(h) /\ ~ReleaseSends(h) /\ ReleaseDrops(h)
  <2> DEFINE row == [alert[ch] EXCEPT !.held = None]
  <2>1. /\ alert' = [alert EXCEPT ![ch].held = None]
        /\ inStreak' = inStreak /\ sent' = sent
    BY <1>7 DEF ReleaseOne
  <2>2. alert[ch] \in AlertRow /\ alert[ch] # None /\ alert[ch].held # None
    BY <1>0, <1>2, <1>7 DEF StillHeld, TypeInv
  <2>3. row \in AlertRow /\ row.last = alert[ch].last /\ row.held = None
    BY <2>2 DEF AlertRow
  <2>4. row # None
    BY <2>3
  <2>5. alert' = [alert EXCEPT ![ch] = row]
    BY <2>1
  <2>6. ch \notin heard
    <3>1. Rules(ch) = {} \/ job = None \/ ~job.failing \/ AfterSuccess
      BY <1>7 DEF ReleaseDrops
    <3> QED BY <1>0, <1>2, <2>2, <3>1 DEF HeardInv, HeldIsNews
  <2> HIDE DEF row, ch
  <2>7. TypeInv'
    <3>1. alert' \in [Channels -> AlertRow \cup {None}]
      BY <1>0, <2>3, <2>5 DEF TypeInv
    <3>2. sent' \in [Channels -> Nat \cup {None}] /\ inStreak' \subseteq Channels
      BY <1>0, <2>1 DEF TypeInv
    <3> QED BY <1>3, <3>1, <3>2
  <2>8. \A c \in Channels : alert'[c] = IF c = ch THEN row ELSE alert[c]
    BY <1>0, <2>5 DEF TypeInv
  <2>9. ClockInv'
    BY <1>0, <1>1, <1>2, <1>5, <2>2, <2>3, <2>8 DEF ClockInv
  <2>10. StreakInv'
    BY <1>0, <1>1, <1>4, <2>1 DEF StreakInv
  <2>11. StampInv'
    BY <1>0, <1>1, <2>1, <2>2, <2>3, <2>4, <2>8 DEF StampInv
  <2>12. HeldIsNews'
    BY <1>0, <1>1, <1>4, <2>1, <2>3, <2>8 DEF HeldIsNews
  <2>13. Announced'
    BY <1>0, <1>1, <2>1, <2>6, <2>8 DEF Announced, TypeInv
  <2> QED BY <1>4, <2>7, <2>9, <2>10, <2>11, <2>12, <2>13 DEF Inv
<1>8. CASE ~(StillHeld(h) /\ ReleaseSends(h)) /\ ~(StillHeld(h) /\ ReleaseDrops(h))
  <2>1. UNCHANGED <<alert, inStreak, sent>>
    BY <1>8 DEF ReleaseOne
  <2>2. TypeInv'
    BY <1>0, <1>3, <2>1 DEF TypeInv
  <2> QED BY <1>1, <1>2, <1>4, <1>5, <2>1, <2>2, QuietInv
<1> QED BY <1>6, <1>7, <1>8

\* The rules of a channel are its own.
LEMMA RulesKept ==
    ASSUME NEW d, failed'[d] = failed[d]
    PROVE  Rules(d)' = Rules(d)
BY DEF Rules

\* Rules and channels may change at any moment.
LEMMA ConfigureInv ==
    ASSUME Inv, Configure
    PROVE  Inv'
<1>0. TypeInv /\ ClockInv /\ StreakInv /\ StampInv /\ HeardInv /\ HeldIsNews /\ Announced
  BY DEF Inv
<1>1. PICK c \in Channels : \/ \E s \in Scopes, r \in Repeats \cup {Off, Unset} : SetFailedRule(c, s, r)
                            \/ SetRecoveredRule(c)
                            \/ \E k \in Kinds : CreateChannel(c, k)
                            \/ DeleteChannel(c)
  BY DEF Configure
<1>2. UNCHANGED <<now, job, last, poll, cands, inStreak, sent>>
  BY <1>1 DEF SetFailedRule, SetRecoveredRule, CreateChannel, DeleteChannel, worker, history
<1>3. now \in Nat /\ now' >= now /\ (poll' # None => poll' <= now') /\ (poll' = None => cands' = {})
  BY <1>0, <1>2 DEF TypeInv, ClockInv
<1>4. ASSUME NEW s \in Scopes, NEW r \in Repeats \cup {Off, Unset}, SetFailedRule(c, s, r)
      PROVE  Inv'
  <2>1. /\ failed' = [failed EXCEPT ![c][s] = r]
        /\ heard' = IF {failed'[c][t] : t \in Scopes} \subseteq {Off} THEN heard \ {c} ELSE heard
        /\ UNCHANGED <<kind, recovered, alert>>
    BY <1>4 DEF SetFailedRule
  <2>2. failed' \in [Channels -> [Scopes -> Repeats \cup {Off, Unset}]]
    BY <1>0, <2>1 DEF TypeInv
  <2>3. \A d \in Channels \ {c} : failed'[d] = failed[d]
    BY <1>0, <2>1 DEF TypeInv
  <2>4. heard' \subseteq heard
    BY <2>1
  <2>5. TypeInv'
    BY <1>0, <1>2, <2>1, <2>2, <2>4 DEF TypeInv
  <2>6. HeardInv'
    <3>1. ASSUME NEW d \in heard', d # c PROVE Rules(d)' # {}
      <4>1. d \in heard /\ failed'[d] = failed[d]
        BY <1>0, <2>3, <2>4, <3>1 DEF TypeInv
      <4> QED BY <1>0, <4>1, RulesKept DEF HeardInv
    <3>2. c \in heard' => Rules(c)' # {}
      <4>1. c \in heard' => ~({failed'[c][t] : t \in Scopes} \subseteq {Off})
        BY <2>1
      <4> QED BY <4>1 DEF Rules
    <3> QED BY <3>1, <3>2 DEF HeardInv
  <2> QED BY <1>2, <1>3, <2>1, <2>4, <2>5, <2>6, QuietInv
<1>5. CASE SetRecoveredRule(c)
  <2>1. /\ recovered' = IF c \in recovered THEN recovered \ {c} ELSE recovered \cup {c}
        /\ UNCHANGED <<kind, failed, alert, heard>>
    BY <1>5 DEF SetRecoveredRule, history
  <2>2. TypeInv'
    BY <1>0, <1>2, <2>1 DEF TypeInv
  <2>3. HeardInv'
    BY <1>0, <2>1 DEF HeardInv, Rules
  <2> QED BY <1>2, <1>3, <2>1, <2>2, <2>3, QuietInv
<1>6. ASSUME NEW k \in Kinds, CreateChannel(c, k)
      PROVE  Inv'
  <2>1. /\ kind[c] # None /\ kind' = [kind EXCEPT ![c] = k]
        /\ UNCHANGED <<recovered, failed, alert, heard>>
    BY <1>6 DEF CreateChannel, history
  <2>2. TypeInv'
    BY <1>0, <1>2, <2>1 DEF TypeInv
  <2>3. HeardInv'
    BY <1>0, <2>1 DEF HeardInv, Rules
  <2>4. \A d \in Channels : kind[d] = None => kind'[d] = None
    BY <1>0, <2>1 DEF TypeInv
  <2> QED BY <1>2, <1>3, <2>1, <2>2, <2>3, <2>4, QuietInv
<1>7. CASE DeleteChannel(c)
  <2>1. /\ kind' = [kind EXCEPT ![c] = None]
        /\ failed' = [failed EXCEPT ![c] = [s \in Scopes |-> Off]]
        /\ recovered' = recovered \ {c}
        /\ alert' = [alert EXCEPT ![c] = None]
        /\ heard' = heard \ {c}
    BY <1>7 DEF DeleteChannel
  <2>2. TypeInv'
    BY <1>0, <1>2, <2>1 DEF TypeInv
  <2>3. \A d \in Channels : /\ kind'[d] = IF d = c THEN None ELSE kind[d]
                            /\ alert'[d] = IF d = c THEN None ELSE alert[d]
                            /\ d # c => failed'[d] = failed[d]
    BY <1>0, <2>1 DEF TypeInv
  <2>4. AfterSuccess' <=> AfterSuccess
    BY <1>2 DEF AfterSuccess
  <2>5. ClockInv'
    BY <1>0, <1>2, <2>3 DEF ClockInv
  <2>6. StreakInv'
    BY <1>0, <1>2, <2>4 DEF StreakInv
  <2>7. StampInv'
    BY <1>0, <1>2, <2>3 DEF StampInv
  <2>8. HeardInv'
    <3>1. ASSUME NEW d \in heard' PROVE Rules(d)' # {}
      <4>1. d \in heard /\ failed'[d] = failed[d]
        BY <1>0, <2>1, <2>3, <3>1 DEF TypeInv
      <4> QED BY <1>0, <4>1, RulesKept DEF HeardInv
    <3> QED BY <3>1 DEF HeardInv
  <2>9. HeldIsNews'
    BY <1>0, <1>2, <2>3, <2>4 DEF HeldIsNews
  <2>10. Announced'
    BY <1>0, <1>2, <2>1, <2>3 DEF Announced, TypeInv
  <2> QED BY <2>2, <2>5, <2>6, <2>7, <2>8, <2>9, <2>10 DEF Inv
<1> QED BY <1>1, <1>4, <1>5, <1>6, <1>7

\* The job's removal takes its alert states with it; retention and the clock
\* leave them alone.
LEMMA OutsideInv ==
    ASSUME Inv, DeleteJob \/ PruneJobRuns \/ Tick
    PROVE  Inv'
<1>0. TypeInv /\ ClockInv /\ StampInv /\ HeardInv
  BY DEF Inv
<1>1. CASE DeleteJob
  <2>1. /\ job' = None /\ last' = None
        /\ failed' = [c \in Channels |-> [s \in Scopes |-> IF s = "job" THEN Off ELSE failed[c][s]]]
        /\ alert' = [c \in Channels |-> None]
        /\ inStreak' = {} /\ heard' = {}
        /\ UNCHANGED <<now, kind, recovered, poll, cands, sent>>
    BY <1>1 DEF DeleteJob, worker
  <2>2. TypeInv'
    <3>1. failed' \in [Channels -> [Scopes -> Repeats \cup {Off, Unset}]]
      BY <1>0, <2>1 DEF TypeInv
    <3>2. alert' \in [Channels -> AlertRow \cup {None}]
      BY <2>1
    <3> QED BY <1>0, <2>1, <3>1, <3>2 DEF TypeInv
  <2>3. ClockInv'
    BY <1>0, <2>1 DEF ClockInv
  <2>4. StreakInv' /\ StampInv' /\ HeardInv' /\ HeldIsNews' /\ Announced'
    BY <2>1 DEF StreakInv, StampInv, HeardInv, HeldIsNews, Announced, AfterSuccess
  <2> QED BY <2>2, <2>3, <2>4 DEF Inv
<1>2. CASE PruneJobRuns \/ Tick
  <2>1. /\ UNCHANGED <<job, kind, failed, recovered, alert, poll, cands, inStreak, sent, heard>>
        /\ last' = last \/ last' = None
        /\ now' = now \/ now' = now + 1
    BY <1>2 DEF PruneJobRuns, Tick, config, worker, history
  <2>2. now \in Nat /\ now' \in Nat /\ now' >= now
    BY <1>0, <2>1 DEF TypeInv
  <2>3. TypeInv'
    BY <1>0, <2>1, <2>2 DEF TypeInv
  <2>4. HeardInv'
    BY <1>0, <2>1 DEF HeardInv, Rules
  <2>5. last' = last \/ ~AfterSuccess'
    BY <2>1 DEF AfterSuccess
  <2>6. (poll' # None => poll' <= now') /\ (poll' = None => cands' = {})
    BY <1>0, <2>1, <2>2 DEF ClockInv, TypeInv
  <2> QED BY <2>1, <2>2, <2>3, <2>4, <2>5, <2>6, QuietInv
<1> QED BY <1>1, <1>2

\* The invariant holds of a job that has not run, whatever the rules.
LEMMA InvInit == Init => Inv
<1> SUFFICES ASSUME Init PROVE Inv
  OBVIOUS
<1>1. job \in JobRow /\ job.failing = FALSE /\ job.since = None
  BY DEF Init, JobRow
<1>2. TypeInv
  BY <1>1 DEF Init, TypeInv
<1>3. ClockInv
  BY <1>1 DEF Init, ClockInv
<1>4. StreakInv /\ HeardInv /\ Announced
  BY <1>1 DEF Init, StreakInv, HeardInv, Announced, AfterSuccess
<1>5. StampInv /\ HeldIsNews
  BY DEF Init, StampInv, HeldIsNews
<1> QED BY <1>2, <1>3, <1>4, <1>5 DEF Inv

\* Every step keeps the inductive invariant.
LEMMA InvStep == Inv /\ [Next]_vars => Inv'
<1> SUFFICES ASSUME Inv, [Next]_vars PROVE Inv'
  OBVIOUS
<1>1. CASE UNCHANGED vars
  <2>0. TypeInv /\ ClockInv /\ HeardInv
    BY DEF Inv
  <2>1. UNCHANGED <<now, job, last, kind, failed, recovered, alert, poll, cands, inStreak, sent, heard>>
    BY <1>1 DEF vars
  <2>2. TypeInv' /\ now' >= now
    BY <2>0, <2>1 DEF TypeInv
  <2>3. HeardInv'
    BY <2>0, <2>1 DEF HeardInv, Rules
  <2>4. (poll' # None => poll' <= now') /\ (poll' = None => cands' = {})
    BY <2>0, <2>1 DEF ClockInv
  <2> QED BY <2>1, <2>2, <2>3, <2>4, QuietInv
<1>2. CASE Next
  BY <1>2, FailedInv, SucceededInv, WorkerInv, ReleaseInv, ConfigureInv, OutsideInv DEF Next, Release
<1> QED BY <1>1, <1>2

\* The inductive invariant holds in every reachable state.
THEOREM AlertsInvariance == Spec => []Inv
BY InvInit, InvStep, PTL DEF Spec

\* A failure is held only while it is news, whatever runs end, rules change
\* and jobs, runs or channels go between the worker's read and its release.
THEOREM OnlyNewsIsHeld == Spec => []HeldIsNews
<1>1. Inv => HeldIsNews
  BY DEF Inv
<1> QED BY <1>1, AlertsInvariance, PTL

\* A channel that routes the job's failures hears of every streak: it was sent
\* one of its failures, or one is held for it.
THEOREM OutageAnnounced == Spec => []Announced
<1>1. Inv => Announced
  BY DEF Inv
<1> QED BY <1>1, AlertsInvariance, PTL

-----------------------------------------------------------------------------
(* What a success sends.                                                   *)

\* Only a success ends a streak without its job.
LEMMA StreakEndsWithSuccess ==
    ASSUME TypeInv, [Next]_vars, job # None, job' # None, job.failing, ~job'.failing
    PROVE  FinishSucceeded
<1>1. ASSUME NEW at, RecordFailed(at) PROVE FALSE
  <2>1. job' = [failing |-> TRUE, since |-> IF AfterSuccess \/ job.since = None THEN at ELSE job.since]
    BY <1>1 DEF RecordFailed, StreakOf
  <2>2. job'.failing = TRUE
    BY <2>1
  <2> QED BY <2>2
<1>2. job' # job
  OBVIOUS
<1>3. Next
  BY <1>2 DEF vars
<1>4. CASE Release \/ (\E h \in cands : ReleaseFails(h)) \/ Configure \/ DeleteJob \/ PruneJobRuns \/ Tick
  BY <1>2, <1>4 DEF Release, Poll, ListHeld, ReleaseOne, ReleaseFails, Configure, SetFailedRule,
       SetRecoveredRule, CreateChannel, DeleteChannel, DeleteJob, PruneJobRuns, Tick
<1>5. CASE FinishFailed \/ FailUnreadableJob
  BY <1>1, <1>5 DEF FinishFailed, FailUnreadableJob
<1> QED BY <1>3, <1>4, <1>5 DEF Next

\* When a success follows a failed run, a channel that routes both kinds of
\* event and keeps a state for the job is sent the recovery exactly when it
\* was sent a failure stamped in the streak.
THEOREM RecoveryGoesWhereFailureWent == Spec => RecoveryFollows
<1> DEFINE Follows ==
      (job # None /\ job' # None /\ job.failing /\ ~job'.failing /\ last # None) =>
          \A c \in recovered : kind[c] # None =>
              (<<c, "run.recovered">> \in queued'
                  <=> (Rules(c) = {} \/ alert[c] = None \/ (c \in inStreak /\ sent[c] >= job.since)))
<1>1. Inv /\ [Next]_vars => Follows
  <2> SUFFICES ASSUME Inv, [Next]_vars, job # None, job' # None, job.failing, ~job'.failing, last # None,
                      NEW c \in recovered, kind[c] # None
               PROVE  <<c, "run.recovered">> \in queued'
                        <=> (Rules(c) = {} \/ alert[c] = None \/ (c \in inStreak /\ sent[c] >= job.since))
    OBVIOUS
  <2>0. TypeInv /\ StreakInv /\ StampInv
    BY DEF Inv
  <2>1. FinishSucceeded
    BY <2>0, StreakEndsWithSuccess
  <2>2. last.status # "succeeded" /\ c \in Channels
    BY <2>0 DEF StreakInv, AfterSuccess, TypeInv
  <2>3. queued' = {<<d, "run.recovered">> : d \in {e \in Channels : GetsRecovery(e)}}
    BY <2>1, <2>2 DEF FinishSucceeded
  <2>4. <<c, "run.recovered">> \in queued' <=> GetsRecovery(c)
    BY <2>2, <2>3
  <2>5. GetsRecovery(c) <=> Rules(c) = {} \/ alert[c] = None \/ alert[c].last >= job.since
    BY <2>0 DEF GetsRecovery, PaceRecovery, Told, StreakInv
  <2>6. alert[c] # None => (alert[c].last >= job.since <=> c \in inStreak /\ sent[c] >= job.since)
    BY <2>0, <2>2 DEF StampInv
  <2> QED BY <2>4, <2>5, <2>6
<1>2. Inv /\ [Next]_vars => [Follows]_vars
  BY <1>1
<1> QED BY <1>2, AlertsInvariance, PTL DEF Spec, RecoveryFollows

-----------------------------------------------------------------------------
(* The spacing of what a channel is sent.                                  *)

\* What \div gives.
LEMMA DivFacts ==
    ASSUME NEW a \in Nat, NEW d \in Nat \ {0}
    PROVE  a \div d \in Nat /\ d * (a \div d) <= a /\ a < d * (a \div d) + d
OBVIOUS

\* Multiplying by a positive number makes nothing smaller.
LEMMA TimesGrows ==
    ASSUME NEW m \in Nat, NEW d \in Nat \ {0}
    PROVE  d * m >= m
OBVIOUS

\* Multiplication distributes over this difference.
LEMMA TimesDifference ==
    ASSUME NEW m \in Int, NEW n \in Int, NEW d \in Nat \ {0}
    PROVE  d * (m - n - 1) = d * m - d * n - d
OBVIOUS

\* A quotient grows no faster than what is divided.
LEMMA QuotientGap ==
    ASSUME NEW a \in Nat, NEW b \in Nat, NEW d \in Nat \ {0}, a <= b
    PROVE  (b \div d) - (a \div d) <= b - a
<1> DEFINE x == a \div d
           y == b \div d
<1>1. x \in Nat /\ y \in Nat /\ d * y <= b /\ a < d * x + d
  BY DivFacts
<1> HIDE DEF x, y
<1>2. d * (y - x - 1) < b - a
  <2>1. d * (y - x - 1) = d * y - d * x - d
    BY <1>1, TimesDifference
  <2>2. d * y \in Int /\ d * x \in Int
    BY <1>1
  <2> QED BY <1>1, <2>1, <2>2
<1>3. CASE y - x - 1 \in Nat
  <2>1. d * (y - x - 1) >= y - x - 1
    BY <1>3, TimesGrows
  <2>2. d * (y - x - 1) \in Int
    BY <1>1
  <2> QED BY <1>1, <1>2, <2>1, <2>2 DEF x, y
<1>4. CASE y - x - 1 \notin Nat
  BY <1>1, <1>4 DEF x, y
<1> QED BY <1>3, <1>4

\* An interval less its slack is never shorter than the flap hold less its own.
LEMMA SlackGap ==
    ASSUME NEW r \in Nat
    PROVE  /\ FlapHold(r) \in Nat /\ Slack(r) \in Nat /\ Slack(FlapHold(r)) \in Nat
           /\ FlapHold(r) - Slack(FlapHold(r)) <= r - Slack(r)
<1> DEFINE f == FlapHold(r)
           x == f \div SlackDiv
           y == r \div SlackDiv
<1>1. f \in Nat /\ f <= r
  BY DEF FlapHold, Lesser
<1> HIDE DEF f
<1>2. x \in Nat /\ y \in Nat /\ y - x <= r - f
  BY <1>1, DivFacts, QuotientGap
<1>3. Slack(r) = Lesser(y, Minute) /\ Slack(f) = Lesser(x, Minute)
  BY DEF Slack
<1> HIDE DEF x, y
<1>4. Slack(r) \in Nat /\ Slack(f) \in Nat /\ f - Slack(f) <= r - Slack(r)
  BY <1>1, <1>2, <1>3 DEF Lesser
<1> QED BY <1>1, <1>4 DEF f

\* The shortest interval of a channel's rules is an interval.
LEMMA RepeatIsNat ==
    ASSUME TypeInv, NEW c \in Channels, NEW k, Rules(c) # {}
    PROVE  FailedRepeat(c, k) \in Nat
<1> DEFINE S == {EffectiveRepeat(k, r) : r \in Rules(c)}
<1>1. \A r \in Rules(c) : EffectiveRepeat(k, r) \in Nat
  <2>1. \A r \in Rules(c) : r \in Repeats \/ r = Unset
    BY DEF Rules, TypeInv
  <2> QED BY <2>1 DEF EffectiveRepeat
<1>2. S \subseteq Nat /\ S # {}
  BY <1>1
<1>3. \E a, b : S \subseteq {a, b}
  <2>1. Rules(c) \subseteq {failed[c]["all"], failed[c]["job"]}
    BY DEF Rules
  <2> DEFINE a == EffectiveRepeat(k, failed[c]["all"])
             b == EffectiveRepeat(k, failed[c]["job"])
  <2>2. S \subseteq {a, b}
    BY <2>1
  <2> QED BY <2>2
<1> HIDE DEF S
<1>4. \E x \in S : \A y \in S : x =< y
  <2>1. PICK a, b : S \subseteq {a, b}
    BY <1>3
  <2>2. PICK x \in S : TRUE
    BY <1>2
  <2>3. CASE \E y \in S : ~(x =< y)
    <3>1. PICK y \in S : ~(x =< y)
      BY <2>3
    <3>2. x \in Nat /\ y \in Nat /\ y =< x /\ y =< y /\ x # y
      BY <1>2, <3>1
    <3>3. \A z \in S : z = x \/ z = y
      BY <2>1, <3>2
    <3> QED BY <3>2, <3>3
  <2> QED BY <2>2, <2>3
<1>5. Min(S) \in S
  BY <1>4 DEF Min
<1> QED BY <1>2, <1>5 DEF FailedRepeat, S

\* Every failure sent to a channel keeps its distance from the one before, by
\* the stamps: the flap hold between streaks, the reminder interval within one.
THEOREM FailuresAreSpaced == Spec => Spaced
<1> DEFINE Apart(c, k) ==
      LET r == FailedRepeat(c, k)
          gap == sent'[c] - sent[c]
      IN  r > 0 => /\ gap >= FlapHold(r) - Slack(FlapHold(r))
                   /\ c \in inStreak /\ ~AfterSuccess /\ sent[c] >= job.since => gap >= r - Slack(r)
    Gaps == \A c \in Channels :
      <<c, "run.failed">> \in queued' /\ job # None /\ sent[c] # None =>
          \E k \in {kind[c]} \cup {h.kind : h \in {x \in cands : x.c = c}} : Apart(c, k)
<1>1. ASSUME Inv, Next, NEW c \in Channels, <<c, "run.failed">> \in queued', job # None, sent[c] # None
      PROVE  \E k \in {kind[c]} \cup {h.kind : h \in {x \in cands : x.c = c}} : Apart(c, k)
  <2>0. TypeInv /\ ClockInv /\ StreakInv /\ StampInv /\ HeldIsNews
    BY <1>1 DEF Inv
  <2>1. CASE FinishFailed \/ FailUnreadableJob
    <3> DEFINE at == now + 1
               since == StreakOf(at).since
               r == FailedRepeat(c, kind[c])
    <3>1. /\ queued' = {<<d, "run.failed">> : d \in {e \in Channels :
                Routed(e) /\ PaceFailure(alert[e], at, since, FailedRepeat(e, kind[e])) = "send"}}
          /\ sent' = [e \in Channels |-> IF e \in {d \in Channels :
                Routed(d) /\ PaceFailure(alert[d], at, since, FailedRepeat(d, kind[d])) = "send"}
                                         THEN at ELSE sent[e]]
      BY <1>1, <2>1 DEF FinishFailed, FailUnreadableJob, RecordFailed
    <3>2. Routed(c) /\ PaceFailure(alert[c], at, since, r) = "send"
      BY <1>1, <3>1
    <3>3. sent'[c] = at
      BY <3>1, <3>2
    <3>4. alert[c] # None /\ sent[c] = alert[c].last /\ alert[c].last \in Nat /\ at \in Nat
      BY <1>1, <2>0, <3>2 DEF StampInv, Routed, TypeInv, AlertRow
    <3>5. r \in Nat
      BY <2>0, <3>2, RepeatIsNat DEF Routed
    <3>6. c \in inStreak /\ ~AfterSuccess /\ sent[c] >= job.since => Told(alert[c], since)
      <4>1. c \in inStreak => job.since # None
        BY <1>1, <2>0 DEF StreakInv
      <4>2. ~AfterSuccess /\ job.since # None => since = job.since
        BY DEF StreakOf
      <4> QED BY <3>4, <4>1, <4>2 DEF Told
    <3> HIDE DEF at, since, r
    <3>7. FlapHold(r) \in Nat /\ Slack(r) \in Nat /\ Slack(FlapHold(r)) \in Nat
      BY <3>5, SlackGap
    <3>8. CASE r > 0 /\ Told(alert[c], since)
      <4>1. Reminds(alert[c], at, r)
        BY <3>2, <3>4, <3>5, <3>8 DEF PaceFailure
      <4>2. at - sent[c] >= r - Slack(r)
        BY <3>4, <3>5, <3>7, <4>1 DEF Reminds, Reached
      <4>3. at - sent[c] >= FlapHold(r) - Slack(FlapHold(r))
        BY <3>4, <3>5, <4>2, SlackGap
      <4> QED BY <3>3, <4>2, <4>3 DEF r
    <3>9. CASE r > 0 /\ ~Told(alert[c], since)
      <4>1. ~Flaps(alert[c], at, r)
        BY <3>2, <3>4, <3>5, <3>9 DEF PaceFailure
      <4>2. at - sent[c] >= FlapHold(r) - Slack(FlapHold(r))
        BY <3>4, <3>5, <3>7, <4>1 DEF Flaps, Reached
      <4> QED BY <3>3, <3>6, <3>9, <4>2 DEF r
    <3>10. CASE ~(r > 0)
      BY <3>10 DEF r
    <3> QED BY <3>8, <3>9, <3>10
  <2>2. ASSUME NEW h \in cands, ReleaseOne(h)
        PROVE  \E k \in {kind[c]} \cup {x.kind : x \in {x \in cands : x.c = c}} : Apart(c, k)
    <3> DEFINE r == FailedRepeat(c, h.kind)
    <3>1. StillHeld(h) /\ ReleaseSends(h) /\ h.c = c
      BY <1>1, <2>2 DEF ReleaseOne
    <3>2. ~ReleaseDrops(h)
      BY <3>1 DEF ReleaseSends, ReleaseDrops
    <3>3. sent' = [sent EXCEPT ![c] = poll]
      BY <2>2, <3>1 DEF ReleaseOne
    <3>4. sent'[c] = poll /\ poll \in Nat
      BY <2>0, <2>2, <3>3 DEF TypeInv, ClockInv
    <3>5. alert[c] # None /\ sent[c] = alert[c].last /\ alert[c].last \in Nat /\ alert[c].held # None
      BY <2>0, <2>2, <3>1 DEF StillHeld, StampInv, TypeInv, AlertRow
    <3>6. Rules(c) # {} /\ ReleaseDue(alert[c], poll, r)
      BY <3>1 DEF ReleaseSends
    <3>7. r \in Nat
      BY <2>0, <3>6, RepeatIsNat
    <3>8. ~(sent[c] >= job.since)
      <4>1. alert[c].last < job.since /\ job.since \in Nat
        BY <1>1, <2>0, <3>5 DEF HeldIsNews, TypeInv, JobRow, StreakInv
      <4> QED BY <3>5, <4>1
    <3>9. h.kind \in {x.kind : x \in {x \in cands : x.c = c}}
      BY <2>2, <3>1
    <3> HIDE DEF r
    <3>10. r > 0 => poll - sent[c] >= FlapHold(r) - Slack(FlapHold(r))
      BY <3>4, <3>5, <3>6, <3>7, SlackGap DEF ReleaseDue, Reached
    <3>11. Apart(c, h.kind)
      BY <3>4, <3>8, <3>10 DEF r
    <3> QED BY <3>9, <3>11
  <2>3. CASE \/ FinishSucceeded \/ Poll \/ ListHeld \/ (\E h \in cands : ReleaseFails(h))
             \/ Configure \/ DeleteJob \/ PruneJobRuns \/ Tick
    <3>1. \A x \in queued' : x[2] # "run.failed"
      BY <2>3 DEF FinishSucceeded, Poll, ListHeld, ReleaseFails, Configure, SetFailedRule, SetRecoveredRule,
           CreateChannel, DeleteChannel, Change, DeleteJob, PruneJobRuns, Tick
    <3> QED BY <1>1, <3>1
  <2> QED BY <1>1, <2>1, <2>2, <2>3 DEF Next, Release
<1>2. Inv /\ [Next]_vars => [Gaps]_vars
  BY <1>1
<1> QED BY <1>2, AlertsInvariance, PTL DEF Spec, Spaced
=============================================================================
