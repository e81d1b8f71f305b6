---------------------------- MODULE WatchProofs ----------------------------
(***************************************************************************)
(* What watches from outside the runner (module MCWatch), for every number *)
(* of signals, retries, budgets and answers of the server, and of domains, *)
(* certificates and times.                                                 *)
(*                                                                         *)
(* tend exec (module PingExec): pings end within their budgets, no signal  *)
(* is lost around the start of the command, and the server is told what    *)
(* happened.                                                               *)
(*                                                                         *)
(* The probes (module Probes), of the specification that is model-checked, *)
(* MCWatch's: the bootstrap file that concurrent domain probes share is    *)
(* fresh when it is used, and an alarm holds until its cause is replaced.  *)
(***************************************************************************)
EXTENDS MCWatch, TLAPS

-----------------------------------------------------------------------------
(* tend exec                                                               *)

\* What send keeps of the ping in progress.
PingState == [action : -1..256, try : 0..Retries, state : {"idle", "attempt", "sleep"},
              ends : Nat, deadline : Nat, backoff : Nat, arrived : BOOLEAN]
SentCounts == [before : Nat, after : Nat]
ServerState == [timing : BOOLEAN, status : 0..256 \cup {None}, lateStart : BOOLEAN]

Early == {"begin", "start", "launch"}
Phases == {"begin", "start", "launch", "spawn", "running", "finish", "exited"}

\* PingExecTypeOK with the types of the records, in three parts.
PingType == ping \in PingState /\ elapsed \in Nat
SignalType ==
    /\ sigs \in Seq(Signals) /\ Len(sigs) <= SigBuffer /\ passed \in Seq(Signals)
    /\ caught \in Signals \cup {None} /\ early \in Signals \cup {None}
    /\ sent \in SentCounts
ControlType ==
    /\ start \in BOOLEAN /\ canceled \in BOOLEAN /\ phase \in Phases
    /\ code \in 0..255 \cup {None} /\ server \in ServerState

\* The ping in progress ends within its budget, which is that of its phase;
\* outside the two phases that ping none is in progress.
BudgetInv ==
    /\ phase \in {"start", "finish"} =>
        ping.state # "idle" /\ elapsed <= ping.ends /\ ping.ends <= ping.deadline
    /\ phase = "start" => ping.deadline = StartBudget
    /\ phase = "finish" => ping.deadline = FinishBudget
    /\ phase \notin {"start", "finish"} => ping.state = "idle"

\* A signal before the command keeps being known until Launch reads it; of
\* those that come later none is lost.
SignalInv ==
    /\ phase \in Early =>
        /\ sent.after = 0 /\ passed = <<>>
        /\ sent.before > 0 => caught # None \/ sigs # <<>>
    /\ phase \in {"spawn", "running"} =>
        /\ sent.before = 0
        /\ sent.after <= SigBuffer => Len(sigs) + Len(passed) = sent.after

\* Requests on their way, or still to be recorded, carry what the phase says:
\* a start ping before the command is over, the exit status after it.
HonestInv ==
    /\ phase \notin {"finish", "exited"} => server.status = None /\ late \subseteq {StartAction}
    /\ phase \in {"finish", "exited"} => late \subseteq {StartAction, Suffix(code)}
    /\ phase = "start" => ping.action = StartAction
    /\ phase = "finish" => ping.action = Suffix(code)

ExecInv == PingType /\ SignalType /\ ControlType /\ BudgetInv /\ SignalInv /\ HonestInv /\ CompletionHonest

-----------------------------------------------------------------------------
(* ExecConstants, records and sequences *)

\* The assumption on the constants, one fact each.
LEMMA ExecConstants ==
    /\ \A s \in Signals : s \in 1..64
    /\ None \notin Signals
    /\ Retries \in Nat
    /\ SigBuffer \in Nat /\ SigBuffer > 0 /\ Timeout \in Nat
    /\ StartBudget \in Nat /\ FinishBudget \in Nat
    /\ FirstBackoff \in Nat /\ MaxBackoff \in Nat /\ MaxRetryAfter \in Nat
    /\ \A r \in RetryAfters : r \in Nat
BY PingExecAssumption

\* The status of a command that a signal killed.
LEMMA StatusOfSignal == \A s \in Signals : 128 + s \in 0..255
<1> SUFFICES ASSUME NEW s \in Signals PROVE 128 + s \in 0..255
  OBVIOUS
<1>1. s \in Int /\ 1 <= s /\ s <= 64
  BY PingExecAssumption
<1> QED BY <1>1

\* The elements of a sequence are those of its type.
LEMMA Elements == ASSUME NEW S, NEW q \in Seq(S) PROVE \A i \in 1..Len(q) : q[i] \in S
OBVIOUS

\* One more signal is counted.
LEMMA SentRecord ==
    ASSUME NEW s \in SentCounts, NEW k \in Nat
    PROVE  /\ [s EXCEPT !.before = k] \in SentCounts /\ [s EXCEPT !.after = k] \in SentCounts
           /\ [s EXCEPT !.before = k].before = k /\ [s EXCEPT !.before = k].after = s.after
           /\ [s EXCEPT !.after = k].after = k /\ [s EXCEPT !.after = k].before = s.before
BY DEF SentCounts

\* What RecordPing leaves in the heartbeat's row.
LEMMA RecordedFacts ==
    ASSUME NEW s \in ServerState, NEW a \in -1..256
    PROVE  /\ Recorded(s, a) \in ServerState
           /\ a = StartAction => /\ Recorded(s, a).status = s.status /\ Recorded(s, a).timing = TRUE
           /\ a # StartAction => /\ Recorded(s, a).status = a /\ Recorded(s, a).timing = FALSE
           /\ Recorded(s, a).lateStart = s.lateStart
<1>1. CASE a = StartAction
  BY <1>1 DEF Recorded, ServerState
<1>2. CASE a # StartAction
  <2>1. a \in 0..256
    BY <1>2 DEF StartAction
  <2> QED BY <1>2, <2>1 DEF Recorded, ServerState
<1> QED BY <1>1, <1>2

\* An exit status has its own action; any other code is reported as a failure.
LEMMA SuffixType ==
    ASSUME NEW c \in 0..255 \cup {None}
    PROVE  Suffix(c) \in 0..256
BY DEF Suffix, FailAction

-----------------------------------------------------------------------------
(* What the pieces of send do *)

\* A ping begins.
LEMMA SendBeginsFacts ==
    ASSUME NEW a \in -1..256, NEW b \in Nat, SendBegins(a, b)
    PROVE  /\ elapsed' = 0 /\ ping' \in PingState /\ ping'.state = "attempt" /\ ping'.action = a
           /\ ping'.deadline = b /\ 0 <= ping'.ends /\ ping'.ends <= b
<1>1. AttemptBy(0, b) \in Nat /\ AttemptBy(0, b) <= b
  BY ExecConstants DEF AttemptBy, Lesser
<1>2. 0 \in 0..Retries
  BY ExecConstants
<1> QED BY <1>1, <1>2, ExecConstants DEF SendBegins, PingState

\* The completion ping begins, with the status as its action.
LEMMA FinishFacts ==
    ASSUME NEW c \in 0..255, Finish(c)
    PROVE  /\ code' = c /\ phase' = "finish" /\ elapsed' = 0 /\ ping' \in PingState
           /\ ping'.state = "attempt" /\ ping'.action = Suffix(c)
           /\ ping'.deadline = FinishBudget /\ 0 <= ping'.ends /\ ping'.ends <= FinishBudget
<1>1. Suffix(c) \in -1..256
  <2>1. Suffix(c) \in 0..256
    BY SuffixType
  <2> QED BY <2>1
<1>2. SendBegins(Suffix(c), FinishBudget) /\ code' = c /\ phase' = "finish"
  BY DEF Finish
<1> QED BY <1>1, <1>2, SendBeginsFacts, ExecConstants

\* send returns: the next phase, and no ping in progress.
LEMMA ReturnsFacts ==
    ASSUME SendReturns, phase \in {"start", "finish"}
    PROVE  /\ ping'.state = "idle" /\ ping' \in PingState /\ elapsed' = 0
           /\ phase = "start" => phase' = "launch"
           /\ phase = "finish" => phase' = "exited"
<1>1. NoPing \in PingState /\ NoPing.state = "idle"
  BY ExecConstants DEF NoPing, PingState, FailAction
<1> QED BY <1>1 DEF SendReturns

\* The phase and the ping after send's loop decided about another attempt.
GoesOn ==
    /\ UNCHANGED <<elapsed, phase>> /\ ping' \in PingState
    /\ ping'.state = "sleep" /\ ping'.deadline = ping.deadline /\ ping'.action = ping.action
    /\ elapsed <= ping'.ends /\ ping'.ends <= ping.deadline

\* A retry gives up, or sleeps for less than what is left of the budget.
LEMMA RetryFacts ==
    ASSUME PingType, NEW wait \in Nat, Retry(wait)
    PROVE  SendReturns \/ GoesOn
<1> SUFFICES ASSUME ~SendReturns PROVE GoesOn
  OBVIOUS
<1>1. ping.try \in 0..Retries /\ ping.deadline \in Nat /\ ping.backoff \in Nat /\ elapsed \in Nat
  BY DEF PingType, PingState
<1>2. /\ ~(ping.try >= Retries \/ elapsed >= ping.deadline \/ ping.deadline - elapsed <= wait)
      /\ ping' = [ping EXCEPT !.try = ping.try + 1, !.state = "sleep", !.ends = elapsed + wait,
                              !.backoff = Lesser(2 * ping.backoff, MaxBackoff), !.arrived = FALSE]
      /\ UNCHANGED <<elapsed, phase>>
  BY DEF Retry
<1>3. ping.try + 1 \in 0..Retries /\ elapsed + wait \in Nat /\ elapsed <= elapsed + wait
      /\ elapsed + wait <= ping.deadline
  BY <1>1, <1>2, ExecConstants
<1>4. Lesser(2 * ping.backoff, MaxBackoff) \in Nat
  BY <1>1, ExecConstants DEF Lesser
<1>5. ping \in PingState
  BY DEF PingType
<1> DEFINE t == ping.try + 1  w == elapsed + wait  b == Lesser(2 * ping.backoff, MaxBackoff)
<1>6. /\ ping' \in PingState /\ ping'.ends = w /\ ping'.state = "sleep"
      /\ ping'.action = ping.action /\ ping'.deadline = ping.deadline
  <2>1. t \in 0..Retries /\ w \in Nat /\ b \in Nat
    BY <1>3, <1>4
  <2>2. ping' = [ping EXCEPT !.try = t, !.state = "sleep", !.ends = w, !.backoff = b, !.arrived = FALSE]
    BY <1>2
  <2> HIDE DEF t, w, b
  <2> QED BY <2>1, <2>2, <1>5 DEF PingState
<1> QED BY <1>2, <1>3, <1>6 DEF GoesOn

\* An attempt that is over: send returned, or sleeps before another one.
LEMMA AttemptFacts ==
    ASSUME PingType, BudgetInv, AttemptReturns
    PROVE  /\ phase \in {"start", "finish"}
           /\ SendReturns \/ GoesOn
           /\ late' \subseteq late \cup {ping.action}
           /\ UNCHANGED <<start, sigs, caught, early, canceled, code, sent, passed, server>>
<1>1. ping.state = "attempt" /\ phase \in {"start", "finish"}
  BY DEF AttemptReturns, BudgetInv
<1>2. late' \subseteq late \cup {ping.action}
  BY DEF AttemptReturns, Straggles
<1>3. SendReturns \/ \E w \in Nat : Retry(w)
  <2>1. ping.backoff \in Nat
    BY DEF PingType, PingState
  <2>2. \A r \in RetryAfters : Lesser(r, MaxRetryAfter) \in Nat
    BY ExecConstants DEF Lesser
  <2> QED BY <2>1, <2>2 DEF AttemptReturns
<1>4. SendReturns \/ GoesOn
  BY <1>3, RetryFacts
<1> QED BY <1>1, <1>2, <1>4 DEF AttemptReturns

-----------------------------------------------------------------------------
(* One lemma for each action *)

\* A signal that arrives is queued, or the channel is full of others.
LEMMA SignalKeeps == ASSUME ExecInv, Signal PROVE ExecInv'
<1> USE DEF ExecInv
<1>1. PICK s \in Signals : sigs' = IF Len(sigs) < SigBuffer THEN Append(sigs, s) ELSE sigs
  BY DEF Signal
<1>2. /\ sigs' \in Seq(Signals) /\ Len(sigs') <= SigBuffer /\ sigs' # <<>>
      /\ Len(sigs) < SigBuffer => Len(sigs') = Len(sigs) + 1
  BY <1>1, ExecConstants DEF SignalType
<1>3. /\ sent' \in SentCounts
      /\ phase \in Early => sent'.before = sent.before + 1 /\ sent'.after = sent.after
      /\ phase \notin Early => sent'.before = sent.before /\ sent'.after = sent.after + 1
  <2>1. sent.before + 1 \in Nat /\ sent.after + 1 \in Nat /\ sent \in SentCounts
    BY DEF SignalType, SentCounts
  <2>2. sent' = IF phase \in Early THEN [sent EXCEPT !.before = sent.before + 1]
                ELSE [sent EXCEPT !.after = sent.after + 1]
    BY DEF Signal, Early
  <2> QED BY <2>1, <2>2, SentRecord
<1>4. canceled' \in BOOLEAN
  BY DEF Signal, ControlType
<1>5. PingType' /\ BudgetInv' /\ HonestInv' /\ CompletionHonest'
  BY DEF Signal, PingType, BudgetInv, HonestInv, CompletionHonest
<1>6. SignalType' /\ ControlType'
  BY <1>2, <1>3, <1>4 DEF Signal, SignalType, ControlType
<1>7. SignalInv'
  <2>1. CASE phase \in Early
    BY <1>2, <1>3, <2>1 DEF Signal, SignalInv, Early
  <2>2. CASE phase \in {"spawn", "running"}
    <3>1. /\ sent.before = 0 /\ sent.after \in Nat /\ Len(sigs) \in Nat /\ Len(passed) \in Nat
          /\ sent.after <= SigBuffer => Len(sigs) + Len(passed) = sent.after
      <4>1. sent.after \in Nat
        BY DEF SignalType, SentCounts
      <4>2. Len(sigs) \in Nat /\ Len(passed) \in Nat
        BY DEF SignalType
      <4> QED BY <2>2, <4>1, <4>2 DEF SignalInv
    <3>2. phase' = phase /\ passed' = passed /\ phase \notin Early
      BY <2>2 DEF Signal, Early
    <3>3. sent'.after <= SigBuffer => Len(sigs') + Len(passed') = sent'.after
      <4> SUFFICES ASSUME sent'.after <= SigBuffer PROVE Len(sigs') + Len(passed') = sent'.after
        OBVIOUS
      <4>1. sent'.after = sent.after + 1 /\ passed' = passed
        BY <1>3, <3>2
      <4>2. sent.after + 1 <= SigBuffer
        BY <4>1
      <4>3. Len(sigs) + Len(passed) = sent.after /\ Len(sigs) < SigBuffer
        BY <3>1, <4>2, ExecConstants
      <4>4. Len(sigs') = Len(sigs) + 1
        BY <1>2, <4>3
      <4> QED BY <3>1, <4>1, <4>3, <4>4
    <3> QED BY <1>3, <3>1, <3>2, <3>3 DEF SignalInv
  <2>3. CASE phase \in {"finish", "exited"}
    BY <2>3 DEF Signal, SignalInv, Early
  <2> QED BY <2>1, <2>2, <2>3 DEF ControlType, Phases, Early
<1> QED BY <1>5, <1>6, <1>7

\* A signal that startPing's goroutine takes is remembered.
LEMMA CatchSignalKeeps == ASSUME ExecInv, CatchSignal PROVE ExecInv'
<1> USE DEF ExecInv
<1>1. /\ sigs' \in Seq(Signals) /\ Len(sigs') <= SigBuffer /\ caught' \in Signals
  BY ExecConstants DEF CatchSignal, SignalType
<1>2. SignalType' /\ ControlType'
  BY <1>1 DEF CatchSignal, SignalType, ControlType
<1>3. PingType' /\ BudgetInv' /\ HonestInv' /\ CompletionHonest'
  BY DEF CatchSignal, PingType, BudgetInv, HonestInv, CompletionHonest
<1>4. SignalInv'
  BY <1>1, ExecConstants DEF CatchSignal, SignalInv, Early
<1> QED BY <1>2, <1>3, <1>4

\* A ping that is recorded says what the phase says.
LEMMA ServerRecordsKeeps == ASSUME ExecInv, ServerRecords PROVE ExecInv'
<1> USE DEF ExecInv
<1>1. phase \in {"start", "finish"} /\ ping \in PingState /\ server \in ServerState
  BY DEF ServerRecords, BudgetInv, PingType, ControlType
<1>2. ping.action \in -1..256
  BY <1>1 DEF PingState
<1>3. /\ ping' \in PingState /\ ping'.state = ping.state /\ ping'.ends = ping.ends
      /\ ping'.deadline = ping.deadline /\ ping'.action = ping.action
  <2>1. ping' = [ping EXCEPT !.arrived = TRUE]
    BY DEF ServerRecords
  <2> QED BY <1>1, <2>1 DEF PingState
<1>4. server' = Recorded(server, ping.action) /\ server' \in ServerState
  BY <1>1, <1>2, RecordedFacts DEF ServerRecords
<1>5. UNCHANGED <<start, phase, elapsed, sigs, caught, early, canceled, code, sent, passed, late>>
  BY DEF ServerRecords
<1>6. PingType' /\ SignalType' /\ ControlType' /\ BudgetInv' /\ SignalInv'
  BY <1>3, <1>4, <1>5 DEF PingType, SignalType, ControlType, BudgetInv, SignalInv
<1>7. CASE phase = "start"
  <2>1. ping.action = StartAction /\ server.status = None
    BY <1>7 DEF HonestInv
  <2>2. server'.status = None
    BY <1>1, <1>2, <1>4, <2>1, RecordedFacts
  <2> QED BY <1>3, <1>5, <1>6, <1>7, <2>2 DEF HonestInv, CompletionHonest
<1>8. CASE phase = "finish"
  <2>1. ping.action = Suffix(code) /\ Suffix(code) \in 0..256
    BY <1>8, SuffixType DEF HonestInv, ControlType
  <2>2. Suffix(code) # StartAction
    BY <2>1 DEF StartAction
  <2>3. server'.status = Suffix(code) /\ server'.timing = FALSE
    BY <1>1, <1>2, <1>4, <2>1, <2>2, RecordedFacts
  <2> QED BY <1>3, <1>5, <1>6, <1>8, <2>3 DEF HonestInv, CompletionHonest
<1> QED BY <1>1, <1>7, <1>8

\* So does one that is recorded late, unless it is a start: that is remembered.
LEMMA ServerRecordsLateKeeps == ASSUME ExecInv, ServerRecordsLate PROVE ExecInv'
<1> USE DEF ExecInv
<1>1. PICK a \in late : /\ late' = late \ {a}
                        /\ server' = [Recorded(server, a) EXCEPT !.lateStart = @ \/ a = StartAction]
  BY DEF ServerRecordsLate
<1>2. UNCHANGED <<start, phase, elapsed, ping, sigs, caught, early, canceled, code, sent, passed>>
  BY DEF ServerRecordsLate
<1>3. server \in ServerState /\ code \in 0..255 \cup {None} /\ phase \in Phases
  BY DEF ControlType
<1>4. a \in {StartAction, Suffix(code)} /\ Suffix(code) \in 0..256
  BY <1>3, SuffixType DEF HonestInv
<1>5. a \in -1..256
  BY <1>4 DEF StartAction
<1> DEFINE r == Recorded(server, a)
<1>6. /\ r \in ServerState
      /\ a = StartAction => r.status = server.status /\ r.timing = TRUE
      /\ a # StartAction => r.status = a /\ r.timing = FALSE
  BY <1>3, <1>5, RecordedFacts
<1>7. server' = [r EXCEPT !.lateStart = r.lateStart \/ a = StartAction]
  BY <1>1
<1> HIDE DEF r
<1>8. /\ server' \in ServerState /\ server'.status = r.status /\ server'.timing = r.timing
      /\ a = StartAction => server'.lateStart = TRUE
  BY <1>6, <1>7 DEF ServerState
<1>9. PingType' /\ SignalType' /\ ControlType' /\ BudgetInv' /\ SignalInv'
  BY <1>2, <1>8 DEF PingType, SignalType, ControlType, BudgetInv, SignalInv
<1>10. HonestInv'
  BY <1>1, <1>2, <1>3, <1>6, <1>8 DEF HonestInv, Phases
<1>11. CompletionHonest'
  <2>1. CASE a = StartAction
    BY <1>2, <1>6, <1>8, <2>1 DEF CompletionHonest
  <2>2. CASE a # StartAction
    <3>1. a = Suffix(code) /\ phase \in {"finish", "exited"}
      BY <1>4, <2>2 DEF HonestInv
    <3> QED BY <1>2, <1>6, <1>8, <2>2, <3>1 DEF CompletionHonest
  <2> QED BY <2>1, <2>2
<1> QED BY <1>9, <1>10, <1>11

\* An attempt that is over leaves a sleep within the budget, or no ping.
LEMMA AttemptReturnsKeeps == ASSUME ExecInv, AttemptReturns PROVE ExecInv'
<1> USE DEF ExecInv
<1>1. /\ phase \in {"start", "finish"}
      /\ late' \subseteq late \cup {ping.action}
      /\ UNCHANGED <<start, sigs, caught, early, canceled, code, sent, passed, server>>
  BY AttemptFacts
<1>2. /\ ping' \in PingState /\ elapsed' \in Nat
      /\ phase = "start" => phase' \in {"start", "launch"}
      /\ phase = "finish" => phase' \in {"finish", "exited"}
      /\ phase' \in {"start", "finish"} =>
            /\ phase' = phase /\ ping'.state # "idle" /\ elapsed' <= ping'.ends
            /\ ping'.ends <= ping'.deadline /\ ping'.deadline = ping.deadline /\ ping'.action = ping.action
      /\ phase' \in {"launch", "exited"} => ping'.state = "idle"
  <2>1. CASE SendReturns
    BY <1>1, <2>1, ReturnsFacts
  <2>2. CASE GoesOn
    BY <1>1, <2>2 DEF GoesOn, PingType
  <2> QED BY <2>1, <2>2, AttemptFacts
<1>3. PingType' /\ SignalType'
  BY <1>1, <1>2 DEF PingType, SignalType
<1>4. ControlType'
  BY <1>1, <1>2 DEF ControlType, Phases
<1>5. BudgetInv'
  BY <1>1, <1>2 DEF BudgetInv
<1>6. SignalInv'
  BY <1>1, <1>2 DEF SignalInv, Early
<1>7. HonestInv' /\ CompletionHonest'
  <2>1. CASE phase = "start"
    BY <1>1, <1>2, <2>1 DEF HonestInv, CompletionHonest
  <2>2. CASE phase = "finish"
    BY <1>1, <1>2, <2>2 DEF HonestInv, CompletionHonest
  <2> QED BY <1>1, <2>1, <2>2
<1> QED BY <1>3, <1>4, <1>5, <1>6, <1>7

\* A sleep ends: the next attempt is held to the budget.
LEMMA SleepEndsKeeps == ASSUME ExecInv, SleepEnds PROVE ExecInv'
<1> USE DEF ExecInv
<1>1. phase \in {"start", "finish"} /\ ping \in PingState /\ elapsed \in Nat
  BY DEF SleepEnds, BudgetInv, PingType
<1>2. ping.deadline \in Nat /\ ping.ends \in Nat /\ elapsed <= ping.ends /\ ping.ends <= ping.deadline
  BY <1>1 DEF BudgetInv, PingState
<1> DEFINE w == AttemptBy(elapsed, ping.deadline)
<1>3. w \in Nat /\ elapsed <= w /\ w <= ping.deadline
  BY <1>1, <1>2, ExecConstants DEF AttemptBy, Lesser
<1>4. ping' = [ping EXCEPT !.state = "attempt", !.ends = w]
  BY DEF SleepEnds
<1> HIDE DEF w
<1>5. /\ ping' \in PingState /\ ping'.state = "attempt" /\ ping'.ends = w
      /\ ping'.deadline = ping.deadline /\ ping'.action = ping.action
  BY <1>1, <1>3, <1>4 DEF PingState
<1>6. UNCHANGED <<start, phase, elapsed, sigs, caught, early, canceled, code, sent, passed, late, server>>
  BY DEF SleepEnds
<1>7. PingType' /\ SignalType' /\ ControlType' /\ SignalInv' /\ HonestInv' /\ CompletionHonest'
  BY <1>5, <1>6 DEF PingType, SignalType, ControlType, SignalInv, HonestInv, CompletionHonest
<1>8. BudgetInv'
  BY <1>1, <1>3, <1>5, <1>6 DEF BudgetInv
<1> QED BY <1>7, <1>8

\* Time passes inside an attempt or a sleep.
LEMMA ElapseKeeps == ASSUME ExecInv, Elapse PROVE ExecInv'
<1> USE DEF ExecInv
<1>1. ping.ends \in Nat /\ elapsed \in Nat
  BY DEF PingType, PingState
<1>2. elapsed' \in Nat /\ elapsed' <= ping.ends
  BY <1>1 DEF Elapse
<1> QED BY <1>2 DEF Elapse, PingType, SignalType, ControlType, BudgetInv, SignalInv, HonestInv, CompletionHonest

\* Run begins, with the start ping or without one.
LEMMA BeginKeeps == ASSUME ExecInv, Begin PROVE ExecInv'
<1> USE DEF ExecInv
<1>1. UNCHANGED <<start, sigs, caught, early, canceled, code, sent, passed, late, server>> /\ phase = "begin"
  BY DEF Begin
<1>2. CASE start
  <2>1. phase' = "start" /\ SendBegins(StartAction, StartBudget)
    BY <1>2 DEF Begin
  <2>2. StartAction \in -1..256
    BY DEF StartAction
  <2>3. /\ elapsed' = 0 /\ ping' \in PingState /\ ping'.state = "attempt" /\ ping'.action = StartAction
        /\ ping'.deadline = StartBudget /\ 0 <= ping'.ends /\ ping'.ends <= StartBudget
    BY <2>1, <2>2, SendBeginsFacts, ExecConstants
  <2>4. PingType' /\ SignalType' /\ ControlType' /\ BudgetInv'
    BY <1>1, <2>1, <2>3 DEF PingType, SignalType, ControlType, Phases, BudgetInv
  <2> QED BY <1>1, <2>1, <2>3, <2>4 DEF SignalInv, HonestInv, CompletionHonest, Early
<1>3. CASE ~start
  <2>1. phase' = "launch" /\ UNCHANGED <<elapsed, ping>>
    BY <1>3 DEF Begin
  <2>2. PingType' /\ SignalType' /\ ControlType' /\ BudgetInv'
    BY <1>1, <2>1 DEF PingType, SignalType, ControlType, Phases, BudgetInv
  <2> QED BY <1>1, <2>1, <2>2 DEF SignalInv, HonestInv, CompletionHonest, Early
<1> QED BY <1>2, <1>3

\* A completion ping that begins keeps the invariant, from any phase in which
\* nothing was reported yet.
LEMMA FinishKeeps ==
    ASSUME ExecInv, SignalType', NEW c \in 0..255, Finish(c), phase \in {"launch", "spawn", "running"},
           UNCHANGED <<start, canceled, late, server>>
    PROVE  ExecInv'
<1> USE DEF ExecInv
<1>1. /\ code' = c /\ phase' = "finish" /\ elapsed' = 0 /\ ping' \in PingState
      /\ ping'.state = "attempt" /\ ping'.action = Suffix(c)
      /\ ping'.deadline = FinishBudget /\ 0 <= ping'.ends /\ ping'.ends <= FinishBudget
  BY FinishFacts
<1>2. PingType' /\ ControlType' /\ BudgetInv'
  BY <1>1 DEF PingType, ControlType, Phases, BudgetInv
<1>3. SignalInv'
  BY <1>1 DEF SignalInv, Early
<1>4. HonestInv' /\ CompletionHonest'
  BY <1>1 DEF HonestInv, CompletionHonest
<1> QED BY <1>2, <1>3, <1>4

\* Launch starts the command only when no signal is known, so none arrived.
LEMMA LaunchKeeps == ASSUME ExecInv, Launch PROVE ExecInv'
<1> USE DEF ExecInv
<1>1. /\ phase = "launch" /\ UNCHANGED <<start, caught, canceled, sent, passed, late, server>>
      /\ early' = IF caught = None /\ sigs # <<>> THEN Head(sigs) ELSE caught
      /\ sigs' = IF caught = None /\ sigs # <<>> THEN Tail(sigs) ELSE sigs
  BY DEF Launch
<1>2. SignalType'
  <2>1. early' \in Signals \cup {None} /\ sigs' \in Seq(Signals) /\ Len(sigs') <= SigBuffer
    BY <1>1, ExecConstants DEF SignalType
  <2> QED BY <1>1, <2>1 DEF SignalType
<1>3. CASE early' # None
  <2>1. 128 + early' \in 0..255
    <3>1. early' \in Signals
      BY <1>2, <1>3 DEF SignalType
    <3> QED BY <3>1, StatusOfSignal
  <2>2. Finish(128 + early')
    BY <1>3 DEF Launch
  <2> QED BY <1>1, <1>2, <2>1, <2>2, FinishKeeps
<1>4. CASE early' = None /\ canceled
  <2>1. Finish(1)
    BY <1>4 DEF Launch
  <2> QED BY <1>1, <1>2, <2>1, FinishKeeps
<1>5. CASE early' = None /\ ~canceled
  <2>1. phase' = "spawn" /\ UNCHANGED <<elapsed, ping, code>>
    BY <1>5 DEF Launch
  <2>2. caught = None /\ sigs = <<>> /\ sigs' = <<>>
    <3>1. sigs # <<>> => Head(sigs) \in Signals
      BY DEF SignalType
    <3> QED BY <1>1, <1>5, <3>1, ExecConstants
  <2>3. sent.before = 0 /\ sent.after = 0 /\ passed = <<>>
    <3>1. sent.before \in Nat
      BY DEF SignalType, SentCounts
    <3> QED BY <1>1, <2>2, <3>1 DEF SignalInv, Early
  <2>4. PingType' /\ ControlType' /\ BudgetInv' /\ HonestInv' /\ CompletionHonest'
    BY <1>1, <2>1 DEF PingType, ControlType, Phases, BudgetInv, HonestInv, CompletionHonest
  <2>5. SignalInv'
    BY <1>1, <2>1, <2>2, <2>3 DEF SignalInv, Early
  <2> QED BY <1>2, <2>4, <2>5
<1> QED BY <1>3, <1>4, <1>5

\* The command starts, or cannot be started.
LEMMA SpawnKeeps == ASSUME ExecInv, Spawn PROVE ExecInv'
<1> USE DEF ExecInv
<1>1. phase = "spawn" /\ UNCHANGED <<start, sigs, caught, early, canceled, sent, passed, late, server>>
  BY DEF Spawn
<1>2. SignalType'
  BY <1>1 DEF SignalType
<1>3. CASE phase' = "running" /\ UNCHANGED <<elapsed, ping, code>>
  BY <1>1, <1>2, <1>3 DEF PingType, ControlType, Phases, BudgetInv, SignalInv, HonestInv, CompletionHonest, Early
<1>4. CASE \E c \in {126, 127} : Finish(c)
  <2>1. PICK c \in 0..255 : Finish(c)
    BY <1>4
  <2> QED BY <1>1, <1>2, <2>1, FinishKeeps
<1> QED BY <1>3, <1>4 DEF Spawn

\* A signal is passed on: it leaves the channel and reaches the command.
LEMMA ForwardKeeps == ASSUME ExecInv, Forward PROVE ExecInv'
<1> USE DEF ExecInv
<1>1. /\ phase = "running" /\ sigs # <<>> /\ passed' = Append(passed, Head(sigs)) /\ sigs' = Tail(sigs)
      /\ UNCHANGED <<start, phase, elapsed, ping, caught, early, canceled, code, sent, late, server>>
  BY DEF Forward
<1>2. /\ Head(sigs) \in Signals /\ sigs' \in Seq(Signals) /\ passed' \in Seq(Signals)
      /\ Len(sigs') = Len(sigs) - 1 /\ Len(passed') = Len(passed) + 1
      /\ Len(sigs) \in Nat /\ Len(passed) \in Nat
  BY <1>1 DEF SignalType
<1>3. SignalType'
  BY <1>1, <1>2, ExecConstants DEF SignalType
<1>4. SignalInv'
  BY <1>1, <1>2 DEF SignalInv, Early
<1>5. PingType' /\ ControlType' /\ BudgetInv' /\ HonestInv' /\ CompletionHonest'
  BY <1>1 DEF PingType, ControlType, BudgetInv, HonestInv, CompletionHonest
<1> QED BY <1>3, <1>4, <1>5

\* The command ends with a status the shell would report.
LEMMA CommandEndsKeeps == ASSUME ExecInv, CommandEnds PROVE ExecInv'
<1> USE DEF ExecInv
<1>1. phase = "running" /\ UNCHANGED <<start, sigs, caught, early, canceled, sent, passed, late, server>>
  BY DEF CommandEnds
<1>2. SignalType'
  BY <1>1 DEF SignalType
<1>3. PICK c \in {0, 1, 126} \cup {128 + passed[i] : i \in 1..Len(passed)} : Finish(c)
  BY DEF CommandEnds
<1>4. c \in 0..255
  <2>1. \A i \in 1..Len(passed) : passed[i] \in Signals
    BY Elements DEF SignalType
  <2>2. \A i \in 1..Len(passed) : 128 + passed[i] \in 0..255
    BY <2>1, StatusOfSignal
  <2>3. CASE c \in {0, 1, 126}
    BY <2>3
  <2>4. CASE c \in {128 + passed[i] : i \in 1..Len(passed)}
    BY <2>2, <2>4
  <2> QED BY <1>3, <2>3, <2>4
<1> QED BY <1>1, <1>2, <1>3, <1>4, FinishKeeps

-----------------------------------------------------------------------------
\* ExecInv holds when tend exec starts.
LEMMA ExecStarts == ExecInit => ExecInv
<1> SUFFICES ASSUME ExecInit PROVE ExecInv
  OBVIOUS
<1> USE DEF ExecInit, Quiet
<1>1. PingType
  BY ExecConstants DEF PingType, NoPing, PingState, FailAction
<1>2. SignalType
  BY ExecConstants DEF SignalType, SentCounts
<1>3. ControlType
  BY DEF ControlType, Phases, ServerState
<1>4. BudgetInv /\ SignalInv /\ HonestInv /\ CompletionHonest
  BY DEF BudgetInv, NoPing, SignalInv, HonestInv, CompletionHonest, Early
<1> QED BY <1>1, <1>2, <1>3, <1>4 DEF ExecInv

\* ExecInv is kept by every step.
LEMMA ExecStep == ExecInv /\ [ExecNext]_execVars => ExecInv'
<1> SUFFICES ASSUME ExecInv, [ExecNext]_execVars PROVE ExecInv'
  OBVIOUS
<1>1. CASE UNCHANGED execVars
  BY <1>1 DEF execVars, ExecInv, PingType, SignalType, ControlType, BudgetInv, SignalInv, HonestInv, CompletionHonest
<1>2. CASE ExecNext
  BY <1>2, SignalKeeps, CatchSignalKeeps, ServerRecordsKeeps, ServerRecordsLateKeeps, AttemptReturnsKeeps,
     SleepEndsKeeps, ElapseKeeps, BeginKeeps, LaunchKeeps, SpawnKeeps, ForwardKeeps, CommandEndsKeeps
     DEF ExecNext
<1> QED BY <1>1, <1>2

\* Every variable of tend exec keeps its type; in particular the signal channel
\* never holds more than it has room for.
THEOREM ExecTypes == ExecSpec => []PingExecTypeOK
<1>1. ExecInv => PingExecTypeOK
  <2> SUFFICES ASSUME ExecInv PROVE PingExecTypeOK
    OBVIOUS
  <2>1. ping.try \in 0..Retries
    BY DEF ExecInv, PingType, PingState
  <2> QED BY <2>1 DEF ExecInv, PingType, SignalType, ControlType, Phases, PingExecTypeOK
<1> QED BY <1>1, ExecStarts, ExecStep, PTL DEF ExecSpec

\* Run starts the command only if no signal arrived before, and runCommand
\* passes on each that arrives later.
THEOREM SignalsAreHeard == ExecSpec => []SignalsHeard
<1>1. ExecInv => SignalsHeard
  BY DEF ExecInv, SignalInv, SignalsHeard
<1> QED BY <1>1, ExecStarts, ExecStep, PTL DEF ExecSpec

\* send: all attempts of a ping, and the sleeps between them, stay in its budget.
THEOREM BudgetsHold == ExecSpec => []PingsWithinBudget
<1>1. ExecInv => PingsWithinBudget
  <2> SUFFICES ASSUME ExecInv PROVE PingsWithinBudget
    OBVIOUS
  <2>1. elapsed \in Nat /\ ping.ends \in Nat /\ ping.deadline \in Nat
    BY DEF ExecInv, PingType, PingState
  <2> QED BY <2>1, ExecConstants DEF ExecInv, BudgetInv, PingsWithinBudget
<1> QED BY <1>1, ExecStarts, ExecStep, PTL DEF ExecSpec

\* The heartbeat is told the status tend exec exits with, once it is known, and
\* is timing the run afterwards only if a start ping was recorded late.
THEOREM ToldWhatHappened == ExecSpec => []CompletionHonest
<1>1. ExecInv => CompletionHonest
  BY DEF ExecInv
<1> QED BY <1>1, ExecStarts, ExecStep, PTL DEF ExecSpec

-----------------------------------------------------------------------------
(* The probes                                                              *)

allVars == <<vars, execVars, probeVars, part>>

(* What the constants are. *)
LEMMA Constants ==
    /\ WarnDays \in Nat /\ Num \in Nat /\ RenewalGraceMax \in Nat
    /\ Day \in Nat /\ Den \in Nat /\ Den > 0 /\ TTL \in Nat /\ TTL > 0
    /\ Lifetimes \subseteq Nat
  BY ProbesAssumed DEF P!ProbesAssumption

(* How MCWatch moves the probes: by a step of theirs, or not at all. *)
LEMMA ProbesStep == [MCNext]_allVars => P!Next \/ UNCHANGED probeVars
  BY DEF allVars, MCNext

-----------------------------------------------------------------------------
(* The bootstrap file *)

(* A copy is stamped no later than it was current. *)
Stamped(c) ==
    /\ c.asOf \in Nat
    /\ c.fetched # None => c.fetched \in Nat /\ c.fetched <= c.asOf

Copy == {c \in [fetched : {None} \cup Nat, asOf : Nat] : Stamped(c)}

Probe ==
    [pc : {"idle", "cache", "fetch", "store", "ask"}, t : Nat, copy : Copy, note : BOOLEAN]

(* What each probe knows: its clock is not ahead; a copy fetched and not yet *)
(* stored is as of a moment after it; one it asks from, if it took no note   *)
(* of its age, is fresh.                                                     *)
ProbeInv(d) ==
    /\ dom[d] \in Probe
    /\ dom[d].t <= probeNow
    /\ dom[d].pc = "store" => dom[d].t <= dom[d].copy.asOf
    /\ (dom[d].pc = "ask" /\ ~dom[d].note) => dom[d].t - dom[d].copy.asOf < TTL

CacheInv ==
    /\ probeNow \in Nat
    /\ held \in Copy
    /\ DOMAIN dom = Domains
    /\ \A d \in Domains : ProbeInv(d)

(* At the start no probe runs and nothing is held. *)
LEMMA CacheStarts == MCInit => CacheInv
<1> SUFFICES ASSUME MCInit PROVE CacheInv
  OBVIOUS
<1>1. probeNow = 0 /\ held = P!NoCopy /\ dom = [d \in Domains |-> P!Idle]
  BY DEF MCInit, P!Init, P!Fresh
<1>2. P!NoCopy \in Copy
  BY DEF P!NoCopy, Copy, Stamped
<1>3. P!Idle \in Probe /\ P!Idle.t = 0 /\ P!Idle.pc = "idle"
  BY <1>2 DEF P!Idle, Probe
<1> QED BY <1>1, <1>2, <1>3 DEF CacheInv, ProbeInv

(* A probe set to a record it may be in, with held a copy, keeps the         *)
(* invariant: a step of one probe touches no other.                          *)
LEMMA OneProbeMoves ==
    ASSUME CacheInv, NEW d \in Domains, NEW r, P!Step(d, r), held' \in Copy,
           r \in Probe,
           r.t <= probeNow,
           r.pc = "store" => r.t <= r.copy.asOf,
           (r.pc = "ask" /\ ~r.note) => r.t - r.copy.asOf < TTL
    PROVE  CacheInv'
<1>1. probeNow' = probeNow /\ dom' = [dom EXCEPT ![d] = r]
  BY DEF P!Step
<1>2. probeNow' \in Nat /\ DOMAIN dom' = Domains
  BY <1>1 DEF CacheInv
<1>3. ASSUME NEW e \in Domains PROVE ProbeInv(e)'
  <2>1. CASE e = d
    <3>1. dom'[e] = r
      BY <1>1, <2>1 DEF CacheInv
    <3> QED BY <1>1, <3>1 DEF ProbeInv
  <2>2. CASE e # d
    <3>1. dom'[e] = dom[e] /\ ProbeInv(e)
      BY <1>1, <2>2 DEF CacheInv
    <3> QED BY <1>1, <3>1 DEF ProbeInv
  <2> QED BY <2>1, <2>2
<1> QED BY <1>2, <1>3 DEF CacheInv

(* Each step of a domain probe keeps the invariant.  What Fetch brings is as *)
(* of a moment after the probe read its clock, so the stamp Store gives it   *)
(* is not later than that moment, and a copy that ReadCache finds fresh by   *)
(* its stamp is fresh.                                                       *)
LEMMA ProbeKeepsCache ==
    ASSUME CacheInv, NEW d \in Domains,
           P!ReadClock(d) \/ P!ReadCache(d) \/ P!Fetch(d) \/ P!Store(d) \/ P!Ask(d)
    PROVE  CacheInv'
<1>1. ProbeInv(d) /\ held \in Copy /\ probeNow \in Nat
  BY DEF CacheInv
<1>2. PICK o \in Probe : o = dom[d]
  BY <1>1 DEF ProbeInv
<1>3. o.t \in Nat /\ o.copy \in Copy
  BY DEF Probe
<1>4. o.t <= probeNow /\ (o.pc = "store" => o.t <= o.copy.asOf)
  BY <1>1, <1>2 DEF ProbeInv
<1>5. P!NoCopy \in Copy
  BY DEF P!NoCopy, Copy, Stamped
<1>6. PICK idle \in Probe : idle = P!Idle /\ idle.t = 0 /\ idle.pc = "idle"
  <2>1. P!Idle \in Probe /\ P!Idle.t = 0 /\ P!Idle.pc = "idle"
    BY <1>5 DEF P!Idle, Probe
  <2> QED BY <2>1
<1>7. CASE P!ReadClock(d)
  <2>1. PICK r : r = [idle EXCEPT !.pc = "cache", !.t = probeNow]
    OBVIOUS
  <2>2. P!Step(d, r) /\ held' = held
    BY <1>6, <1>7, <2>1 DEF P!ReadClock
  <2>3. r \in Probe /\ r.t = probeNow /\ r.pc = "cache"
    BY <1>1, <1>6, <2>1 DEF Probe
  <2> QED BY <1>1, <2>2, <2>3, OneProbeMoves
<1>8. CASE P!ReadCache(d)
  <2>1. PICK q \in {"fetch", "ask"} :
          /\ P!Step(d, [o EXCEPT !.pc = q, !.copy = held]) /\ held' = held
          /\ q = "ask" => held.fetched # None /\ ~P!Stale(held, o.t)
    BY <1>2, <1>8 DEF P!ReadCache
  <2>2. q = "ask" => o.t - held.asOf < TTL
    <3>1. SUFFICES ASSUME q = "ask" PROVE o.t - held.asOf < TTL
      OBVIOUS
    <3>2. held.fetched \in Nat /\ held.asOf \in Nat /\ held.fetched <= held.asOf
      BY <1>1, <2>1, <3>1 DEF Copy, Stamped
    <3>3. o.t - held.fetched < TTL
      BY <1>3, <2>1, <3>1, <3>2, Constants DEF P!Stale
    <3> QED BY <1>3, <3>2, <3>3, Constants
  <2>3. PICK r : r = [o EXCEPT !.pc = q, !.copy = held]
    OBVIOUS
  <2>4. r \in Probe /\ r.pc = q /\ r.t = o.t /\ r.copy = held
    BY <1>1, <1>3, <2>3 DEF Probe
  <2>5. P!Step(d, r)
    BY <2>1, <2>3
  <2> QED BY <1>1, <1>4, <2>1, <2>2, <2>4, <2>5, OneProbeMoves
<1>9. CASE P!Fetch(d)
  <2>1. held' = held
    BY <1>9 DEF P!Fetch
  <2>2. CASE P!Step(d, idle)
    BY <1>1, <1>6, <2>1, <2>2, OneProbeMoves
  <2>3. CASE P!Step(d, [o EXCEPT !.pc = "ask", !.note = TRUE])
    <3>1. PICK r : r = [o EXCEPT !.pc = "ask", !.note = TRUE]
      OBVIOUS
    <3>2. r \in Probe /\ r.pc = "ask" /\ r.t = o.t /\ r.note = TRUE
      BY <1>3, <3>1 DEF Probe
    <3>3. P!Step(d, r)
      BY <2>3, <3>1
    <3> QED BY <1>1, <1>4, <2>1, <3>2, <3>3, OneProbeMoves
  <2>4. CASE P!Step(d, [o EXCEPT !.pc = "store",
                                     !.copy = [fetched |-> None, asOf |-> probeNow]])
    <3>1. PICK v : v = [fetched |-> None, asOf |-> probeNow]
      OBVIOUS
    <3>2. v \in Copy /\ v.asOf = probeNow
      BY <1>1, <3>1 DEF Copy, Stamped
    <3>3. PICK r : r = [o EXCEPT !.pc = "store", !.copy = v]
      OBVIOUS
    <3>4. r \in Probe /\ r.pc = "store" /\ r.t = o.t /\ r.copy = v
      BY <1>3, <3>2, <3>3 DEF Probe
    <3>5. P!Step(d, r)
      BY <2>4, <3>1, <3>3
    <3> QED BY <1>1, <1>4, <2>1, <3>2, <3>4, <3>5, OneProbeMoves
  <2> QED BY <1>2, <1>6, <1>9, <2>2, <2>3, <2>4 DEF P!Fetch
<1>10. CASE P!Store(d)
  <2>1. PICK v : v = [o.copy EXCEPT !.fetched = o.t]
    OBVIOUS
  <2>2. PICK r : r = [o EXCEPT !.pc = "ask", !.copy = v]
    OBVIOUS
  <2>3. o.pc = "store" /\ held' = v /\ P!Step(d, r)
    BY <1>2, <1>10, <2>1, <2>2 DEF P!Store
  <2>4. v.asOf = o.copy.asOf /\ v.fetched = o.t /\ v.asOf \in Nat
    BY <1>3, <2>1 DEF Copy
  <2>5. v \in [fetched : {None} \cup Nat, asOf : Nat]
    BY <1>3, <2>1 DEF Copy
  <2>6. v \in Copy
    BY <1>3, <1>4, <2>3, <2>4, <2>5 DEF Copy, Stamped
  <2>7. r \in Probe /\ r.pc = "ask" /\ r.t = o.t /\ r.copy = v
    BY <1>3, <2>2, <2>6 DEF Probe
  <2>8. r.t - r.copy.asOf < TTL
    BY <1>3, <1>4, <2>3, <2>4, <2>7, Constants
  <2> QED BY <1>4, <2>3, <2>6, <2>7, <2>8, OneProbeMoves
<1>11. CASE P!Ask(d)
  <2>1. P!Step(d, idle) /\ held' = held
    BY <1>6, <1>11 DEF P!Ask
  <2> QED BY <1>1, <1>6, <2>1, OneProbeMoves
<1> QED BY <1>7, <1>8, <1>9, <1>10, <1>11

(* Every step keeps the invariant: time only grows, and what is not a domain *)
(* probe leaves the cache alone.                                             *)
LEMMA CacheKept == CacheInv /\ [MCNext]_allVars => CacheInv'
<1> SUFFICES ASSUME CacheInv, [MCNext]_allVars PROVE CacheInv'
  OBVIOUS
<1>1. ASSUME UNCHANGED <<held, dom>>, probeNow' \in Nat, probeNow <= probeNow'
      PROVE  CacheInv'
  <2>1. ASSUME NEW d \in Domains PROVE ProbeInv(d)'
    <3>1. ProbeInv(d) /\ probeNow \in Nat
      BY DEF CacheInv
    <3>2. dom'[d] = dom[d] /\ dom[d].t \in Nat
      BY <1>1, <3>1 DEF ProbeInv, Probe
    <3>3. dom[d].t <= probeNow'
      BY <1>1, <3>1, <3>2 DEF ProbeInv
    <3> QED BY <3>1, <3>2, <3>3 DEF ProbeInv
  <2> QED BY <1>1, <2>1 DEF CacheInv
<1>2. CASE UNCHANGED probeVars
  BY <1>1, <1>2 DEF probeVars, CacheInv
<1>3. CASE P!Tick
  BY <1>1, <1>3 DEF P!Tick, CacheInv
<1>4. CASE P!Renew
  BY <1>1, <1>4 DEF P!Renew, CacheInv
<1>5. ASSUME NEW r, P!Say(r) PROVE CacheInv'
  BY <1>1, <1>5 DEF P!Say, CacheInv
<1>6. CASE P!Connect
  BY <1>5, <1>6 DEF P!Connect
<1>7. CASE P!SMTPLine
  <2>1. \E r : P!Say(r)
    BY <1>7 DEF P!SMTPLine
  <2> QED BY <1>5, <2>1
<1>8. CASE P!IMAPLine
  <2>1. \E r : P!Say(r)
    BY <1>8 DEF P!IMAPLine
  <2> QED BY <1>5, <2>1
<1>9. CASE P!Hangup
  BY <1>5, <1>9 DEF P!Hangup
<1>10. CASE \E d \in Domains : P!ReadClock(d) \/ P!ReadCache(d) \/ P!Fetch(d) \/ P!Store(d) \/ P!Ask(d)
  BY <1>10, ProbeKeepsCache
<1> QED BY <1>2, <1>3, <1>4, <1>6, <1>7, <1>8, <1>9, <1>10, ProbesStep DEF P!Next

(* A domain probe that does not note the age of the bootstrap file looks its *)
(* registry up in one younger than rdapBootstrapTTL: rdapBase stamps the     *)
(* file with the clock read before the fetch, so that any number of probes   *)
(* that fetch and store over one another never make an old file look new.    *)
THEOREM BootstrapIsFresh == MCSpec => []BootstrapFresh
<1>1. CacheInv => BootstrapFresh
  BY DEF CacheInv, ProbeInv, BootstrapFresh, P!BootstrapFresh
<1> QED BY <1>1, CacheStarts, CacheKept, PTL DEF MCSpec, allVars

-----------------------------------------------------------------------------
(* Alarms *)

Certificate == [nb : Int, na : Int, chainUntil : Int]
Date == [on : {None} \cup Int, lapsed : BOOLEAN]

(* What is judged are dates. *)
JudgedInv == probeNow \in Nat /\ cert \in Certificate /\ date \in Date

(* Every certificate and date that may be served is one. *)
LEMMA JudgedServed ==
    ASSUME NEW t \in Nat
    PROVE  P!Certificates(t) \subseteq Certificate /\ P!Dates(t) \subseteq Date
<1>1. P!Certificates(t) \subseteq Certificate
  BY Constants DEF P!Certificates, Certificate
<1>2. t + WarnDays * Day + 2 \in Int
  BY Constants
<1>3. P!Dates(t) \subseteq Date
  BY <1>2 DEF P!Dates, Date
<1> QED BY <1>1, <1>3

LEMMA JudgedStarts == MCInit => JudgedInv
<1> SUFFICES ASSUME MCInit PROVE JudgedInv
  OBVIOUS
<1>1. /\ probeNow = 0
      /\ cert \in P!Certificates(0) \/ cert = [nb |-> 0, na |-> 0, chainUntil |-> 0]
      /\ date \in P!Dates(0) \/ date = [on |-> None, lapsed |-> FALSE]
  BY DEF MCInit, P!Init, P!Fresh
<1>2. [nb |-> 0, na |-> 0, chainUntil |-> 0] \in Certificate /\ [on |-> None, lapsed |-> FALSE] \in Date
  BY DEF Certificate, Date
<1>3. P!Certificates(0) \subseteq Certificate /\ P!Dates(0) \subseteq Date
  BY JudgedServed
<1> QED BY <1>1, <1>2, <1>3 DEF JudgedInv

(* A step replaces the certificate or the date, or lets a unit of time pass, *)
(* or changes nothing that is judged.                                        *)
LEMMA JudgedMoves ==
    ASSUME JudgedInv, [MCNext]_allVars
    PROVE  /\ JudgedInv'
           /\ probeNow' = probeNow \/ (probeNow' = probeNow + 1 /\ UNCHANGED <<cert, date>>)
<1>1. CASE UNCHANGED <<probeNow, cert, date>>
  BY <1>1 DEF JudgedInv
<1>2. CASE UNCHANGED probeVars
  BY <1>1, <1>2 DEF probeVars
<1>3. CASE P!Tick
  BY <1>3 DEF P!Tick, JudgedInv
<1>4. CASE P!Renew
  <2>1. /\ probeNow' = probeNow
        /\ cert' = cert \/ cert' \in P!Certificates(probeNow)
        /\ date' = date \/ date' \in P!Dates(probeNow)
    BY <1>4 DEF P!Renew
  <2>2. P!Certificates(probeNow) \subseteq Certificate /\ P!Dates(probeNow) \subseteq Date
    BY JudgedServed DEF JudgedInv
  <2> QED BY <2>1, <2>2 DEF JudgedInv
<1>5. ASSUME NEW r, P!Say(r) PROVE UNCHANGED <<probeNow, cert, date>>
  BY <1>5 DEF P!Say
<1>6. CASE P!Connect \/ P!SMTPLine \/ P!IMAPLine \/ P!Hangup
  <2>1. \E r : P!Say(r)
    BY <1>6 DEF P!Connect, P!SMTPLine, P!IMAPLine, P!Hangup
  <2> QED BY <1>1, <1>5, <2>1
<1>7. ASSUME NEW d, NEW r, P!Step(d, r) PROVE UNCHANGED <<probeNow, cert, date>>
  BY <1>7 DEF P!Step
<1>8. CASE \E d \in Domains : P!ReadClock(d) \/ P!ReadCache(d) \/ P!Fetch(d) \/ P!Store(d) \/ P!Ask(d)
  <2>1. \E d, r : P!Step(d, r)
    BY <1>8 DEF P!ReadClock, P!ReadCache, P!Fetch, P!Store, P!Ask
  <2> QED BY <1>1, <1>7, <2>1
<1> QED BY <1>2, <1>3, <1>4, <1>6, <1>8, ProbesStep DEF P!Next

(* The greater and the lesser of two integers. *)
LEMMA Extremes ==
    ASSUME NEW a \in Int, NEW b \in Int
    PROVE  /\ P!Max({a, b}) = IF a >= b THEN a ELSE b
           /\ P!Min({a, b}) = IF a <= b THEN a ELSE b
<1>1. PICK m \in {a, b} : (\A y \in {a, b} : m >= y) /\ m = P!Max({a, b})
  BY DEF P!Max
<1>2. PICK k \in {a, b} : (\A y \in {a, b} : k <= y) /\ k = P!Min({a, b})
  BY DEF P!Min
<1>3. P!Max({a, b}) = IF a >= b THEN a ELSE b
  BY <1>1
<1>4. P!Min({a, b}) = IF a <= b THEN a ELSE b
  BY <1>2
<1> QED BY <1>3, <1>4

(* The moment at which a chain is judged does not move back. *)
LEMMA ClampGrows ==
    ASSUME NEW t \in Int, NEW lo \in Int, NEW hi \in Int
    PROVE  /\ P!Clamp(t, lo, hi) \in Int /\ P!Clamp(t + 1, lo, hi) \in Int
           /\ P!Clamp(t, lo, hi) <= P!Clamp(t + 1, lo, hi)
<1>1. ASSUME NEW u \in Int
      PROVE  P!Clamp(u, lo, hi) = LET m == IF u <= hi THEN u ELSE hi IN IF lo >= m THEN lo ELSE m
  <2>1. P!Min({u, hi}) = IF u <= hi THEN u ELSE hi
    BY Extremes
  <2>2. P!Min({u, hi}) \in Int
    BY <2>1
  <2>3. P!Max({lo, P!Min({u, hi})}) = IF lo >= P!Min({u, hi}) THEN lo ELSE P!Min({u, hi})
    BY <2>2, Extremes
  <2> QED BY <2>1, <2>3 DEF P!Clamp
<1>2. t + 1 \in Int
  OBVIOUS
<1>3. /\ P!Clamp(t, lo, hi) = LET m == IF t <= hi THEN t ELSE hi IN IF lo >= m THEN lo ELSE m
      /\ P!Clamp(t + 1, lo, hi) = LET m == IF t + 1 <= hi THEN t + 1 ELSE hi IN IF lo >= m THEN lo ELSE m
  BY <1>1, <1>2
<1> QED BY <1>3

(* A certificate that fails at t fails at t + 1: "soon" and "renewal" end    *)
(* only where "expired" begins.                                              *)
LEMMA CertificateStaysFailed ==
    ASSUME NEW c \in Certificate, NEW t \in Nat, P!CertProblems(c, t) \ {"early"} # {}
    PROVE  P!CertProblems(c, t + 1) \ {"early"} # {}
<1>1. PICK nb \in Int, na \in Int, until \in Int : c.nb = nb /\ c.na = na /\ c.chainUntil = until
  BY DEF Certificate
<1>2. PICK warn \in Int : warn = WarnDays * Day
  BY Constants
<1>3. PICK due : due = P!RenewalDue(c) + P!RenewalGrace(c)
  OBVIOUS
<1>4. due \in Int
  <2>1. (na - nb) * Num \in Int
    BY Constants
  <2>2. \A x \in Int : x \div Den \in Int
    BY Constants
  <2>3. P!RenewalDue(c) \in Int
    BY <1>1, <2>1, <2>2 DEF P!RenewalDue
  <2>4. (na - nb) \div 10 \in Int /\ RenewalGraceMax \in Int
    BY Constants
  <2>5. P!RenewalGrace(c) \in Int
    BY <1>1, <2>4, Extremes DEF P!RenewalGrace
  <2> QED BY <1>3, <2>3, <2>5
<1>5. PICK at \in Int, later \in Int :
        at <= later /\ at = P!Clamp(t, nb, na) /\ later = P!Clamp(t + 1, nb, na)
  <2>1. /\ P!Clamp(t, nb, na) \in Int /\ P!Clamp(t + 1, nb, na) \in Int
        /\ P!Clamp(t, nb, na) <= P!Clamp(t + 1, nb, na)
    <3>1. t \in Int
      OBVIOUS
    <3> QED BY <3>1, ClampGrows, Zenon
  <2> QED BY <2>1
<1>6. ASSUME NEW u \in Int
      PROVE  P!CertProblems(c, u) \ {"early"} # {}
             <=> \/ u >= nb /\ (na - u <= 0 \/ na - u <= warn)
                 \/ Num > 0 /\ na > nb /\ na - u > 0 /\ u >= nb /\ u > due
                 \/ P!Clamp(u, nb, na) > until
  <2> DEFINE renewal == Num > 0 /\ na > nb /\ na - u > 0 /\ u >= nb /\ u > due
             chain == P!Clamp(u, nb, na) > until
             dates == IF u < nb THEN {"early"} ELSE IF na - u <= 0 THEN {"expired"}
                      ELSE IF na - u <= warn THEN {"soon"} ELSE {}
  <2>1. P!CertProblems(c, u) = dates \cup (IF renewal THEN {"renewal"} ELSE {})
                                     \cup (IF chain THEN {"chain"} ELSE {})
    BY <1>1, <1>2, <1>3, Zenon DEF P!CertProblems
  <2>2. dates \ {"early"} # {} <=> u >= nb /\ (na - u <= 0 \/ na - u <= warn)
    OBVIOUS
  <2> HIDE DEF dates, renewal, chain
  <2>3. P!CertProblems(c, u) \ {"early"} # {} <=> dates \ {"early"} # {} \/ renewal \/ chain
    BY <2>1
  <2> QED BY <2>2, <2>3 DEF renewal, chain
<1>7. \/ t >= nb /\ (na - t <= 0 \/ na - t <= warn)
      \/ Num > 0 /\ na > nb /\ na - t > 0 /\ t >= nb /\ t > due
      \/ at > until
  BY <1>5, <1>6
<1>8. \/ t + 1 >= nb /\ (na - (t + 1) <= 0 \/ na - (t + 1) <= warn)
      \/ Num > 0 /\ na > nb /\ na - (t + 1) > 0 /\ t + 1 >= nb /\ t + 1 > due
      \/ later > until
  BY <1>4, <1>5, <1>7
<1>9. t + 1 \in Int
  OBVIOUS
<1> QED BY <1>5, <1>6, <1>8, <1>9

(* So does a registration or a configured date. *)
LEMMA DateStaysFailed ==
    ASSUME NEW d \in Date, NEW t \in Nat, P!CheckDomain(d, t) # {}
    PROVE  P!CheckDomain(d, t + 1) # {}
<1>1. PICK warn \in Int : warn = WarnDays * Day
  BY Constants
<1>2. CASE d.on = None \/ d.lapsed
  BY <1>2 DEF P!CheckDomain
<1>3. CASE d.on # None /\ ~d.lapsed
  <2>1. d.on \in Int
    BY <1>3 DEF Date
  <2>2. d.on - t <= 0 \/ d.on - t <= warn
    BY <1>1, <1>3 DEF P!CheckDomain, P!JudgeExpiry
  <2>3. d.on - (t + 1) <= 0 \/ d.on - (t + 1) <= warn
    BY <2>1, <2>2
  <2> QED BY <1>1, <1>3, <2>3 DEF P!CheckDomain, P!JudgeExpiry
<1> QED BY <1>2, <1>3

(* An alarm holds until its cause is replaced: what checkCertificate,        *)
(* judgeExpiry and checkDomain fail at one moment they fail at every later   *)
(* one, for every lifetime, warning window, renewal fraction and chain, so   *)
(* that no recovery is reported of a certificate that nobody renewed.        *)
THEOREM AlarmsHold == MCSpec => AlarmHolds
<1>1. JudgedInv /\ [MCNext]_allVars
      => [ /\ (cert' = cert /\ P!Problems(probeNow).tls # {}) => P!Problems(probeNow)'.tls # {}
           /\ (date' = date /\ P!Problems(probeNow).domain # {}) => P!Problems(probeNow)'.domain # {} ]_(P!vars)
  <2> SUFFICES ASSUME JudgedInv, [MCNext]_allVars
               PROVE  /\ (cert' = cert /\ P!Problems(probeNow).tls # {})
                            => P!Problems(probeNow)'.tls # {}
                      /\ (date' = date /\ P!Problems(probeNow).domain # {})
                            => P!Problems(probeNow)'.domain # {}
    OBVIOUS
  <2>1. probeNow' = probeNow \/ probeNow' = probeNow + 1
    BY JudgedMoves
  <2>2. probeNow \in Nat /\ cert \in Certificate /\ date \in Date
    BY DEF JudgedInv
  <2>3. ASSUME cert' = cert, P!Problems(probeNow).tls # {} PROVE P!Problems(probeNow)'.tls # {}
    BY <2>1, <2>2, <2>3, CertificateStaysFailed DEF P!Problems
  <2>4. ASSUME date' = date, P!Problems(probeNow).domain # {} PROVE P!Problems(probeNow)'.domain # {}
    BY <2>1, <2>2, <2>4, DateStaysFailed DEF P!Problems
  <2> QED BY <2>3, <2>4
<1>2. JudgedInv /\ [MCNext]_allVars => JudgedInv'
  BY JudgedMoves
<1> QED BY <1>1, <1>2, JudgedStarts, PTL DEF MCSpec, AlarmHolds, P!AlarmHolds, allVars
=============================================================================
