------------------------------ MODULE PingLog ------------------------------
(***************************************************************************)
(* The ping log of one heartbeat (table heartbeat_pings): what             *)
(* recordHeartbeatPing appends, which start a completion is paired with    *)
(* for its duration, how the log is held to its entry and byte budgets in  *)
(* the same transaction, and what the retention sweep removes.  A ping is  *)
(* stamped when it arrives and appended when it is recorded, so the stamps *)
(* of the log are not in the order of its ids.                             *)
(***************************************************************************)
EXTENDS FiniteSetsExt

CONSTANTS
    LogRids,     \* run ids a ping may carry; "" is one of them
    Sizes,       \* body sizes (body_bytes)
    MaxRun,      \* heartbeat.MaxRunDuration
    MaxPings,    \* maxPingsPerHeartbeat
    MaxBytes,    \* maxPingLogBytes
    MaxId,       \* bound: pings recorded
    LogMaxTime   \* bound: the clock

ASSUME BudgetAssumption == MaxPings \in Nat \ {0} /\ MaxBytes \in Nat /\ MaxRun \in Nat
\* MaxPingBodyLimit is far below the byte budget of the log.
ASSUME SizesAssumption == Sizes \subseteq 0..MaxBytes
ASSUME BoundsAssumption == MaxId \in Nat /\ LogMaxTime \in Nat

VARIABLES
    log,      \* the entries, a set of records with distinct ids
    nextId,   \* AUTOINCREMENT
    logNow,   \* the clock
    deleted,  \* the heartbeat is deleted
    pairs     \* history: <<id of a start, id of the completion paired with it>>

logVars == <<log, nextId, logNow, deleted, pairs>>

LogKinds == {"success", "start", "fail", "log"}
Entry == [id : 1..MaxId, kind : LogKinds, rid : LogRids, at : 0..LogMaxTime, bytes : Sizes]
Ends(kind) == kind \in {"success", "fail"}

-----------------------------------------------------------------------------
(* runDuration: the latest entry (by id) with that rid inside the window.  *)

InWindow(rid, at) ==
    {e \in log : e.rid = rid /\ e.kind # "log" /\ e.at >= at - MaxRun}

\* Not part of the specification: looks for a start only, whatever came after it.
PairedStartAnyway(kind, rid, at) ==
    {e \in log : /\ Ends(kind) /\ e.kind = "start" /\ e.rid = rid
                 /\ e.at >= at - MaxRun /\ e.at <= at}

PairedStart(kind, rid, at) ==
    {e \in InWindow(rid, at) : /\ Ends(kind)
                               /\ \A f \in InWindow(rid, at) : f.id <= e.id
                               /\ e.kind = "start"
                               /\ e.at <= at}

-----------------------------------------------------------------------------
(* The two trims.                                                          *)

\* DELETE ... WHERE id <= (the id at OFFSET maxPingsPerHeartbeat, newest first)
TrimEntries(entries) ==
    LET cut == {e \in entries : Cardinality({f \in entries : f.id > e.id}) = MaxPings}
    IN  {e \in entries : \A c \in cut : e.id > c.id}

Bytes(entries) == MapThenSumSet(LAMBDA e : e.bytes, entries)

\* Not part of the specification: kept >= budget instead of kept > budget.
TrimBytesEarly(entries) ==
    LET over == {e \in entries : Bytes({f \in entries : f.id >= e.id}) >= MaxBytes}
    IN  {e \in entries : \A c \in over : e.id > c.id}

\* DELETE ... WHERE id <= (the newest id whose running sum is over the budget)
TrimBytes(entries) ==
    LET over == {e \in entries : Bytes({f \in entries : f.id >= e.id}) > MaxBytes}
    IN  {e \in entries : \A c \in over : e.id > c.id}

-----------------------------------------------------------------------------
\* recordHeartbeatPing, for a ping that arrived at `at`: pair, insert, trim
LogPing(kind, rid, at, bytes) ==
    /\ ~deleted /\ nextId <= MaxId /\ at <= logNow
    /\ LET entry == [id |-> nextId, kind |-> kind, rid |-> rid, at |-> at, bytes |-> bytes]
       IN  log' = TrimBytes(TrimEntries(log \cup {entry}))
    /\ pairs' = pairs \cup {<<s.id, nextId>> : s \in PairedStart(kind, rid, at)}
    /\ nextId' = nextId + 1
    /\ UNCHANGED <<logNow, deleted>>

\* pruneHeartbeatPings: the retention sweep, by stamp
Prune(before) ==
    /\ log' = {e \in log : e.at >= before}
    /\ UNCHANGED <<nextId, logNow, deleted, pairs>>

\* DeleteHeartbeat removes the log; nothing is recorded for the id afterwards.
Delete ==
    /\ ~deleted /\ deleted' = TRUE
    /\ log' = {}
    /\ UNCHANGED <<nextId, logNow, pairs>>

LogPass == logNow < LogMaxTime /\ logNow' = logNow + 1 /\ UNCHANGED <<log, nextId, deleted, pairs>>

LogInit == log = {} /\ nextId = 1 /\ logNow = 0 /\ deleted = FALSE /\ pairs = {}

LogNext ==
    \/ \E kind \in LogKinds, rid \in LogRids, at \in 0..LogMaxTime, bytes \in Sizes : LogPing(kind, rid, at, bytes)
    \/ \E before \in 0..LogMaxTime : before <= logNow /\ Prune(before)
    \/ Delete
    \/ LogPass

LogSpec == LogInit /\ [][LogNext]_logVars

-----------------------------------------------------------------------------
(* Properties.                                                             *)

\* runDuration: "each start is paired once".  No two completions are given the
\* duration since the same start, although entries are stamped out of order,
\* trimmed by id and pruned by stamp.
PairedOnce == \A p, q \in pairs : p[1] = q[1] => p = q

LogBounded == Cardinality(log) <= MaxPings /\ Bytes(log) <= MaxBytes

KeepsNewestThatFit ==
    nextId' # nextId =>
        LET dropped == {e \in log : e \notin log'}
        IN  /\ \E e \in log' : e.id = nextId
            /\ LogBounded'
            /\ \A d \in dropped, e \in log' : d.id < e.id
            /\ \A d \in dropped : (\A c \in dropped : c.id <= d.id) =>
                    Cardinality(log' \cup {d}) > MaxPings \/ Bytes(log' \cup {d}) > MaxBytes

\* "Keep the heartbeat's newest maxPingsPerHeartbeat entries, and of those only
\* as many as fit": recording keeps the new ping, leaves the log within both
\* budgets ("a client pinging flat out cannot fill the disk between two sweeps"),
\* drops only entries older than every one it keeps, and drops none that would
\* still have fitted.
TrimsToBudget == [][KeepsNewestThatFit]_logVars

\* Every variable has its type.
LogTypeOK ==
    /\ log \subseteq Entry
    /\ nextId \in 1..(MaxId + 1) /\ logNow \in 0..LogMaxTime /\ deleted \in BOOLEAN
    /\ pairs \subseteq (1..MaxId) \X (1..MaxId)

\* What makes PairedOnce inductive: while a paired start is in the log, so is
\* the completion it is paired with, after it, with its rid and no older stamp.
PairInv ==
    /\ \A e, f \in log : e.id = f.id => e = f
    /\ \A e \in log : e.id < nextId
    /\ \A p \in pairs : p[1] < nextId /\ p[2] < nextId
    /\ \A p \in pairs : \A s \in log : s.id = p[1] =>
            \E c \in log : /\ c.id = p[2] /\ c.id > s.id
                           /\ c.rid = s.rid /\ Ends(c.kind) /\ c.at >= s.at
=============================================================================
