---------------------------- MODULE RunnerProofs ----------------------------
(***************************************************************************)
(* Proofs, for every set of jobs, workers, `tend run` processes and        *)
(* clients, every number of runs, limits and slack, and every bound on     *)
(* faults and crashes, of the safety properties of module Runner, and that *)
(* Runner implements RunLifecycle.                                         *)
(***************************************************************************)
EXTENDS Runner, TLAPS

USE JobsAssumption, RunsAssumption, LimitsAssumption, SlackAssumption, ClaimantAssumption,
    ProcsAssumption, TriesAssumption, DelayAssumption, BoundsAssumption, KindsAssumption
    DEF NoJob, NoRun

TypeInv == TypeOK /\ CopiesInv

\* What a client will write back is a row (reconcileJobs, setJobEnabledCore).
LEMMA RowsToWriteAreRows ==
    ASSUME NEW op, NEW row \in Row
    PROVE  RowsToWrite(op, row) \subseteq Row
<1>1. CASE op = "enable"
  BY <1>1 DEF RowsToWrite, Row
<1>2. CASE op = "disable"
  BY <1>2 DEF RowsToWrite, Row
<1>3. CASE op = "sync"
  BY <1>3 DEF RowsToWrite, Row, Kinds
<1>4. CASE op \notin {"enable", "disable", "sync"}
  BY <1>4 DEF RowsToWrite
<1> QED BY <1>1, <1>2, <1>3, <1>4

\* A row that exists is a row.
LEMMA ExistingIsRow ==
    ASSUME StoreTypeOK, NEW j \in Jobs, Exists(j)
    PROVE  job[j] \in Row
BY DEF StoreTypeOK, Exists

\* The limit of a row is a natural number, as the arithmetic of the reaper needs.
LEMMA RowLimit ==
    ASSUME NEW row \in Row
    PROVE  row.limit \in Nat /\ row.limit <= MaxLimit
<1>1. row.limit \in Limits
  BY DEF Row
<1>2. row.limit \in 0..MaxLimit
  BY <1>1
<1> QED BY <1>2

\* The empty database with nothing running has its types.
LEMMA TypeInit == Init => TypeInv
<1> SUFFICES ASSUME Init PROVE TypeInv
  OBVIOUS
<1>1. StoreTypeOK
  BY DEF Init, StoreInit, StoreTypeOK, RunIds, Statuses
<1>2. ProcTypeOK /\ TickTypeOK /\ ReapTypeOK /\ ClientTypeOK
  BY DEF Init, ProcTypeOK, TickTypeOK, ReapTypeOK, ClientTypeOK, RunIds
<1>3. up \in BOOLEAN /\ faults \in Nat /\ crashes \in Nat
  BY DEF Init
<1>4. CopiesInv
  BY DEF Init, CopiesInv
<1> QED BY <1>1, <1>2, <1>3, <1>4 DEF TypeInv, TypeOK

\* A step that leaves a group of variables alone keeps its types.
LEMMA StoreFrame == StoreTypeOK /\ UNCHANGED storeVars => StoreTypeOK'
BY DEF StoreTypeOK, storeVars, jobVars, runVars

\* The same for the workers.
LEMMA ProcFrame == ProcTypeOK /\ UNCHANGED procVars => ProcTypeOK'
BY DEF ProcTypeOK, procVars

\* The same for the scheduler.
LEMMA TickFrame == TickTypeOK /\ UNCHANGED tickVars => TickTypeOK'
BY DEF TickTypeOK, tickVars

\* The same for the reaper.
LEMMA ReapFrame == ReapTypeOK /\ UNCHANGED reapVars => ReapTypeOK'
BY DEF ReapTypeOK, reapVars

\* The same for the clients.
LEMMA ClientFrame == ClientTypeOK /\ UNCHANGED clientVars => ClientTypeOK'
BY DEF ClientTypeOK, clientVars

\* The same for the rows kept in memory.
LEMMA CopiesFrame == CopiesInv /\ UNCHANGED <<tickVars, clientVars>> => CopiesInv'
BY DEF CopiesInv, tickVars, clientVars

\* A store call, failed or not, counts its failures.
LEMMA FaultType == faults \in Nat /\ (Fault \/ NoFault) => faults' \in Nat
BY DEF Fault, NoFault

\* EnqueueRun keeps the types of the run table.
LEMMA EnqueueType ==
    ASSUME StoreTypeOK, NEW j \in Jobs \cup {NoJob}, NEW b \in BOOLEAN,
           EnqueueRun(j, b), UNCHANGED job
    PROVE  StoreTypeOK'
BY DEF StoreTypeOK, EnqueueRun, Statuses, Live

\* FinishRunAndEmit and ReapStaleRun keep the types of the run table.
LEMMA EndRunType ==
    ASSUME StoreTypeOK, NEW r \in RunIds \cup {NoRun}, NEW o \in Statuses, EndRun(r, o), UNCHANGED job
    PROVE  StoreTypeOK'
BY DEF StoreTypeOK, EndRun, runVars

\* UpdateJob keeps the types of the job table.
LEMMA UpdateJobType ==
    ASSUME StoreTypeOK, NEW j, NEW row \in Row, UpdateJob(j, row), UNCHANGED runVars
    PROVE  StoreTypeOK'
BY DEF StoreTypeOK, UpdateJob, runVars

\* A worker that returns keeps its types.
LEMMA ReturnType ==
    ASSUME ProcTypeOK, NEW p \in Procs, NEW ok \in BOOLEAN, Return(p, ok)
    PROVE  ProcTypeOK'
BY DEF ProcTypeOK, Return

\* The scheduler keeps the types.
LEMMA TickType ==
    ASSUME TypeInv, Tick
    PROVE  TypeInv'
<1> USE DEF TypeInv, TypeOK
<1>1. CASE TickList
  <2>1. StoreTypeOK' /\ ProcTypeOK' /\ ReapTypeOK' /\ ClientTypeOK'
    BY <1>1, StoreFrame, ProcFrame, ReapFrame, ClientFrame DEF TickList
  <2>2. TickTypeOK'
    BY <1>1 DEF TickList, TickTypeOK, DueJobs, Exists, StoreTypeOK
  <2>3. ASSUME NEW j \in tickTodo' PROVE tickRow'[j] \in Row
    <3>1. j \in DueJobs /\ j \in Jobs /\ Exists(j)
      BY <1>1, <2>3 DEF TickList, DueJobs
    <3> QED BY <1>1, <3>1, ExistingIsRow DEF TickList
  <2>4. CopiesInv'
    <3>1. tickJob' = 0 /\ tickTodo' \subseteq Jobs
      BY <1>1, <2>2 DEF TickList, TickIdle, TickTypeOK
    <3>2. cOp' = cOp /\ cRow' = cRow
      BY <1>1 DEF TickList, clientVars
    <3> QED BY <2>3, <3>1, <3>2 DEF CopiesInv
  <2> QED BY <1>1, <2>1, <2>2, <2>4 DEF TickList
<1>2. ASSUME NEW j \in Jobs, TickEnqueue(j) PROVE TypeInv'
  <2>1. StoreTypeOK'
    BY <1>2, EnqueueType, StoreFrame DEF TickEnqueue, jobVars, storeVars
  <2>2. ProcTypeOK' /\ ReapTypeOK' /\ ClientTypeOK'
    BY <1>2, ProcFrame, ReapFrame, ClientFrame DEF TickEnqueue
  <2>3. TickTypeOK'
    BY <1>2 DEF TickEnqueue, TickTypeOK
  <2>4. CopiesInv'
    BY <1>2 DEF TickEnqueue, TickTypeOK, CopiesInv, clientVars
  <2>5. up' \in BOOLEAN /\ faults' \in Nat /\ crashes' \in Nat
    BY <1>2, FaultType DEF TickEnqueue
  <2> QED BY <2>1, <2>2, <2>3, <2>4, <2>5
<1>3. ASSUME NEW j \in Jobs, TickUnreadable(j) PROVE TypeInv'
  <2>1. StoreTypeOK'
    <3>1. CASE FailUnreadableJob(j)
      <4>1. job' \in [Jobs -> Row \cup {Unborn, Deleted}]
        BY <3>1, ExistingIsRow DEF FailUnreadableJob, StoreTypeOK, Row
      <4> QED BY <3>1, <4>1 DEF FailUnreadableJob, StoreTypeOK, Statuses, Terminal
    <3> QED BY <1>3, <3>1, StoreFrame DEF TickUnreadable
  <2>2. ProcTypeOK' /\ ReapTypeOK' /\ ClientTypeOK'
    BY <1>3, ProcFrame, ReapFrame, ClientFrame DEF TickUnreadable
  <2>3. TickTypeOK'
    BY <1>3 DEF TickUnreadable, TickTypeOK
  <2>4. CopiesInv'
    BY <1>3 DEF TickUnreadable, TickTypeOK, CopiesInv, clientVars
  <2>5. up' \in BOOLEAN /\ faults' \in Nat /\ crashes' \in Nat
    BY <1>3, FaultType DEF TickUnreadable
  <2> QED BY <2>1, <2>2, <2>3, <2>4, <2>5
<1>4. CASE TickAdvance
  <2>1. StoreTypeOK'
    <3> DEFINE new == [tickRow[tickJob] EXCEPT !.due = NextRunAfterFire(tickRow[tickJob].kind)]
    <3>1. new \in Row
      BY <1>4 DEF TickAdvance, CopiesInv, Row, NextRunAfterFire
    <3>2. UpdateJob(tickJob, new) \/ UNCHANGED job
      BY <1>4 DEF TickAdvance
    <3>3. UNCHANGED runVars
      BY <1>4 DEF TickAdvance
    <3> HIDE DEF new
    <3> QED BY <3>1, <3>2, <3>3, UpdateJobType, StoreFrame DEF storeVars, jobVars
  <2>2. ProcTypeOK' /\ ReapTypeOK' /\ ClientTypeOK'
    BY <1>4, ProcFrame, ReapFrame, ClientFrame DEF TickAdvance
  <2>3. TickTypeOK'
    BY <1>4 DEF TickAdvance, TickTypeOK
  <2>4. CopiesInv'
    BY <1>4 DEF TickAdvance, TickTypeOK, CopiesInv, clientVars
  <2>5. up' \in BOOLEAN /\ faults' \in Nat /\ crashes' \in Nat
    BY <1>4, FaultType DEF TickAdvance
  <2> QED BY <2>1, <2>2, <2>3, <2>4, <2>5
<1> QED BY <1>1, <1>2, <1>3, <1>4 DEF Tick

\* The workers keep the types.
LEMMA WorkerType ==
    ASSUME TypeInv, NEW p \in Procs, ClaimAndRun(p) \/ Stick(p)
    PROVE  TypeInv'
<1> USE DEF TypeInv, TypeOK
<1>1. TickTypeOK' /\ ReapTypeOK' /\ ClientTypeOK' /\ CopiesInv'
  BY TickFrame, ReapFrame, ClientFrame, CopiesFrame
  DEF ClaimAndRun, Claim, Load, ExecEnd, Finish, Stick
<1>2. up' \in BOOLEAN /\ crashes' \in Nat
  BY DEF ClaimAndRun, Claim, Load, ExecEnd, Finish, Stick
<1>3. faults' \in Nat
  BY FaultType DEF ClaimAndRun, Claim, Load, ExecEnd, Finish, Stick, NoFault
<1>4. CASE Claim(p)
  <2>1. PICK r \in RunIds : ClaimRun(r, Claimant(p)) /\ held' = [held EXCEPT ![p] = r]
    BY <1>4 DEF Claim
  <2>2. StoreTypeOK'
    BY <1>4, <2>1 DEF Claim, ClaimRun, Claimant, StoreTypeOK, jobVars, Statuses, Live
  <2>3. ProcTypeOK'
    BY <1>4, <2>1 DEF Claim, ProcTypeOK
  <2> QED BY <1>1, <1>2, <1>3, <2>2, <2>3
<1>5. CASE Load(p)
  <2>1. StoreTypeOK'
    BY <1>5, StoreFrame DEF Load
  <2>2. CASE Return(p, FALSE)
    BY <1>1, <1>2, <1>3, <2>1, <2>2, ReturnType
  <2>3. CASE ~Return(p, FALSE)
    <3>1. jobOf[held[p]] \in Jobs /\ Readable(jobOf[held[p]])
      BY <1>5, <2>3 DEF Load
    <3>2. job[jobOf[held[p]]] \in Row
      BY <3>1, ExistingIsRow DEF Readable
    <3>3. job[jobOf[held[p]]].limit \in Nat
      BY <3>2, RowLimit
    <3>4. ProcTypeOK'
      BY <1>5, <2>3, <3>3 DEF Load, ProcTypeOK
    <3> QED BY <1>1, <1>2, <1>3, <2>1, <3>4
  <2> QED BY <2>2, <2>3
<1>6. CASE ExecEnd(p)
  <2>1. StoreTypeOK' /\ ProcTypeOK'
    BY <1>6, StoreFrame DEF ExecEnd, ProcTypeOK
  <2> QED BY <1>1, <1>2, <1>3, <2>1
<1>7. CASE Stick(p)
  <2>1. StoreTypeOK' /\ ProcTypeOK'
    BY <1>7, StoreFrame DEF Stick, ProcTypeOK
  <2> QED BY <1>1, <1>2, <1>3, <2>1
<1>8. CASE Finish(p)
  <2>1. held[p] \in RunIds \cup {NoRun} /\ (result[p] \in Statuses \/ result[p] = "none")
    BY DEF ProcTypeOK, Statuses, Terminal
  <2>2. result[p] \in Statuses
    BY <2>1 DEF Statuses
  <2>3. UNCHANGED job /\ (UNCHANGED runVars \/ EndRun(held[p], result[p]))
    BY <1>8 DEF Finish, jobVars
  <2>4. StoreTypeOK'
    BY <2>1, <2>2, <2>3, EndRunType, StoreFrame DEF storeVars, jobVars
  <2>5. \/ \E ok \in BOOLEAN : Return(p, ok)
        \/ tries' = [tries EXCEPT ![p] = @ + 1] /\ UNCHANGED <<pc, held, limit, result, stuck>>
    BY <1>8 DEF Finish
  <2>6. ProcTypeOK'
    BY <2>5, ReturnType DEF ProcTypeOK
  <2> QED BY <1>1, <1>2, <1>3, <2>4, <2>6
<1> QED BY <1>4, <1>5, <1>6, <1>7, <1>8 DEF ClaimAndRun

\* The reaper keeps the types.
LEMMA ReapNextType ==
    ASSUME ReapTypeOK, NEW todo \in SUBSET RunIds, ReapNext(todo)
    PROVE  ReapTypeOK'
BY DEF ReapTypeOK, ReapNext

\* The reaper keeps the types.
LEMMA ReapType ==
    ASSUME TypeInv, ReapOnce
    PROVE  TypeInv'
<1> USE DEF TypeInv, TypeOK
<1>1. ProcTypeOK' /\ TickTypeOK' /\ ClientTypeOK' /\ CopiesInv'
  BY ProcFrame, TickFrame, ClientFrame, CopiesFrame
  DEF ReapOnce, ReapList, ReapLook, ReapLoad, ReapFail
<1>2. up' \in BOOLEAN /\ crashes' \in Nat /\ faults' \in Nat
  BY FaultType DEF ReapOnce, ReapList, ReapLook, ReapLoad, ReapFail, NoFault
<1>3. CASE ReapList
  <2>1. StoreTypeOK' /\ ReapTypeOK'
    BY <1>3, StoreFrame DEF ReapList, ReapTypeOK, StoreTypeOK
  <2> QED BY <1>1, <1>2, <2>1
<1>4. ASSUME NEW r \in RunIds, ReapLook(r) PROVE TypeInv'
  <2>1. StoreTypeOK'
    BY <1>4, StoreFrame DEF ReapLook
  <2>2. reapTodo \ {r} \in SUBSET RunIds
    BY DEF ReapTypeOK
  <2>3. ReapTypeOK'
    BY <1>4, <2>2, ReapNextType DEF ReapLook, ReapTypeOK
  <2> QED BY <1>1, <1>2, <2>1, <2>3
<1>5. reapTodo \ {reapRun} \in SUBSET RunIds
  BY DEF ReapTypeOK
<1>6. CASE ReapLoad
  <2>1. StoreTypeOK'
    BY <1>6, StoreFrame DEF ReapLoad
  <2>2. ReapTypeOK'
    BY <1>5, <1>6, ReapNextType DEF ReapLoad, ReapGoOn, ReapTypeOK
  <2> QED BY <1>1, <1>2, <2>1, <2>2
<1>7. CASE ReapFail
  <2>1. UNCHANGED job /\ (UNCHANGED runVars \/ EndRun(reapRun, "reaped"))
    BY <1>7 DEF ReapFail, jobVars
  <2>2. StoreTypeOK'
    BY <2>1, EndRunType, StoreFrame DEF storeVars, jobVars, ReapTypeOK, Statuses, Terminal
  <2>3. ReapTypeOK'
    BY <1>5, <1>7, ReapNextType DEF ReapFail, ReapGoOn
  <2> QED BY <1>1, <1>2, <2>2, <2>3
<1> QED BY <1>3, <1>4, <1>6, <1>7 DEF ReapOnce

\* Starts, crashes and `tend run` processes keep the types.
LEMMA ProcessType ==
    ASSUME TypeInv,
           \/ Start \/ Crash
           \/ \E m \in Manual : \/ \E j \in Jobs : ManualGet(m, j)
                               \/ ManualEnqueue(m) \/ DrainEnd(m) \/ ManualKilled(m)
    PROVE  TypeInv'
<1> USE DEF TypeInv, TypeOK
<1>1. CASE Start
  <2>1. TickTypeOK' /\ ReapTypeOK' /\ ClientTypeOK' /\ CopiesInv'
    BY <1>1, TickFrame, ReapFrame, ClientFrame, CopiesFrame DEF Start
  <2>2. StoreTypeOK'
    BY <1>1 DEF Start, RequeueOrphanedRuns, StoreTypeOK, jobVars, Statuses, Live
  <2>3. ProcTypeOK'
    BY <1>1 DEF Start, ProcTypeOK
  <2> QED BY <1>1, <2>1, <2>2, <2>3 DEF Start
<1>2. CASE Crash
  <2>1. StoreTypeOK' /\ ClientTypeOK'
    BY <1>2, StoreFrame, ClientFrame DEF Crash
  <2>2. ProcTypeOK'
    BY <1>2 DEF Crash, ProcTypeOK
  <2>3. TickTypeOK' /\ ReapTypeOK'
    BY <1>2 DEF Crash, TickTypeOK, ReapTypeOK
  <2>4. CopiesInv'
    BY <1>2 DEF Crash, CopiesInv, clientVars
  <2>5. up' = FALSE /\ faults' = faults /\ crashes' = crashes + 1
    BY <1>2 DEF Crash
  <2>6. up' \in BOOLEAN
    BY <2>5
  <2>7. faults' \in Nat /\ crashes' \in Nat
    BY <2>5
  <2> QED BY <2>1, <2>2, <2>3, <2>4, <2>6, <2>7
<1>3. ASSUME NEW m \in Manual, NEW j \in Jobs, ManualGet(m, j) PROVE TypeInv'
  <2>1. StoreTypeOK' /\ TickTypeOK' /\ ReapTypeOK'
    BY <1>3, StoreFrame, TickFrame, ReapFrame DEF ManualGet
  <2>2. ProcTypeOK' /\ ClientTypeOK'
    BY <1>3 DEF ManualGet, ProcTypeOK, ClientTypeOK, Procs
  <2>3. CopiesInv'
    BY <1>3 DEF ManualGet, CopiesInv, tickVars
  <2>4. UNCHANGED <<up, faults, crashes>>
    BY <1>3 DEF ManualGet
  <2> QED BY <2>1, <2>2, <2>3, <2>4
<1>4. ASSUME NEW m \in Manual, ManualEnqueue(m) PROVE TypeInv'
  <2>1. TickTypeOK' /\ ReapTypeOK'
    BY <1>4, TickFrame, ReapFrame DEF ManualEnqueue
  <2>2. StoreTypeOK'
    BY <1>4, EnqueueType DEF ManualEnqueue, ClientTypeOK, jobVars
  <2>3. ProcTypeOK' /\ ClientTypeOK'
    BY <1>4 DEF ManualEnqueue, ProcTypeOK, ClientTypeOK, Procs
  <2>4. CopiesInv'
    BY <1>4 DEF ManualEnqueue, CopiesInv, tickVars
  <2> QED BY <1>4, <2>1, <2>2, <2>3, <2>4 DEF ManualEnqueue
<1>5. ASSUME NEW m \in Manual, DrainEnd(m) PROVE TypeInv'
  <2>1. StoreTypeOK' /\ TickTypeOK' /\ ReapTypeOK' /\ ClientTypeOK' /\ CopiesInv'
    BY <1>5, StoreFrame, TickFrame, ReapFrame, ClientFrame, CopiesFrame DEF DrainEnd
  <2>2. ProcTypeOK' /\ faults' \in Nat
    BY <1>5, FaultType DEF DrainEnd, ProcTypeOK, Procs
  <2> QED BY <1>5, <2>1, <2>2 DEF DrainEnd
<1>6. ASSUME NEW m \in Manual, ManualKilled(m) PROVE TypeInv'
  <2>1. StoreTypeOK' /\ TickTypeOK' /\ ReapTypeOK'
    BY <1>6, StoreFrame, TickFrame, ReapFrame DEF ManualKilled
  <2>2. ProcTypeOK'
    BY <1>6, ReturnType DEF ManualKilled, Procs
  <2>3. ClientTypeOK' /\ CopiesInv'
    BY <1>6 DEF ManualKilled, ClientTypeOK, CopiesInv, tickVars
  <2> QED BY <1>6, <2>1, <2>2, <2>3 DEF ManualKilled
<1> QED BY <1>1, <1>2, <1>3, <1>4, <1>5, <1>6

\* Clients keep the types: a copy they write back is a row.
LEMMA ClientType ==
    ASSUME TypeInv, NEW c \in Clients,
           (\E j \in Jobs, op \in ClientOps : ClientRead(c, j, op)) \/ ClientWrite(c)
    PROVE  TypeInv'
<1> USE DEF TypeInv, TypeOK
<1>1. ASSUME NEW j \in Jobs, NEW op \in ClientOps, ClientRead(c, j, op) PROVE TypeInv'
  <2>1. StoreTypeOK' /\ ProcTypeOK' /\ TickTypeOK' /\ ReapTypeOK'
    BY <1>1, StoreFrame, ProcFrame, TickFrame, ReapFrame DEF ClientRead
  <2>2. job[j] \in Row
    BY <1>1, ExistingIsRow DEF ClientRead, Readable
  <2>3. PICK row \in Row : cRow' = [cRow EXCEPT ![c] = row]
    BY <1>1, <2>2, RowsToWriteAreRows DEF ClientRead
  <2>4. ClientTypeOK'
    BY <1>1, <2>3 DEF ClientRead, ClientTypeOK
  <2>5. CopiesInv'
    BY <1>1, <2>3 DEF ClientRead, ClientTypeOK, CopiesInv, tickVars
  <2> QED BY <1>1, <2>1, <2>4, <2>5 DEF ClientRead
<1>2. CASE ClientWrite(c)
  <2>1. ProcTypeOK' /\ TickTypeOK' /\ ReapTypeOK'
    BY <1>2, ProcFrame, TickFrame, ReapFrame DEF ClientWrite
  <2>2. StoreTypeOK'
    <3>1. cRow[c] \in Row /\ cJob[c] \in Jobs \cup {NoJob}
      BY <1>2 DEF ClientWrite, CopiesInv, ClientTypeOK
    <3> QED BY <1>2, <3>1, EnqueueType, UpdateJobType, StoreFrame DEF ClientWrite, jobVars
  <2>3. ClientTypeOK'
    BY <1>2 DEF ClientWrite, ClientTypeOK
  <2>4. CopiesInv'
    BY <1>2 DEF ClientWrite, ClientTypeOK, CopiesInv, tickVars
  <2> QED BY <1>2, <2>1, <2>2, <2>3, <2>4, FaultType DEF ClientWrite
<1> QED BY <1>1, <1>2

\* Creation, deletion, retention, hand edits and time keep the types.
LEMMA WorldType ==
    ASSUME TypeInv,
           \/ \E j \in Jobs : Create(j) \/ Delete(j) \/ Damage(j) \/ BecomeDue(j)
           \/ \E r \in RunIds : Prune(r)
           \/ Advance
    PROVE  TypeInv'
<1> USE DEF TypeInv, TypeOK
<1>1. UNCHANGED notStore
  BY DEF Create, Delete, Damage, BecomeDue, Prune, Advance
<1>2. ProcTypeOK' /\ TickTypeOK' /\ ReapTypeOK' /\ ClientTypeOK' /\ CopiesInv'
  BY <1>1, ProcFrame, TickFrame, ReapFrame, ClientFrame, CopiesFrame DEF notStore
<1>3. up' \in BOOLEAN /\ faults' \in Nat /\ crashes' \in Nat
  BY <1>1 DEF notStore
<1>4. ASSUME NEW j \in Jobs, Create(j) PROVE StoreTypeOK'
  <2>1. PICK row \in Row : CreateJob(j, row)
    BY <1>4 DEF Create, Row, Kinds, MustNextRun
  <2> QED BY <1>4, <2>1 DEF Create, CreateJob, StoreTypeOK, runVars
<1>5. ASSUME NEW j \in Jobs, Delete(j) PROVE StoreTypeOK'
  BY <1>5 DEF Delete, DeleteJob, StoreTypeOK, Statuses
<1>6. ASSUME NEW j \in Jobs, Damage(j) PROVE StoreTypeOK'
  <2>1. PICK k \in Damages : job' = [job EXCEPT ![j].kind = k]
    BY <1>6 DEF Damage
  <2>2. [job[j] EXCEPT !.kind = k] \in Row
    BY <1>6, <2>1, ExistingIsRow DEF Damage, Row, Kinds
  <2> QED BY <1>6, <2>1, <2>2 DEF Damage, StoreTypeOK, runVars
<1>7. ASSUME NEW j \in Jobs, BecomeDue(j) PROVE StoreTypeOK'
  <2>1. [job[j] EXCEPT !.due = "now"] \in Row
    BY <1>7, ExistingIsRow DEF BecomeDue, Row
  <2> QED BY <1>7, <2>1 DEF BecomeDue, StoreTypeOK, runVars
<1>8. ASSUME NEW r \in RunIds, Prune(r) PROVE StoreTypeOK'
  BY <1>8 DEF Prune, PruneJobRuns, StoreTypeOK, jobVars, Statuses
<1>9. ASSUME Advance PROVE StoreTypeOK'
  BY <1>9 DEF Advance, StoreTypeOK, jobVars
<1>10. StoreTypeOK'
  <2>1. CASE \E j \in Jobs : Create(j) \/ Delete(j) \/ Damage(j) \/ BecomeDue(j)
    BY <1>4, <1>5, <1>6, <1>7, <2>1
  <2> QED BY <1>8, <1>9, <2>1
<1> QED BY <1>2, <1>3, <1>10

\* Every step keeps the types.
LEMMA TypeStep == TypeInv /\ [Next]_vars => TypeInv'
<1> SUFFICES ASSUME TypeInv, [Next]_vars PROVE TypeInv'
  OBVIOUS
<1>1. CASE UNCHANGED vars
  <2>1. UNCHANGED <<storeVars, procVars, tickVars, reapVars, clientVars, up, faults, crashes>>
    BY <1>1 DEF vars, storeVars, jobVars, runVars, procVars, tickVars, reapVars, clientVars
  <2> QED BY <2>1, StoreFrame, ProcFrame, TickFrame, ReapFrame, ClientFrame, CopiesFrame
          DEF TypeInv, TypeOK
<1>2. CASE Next
  BY <1>2, TickType, WorkerType, ReapType, ProcessType, ClientType, WorldType DEF Next
<1> QED BY <1>1, <1>2

\* The type invariant: no interleaving of the scheduler, the workers, the
\* reaper, `tend run`, clients, crashes and faults stores anything but a row,
\* a run status or a claimant where one belongs.
THEOREM TypeCorrect == Spec => []TypeOK
<1>1. TypeInv => TypeOK
  BY DEF TypeInv
<1> QED BY <1>1, TypeInit, TypeStep, PTL DEF Spec

-----------------------------------------------------------------------------
(***************************************************************************)
(* One terminal event, one executor.  Apart from a claim, a step only lets *)
(* processes let go of the runs they have; apart from a restart, it leaves *)
(* a claimed run with its claimant until the run ends or is deleted.       *)
(***************************************************************************)
OnlyLetGo ==
    \A p \in Procs : Executing(p)' =>
        /\ Executing(p) /\ held'[p] = held[p]
        /\ pc'[p] = "finish" => result'[p] \in {"succeeded", "failed"}

StayClaimed ==
    \A r \in RunIds : status[r] \notin {"none", "pending"} =>
        /\ status'[r] \notin {"none", "pending"}
        /\ status'[r] = "running" => status[r] = "running" /\ claimedBy'[r] = claimedBy[r]

WorkersOff == ~up => \A w \in Workers : pc[w] = "off"

QueueInv == OneTerminalEvent /\ HeldInv /\ ExecutedByOne

\* When workers only let go of runs, and the runs still held stay claimed, HeldInv is kept.
LEMMA LetGoHeld ==
    ASSUME HeldInv, ExecutedByOne, OnlyLetGo, StayClaimed, WorkersOff'
    PROVE  HeldInv' /\ ExecutedByOne'
<1>1. ASSUME NEW p \in Procs, Executing(p)'
      PROVE  /\ held'[p] \in RunIds
             /\ status'[held'[p]] \notin {"none", "pending"}
             /\ status'[held'[p]] = "running" => claimedBy'[held'[p]] = Claimant(p)
             /\ pc'[p] = "finish" => result'[p] \in {"succeeded", "failed"}
  <2>1. Executing(p) /\ held'[p] = held[p]
    BY <1>1 DEF OnlyLetGo
  <2>2. held[p] \in RunIds /\ status[held[p]] \notin {"none", "pending"}
    BY <2>1 DEF HeldInv
  <2> QED BY <1>1, <2>1, <2>2 DEF OnlyLetGo, StayClaimed, HeldInv
<1>2. HeldInv'
  BY <1>1 DEF HeldInv, WorkersOff, Claimant
<1>3. ExecutedByOne'
  BY DEF OnlyLetGo, ExecutedByOne
<1> QED BY <1>2, <1>3

\* A step that leaves the workers alone only lets go.
LEMMA ProcKept ==
    ASSUME HeldInv, UNCHANGED <<pc, held, result>>
    PROVE  OnlyLetGo
BY DEF HeldInv, OnlyLetGo, Executing

\* A worker that returns only lets go of its run.
LEMMA ReturnLetsGo ==
    ASSUME ProcTypeOK, HeldInv, NEW p \in Procs, NEW ok \in BOOLEAN, Return(p, ok), UNCHANGED up
    PROVE  OnlyLetGo /\ ((p \in Workers /\ pc[p] # "off") \/ p \in Manual => WorkersOff')
<1>1. OnlyLetGo
  BY DEF ProcTypeOK, HeldInv, Return, OnlyLetGo, Executing
<1>2. (p \in Workers /\ pc[p] # "off") \/ p \in Manual => WorkersOff'
  BY DEF ProcTypeOK, HeldInv, Return, WorkersOff, Procs
<1> QED BY <1>1, <1>2

\* EnqueueRun leaves the runs in hand claimed as they are, and ends none.
LEMMA EnqueueKeeps ==
    ASSUME StoreTypeOK, OneTerminalEvent, NEW j, NEW b, EnqueueRun(j, b)
    PROVE  StayClaimed /\ OneTerminalEvent'
<1>1. PICK r \in RunIds : /\ status[r] = "none"
                          /\ status' = [status EXCEPT ![r] = "pending"]
                          /\ UNCHANGED <<claimedBy, terminals>>
  BY DEF EnqueueRun, NewRunId
<1>2. StayClaimed
  BY <1>1 DEF StoreTypeOK, StayClaimed
<1>3. OneTerminalEvent'
  BY <1>1 DEF StoreTypeOK, OneTerminalEvent, Live, Terminal
<1> QED BY <1>2, <1>3

\* FinishRunAndEmit and ReapStaleRun leave the claims alone and end a run once.
LEMMA EndRunKeeps ==
    ASSUME StoreTypeOK, OneTerminalEvent, NEW r \in RunIds, NEW o \in Terminal,
           EndRun(r, o) \/ UNCHANGED runVars
    PROVE  StayClaimed /\ OneTerminalEvent'
<1>1. CASE EndRun(r, o) /\ status[r] = "running"
  <2>1. /\ status' = [status EXCEPT ![r] = o] /\ terminals' = [terminals EXCEPT ![r] = @ + 1]
        /\ UNCHANGED claimedBy
    BY <1>1 DEF EndRun
  <2>2. StayClaimed
    BY <1>1, <2>1 DEF StoreTypeOK, StayClaimed, Terminal
  <2>3. terminals[r] = 0
    BY <1>1 DEF OneTerminalEvent, Live
  <2>4. OneTerminalEvent'
    BY <1>1, <2>1, <2>3 DEF StoreTypeOK, OneTerminalEvent, Live, Terminal
  <2> QED BY <2>2, <2>4
<1>2. CASE UNCHANGED runVars
  BY <1>2 DEF runVars, StayClaimed, OneTerminalEvent
<1> QED BY <1>1, <1>2 DEF EndRun

\* A step that leaves the run table alone keeps the claims and the events.
LEMMA RunsKept ==
    ASSUME OneTerminalEvent, UNCHANGED runVars
    PROVE  StayClaimed /\ OneTerminalEvent'
BY DEF runVars, StayClaimed, OneTerminalEvent

\* The scheduler never disturbs the queue invariant.
LEMMA TickQueue ==
    ASSUME TypeInv, QueueInv, Tick
    PROVE  QueueInv'
<1> USE DEF QueueInv
<1>0. StoreTypeOK /\ ProcTypeOK
  BY DEF TypeInv, TypeOK
<1>1. UNCHANGED <<pc, held, result, up>>
  BY DEF Tick, TickList, TickEnqueue, TickUnreadable, TickAdvance, procVars
<1>2. OnlyLetGo /\ WorkersOff'
  BY <1>1, ProcKept DEF HeldInv, WorkersOff
<1>3. ASSUME NEW j \in Jobs, FailUnreadableJob(j) PROVE StayClaimed /\ OneTerminalEvent'
  <2>1. PICK r \in RunIds : /\ status[r] = "none"
                            /\ status' = [status EXCEPT ![r] = "failed"]
                            /\ claimedBy' = [claimedBy EXCEPT ![r] = Serve]
                            /\ terminals' = [terminals EXCEPT ![r] = @ + 1]
    BY <1>3 DEF FailUnreadableJob, NewRunId
  <2>2. StayClaimed
    BY <1>0, <2>1 DEF StoreTypeOK, StayClaimed
  <2>3. terminals[r] = 0
    BY <2>1 DEF OneTerminalEvent
  <2>4. OneTerminalEvent'
    BY <1>0, <2>1, <2>3 DEF StoreTypeOK, OneTerminalEvent, Live, Terminal
  <2> QED BY <2>2, <2>4
<1>4. \/ UNCHANGED runVars
      \/ \E j \in Jobs : EnqueueRun(j, TRUE) \/ FailUnreadableJob(j)
  BY DEF Tick, TickList, TickEnqueue, TickUnreadable, TickAdvance, storeVars
<1>5. StayClaimed /\ OneTerminalEvent'
  BY <1>0, <1>3, <1>4, EnqueueKeeps, RunsKept
<1> QED BY <1>2, <1>5, LetGoHeld

\* Claiming, loading, executing and finishing keep the queue invariant.
LEMMA WorkerQueue ==
    ASSUME TypeInv, QueueInv, NEW p \in Procs, ClaimAndRun(p) \/ Stick(p)
    PROVE  QueueInv'
<1> USE DEF QueueInv
<1>0. StoreTypeOK /\ ProcTypeOK
  BY DEF TypeInv, TypeOK
<1>1. CASE Claim(p)
  <2>1. PICK r \in RunIds : /\ ClaimRun(r, Claimant(p)) /\ held' = [held EXCEPT ![p] = r]
    BY <1>1 DEF Claim
  <2>2. /\ pc' = [pc EXCEPT ![p] = "load"] /\ pc[p] = "idle" /\ UNCHANGED <<up, result>>
    BY <1>1 DEF Claim
  <2>3. /\ status[r] = "pending" /\ status' = [status EXCEPT ![r] = "running"]
        /\ claimedBy' = [claimedBy EXCEPT ![r] = Claimant(p)] /\ UNCHANGED terminals
    BY <2>1 DEF ClaimRun, Pending
  <2>4. ASSUME NEW q \in Procs, q # p, Executing(q)'
        PROVE  Executing(q) /\ held'[q] = held[q] /\ held[q] # r /\ held[q] \in RunIds
               /\ pc'[q] = pc[q]
    <3>1. Executing(q) /\ held'[q] = held[q] /\ pc'[q] = pc[q]
      BY <1>0, <2>1, <2>2, <2>4 DEF Executing, ProcTypeOK
    <3> QED BY <2>3, <3>1 DEF HeldInv
  <2>5. HeldInv'
    <3>1. ASSUME NEW q \in Procs, Executing(q)'
          PROVE  /\ held'[q] \in RunIds
                 /\ status'[held'[q]] \notin {"none", "pending"}
                 /\ status'[held'[q]] = "running" => claimedBy'[held'[q]] = Claimant(q)
                 /\ pc'[q] = "finish" => result'[q] \in {"succeeded", "failed"}
      <4>1. CASE q = p
        BY <1>0, <2>1, <2>2, <2>3, <4>1 DEF ProcTypeOK, StoreTypeOK
      <4>2. CASE q # p
        BY <1>0, <2>2, <2>3, <2>4, <3>1, <4>2 DEF StoreTypeOK, HeldInv
      <4> QED BY <4>1, <4>2
    <3>2. WorkersOff'
      BY <1>0, <2>2 DEF HeldInv, WorkersOff, ProcTypeOK, Procs
    <3> QED BY <3>1, <3>2 DEF HeldInv, WorkersOff, Claimant
  <2>6. ExecutedByOne'
    BY <1>0, <2>1, <2>4 DEF ExecutedByOne, ProcTypeOK
  <2>7. OneTerminalEvent'
    BY <1>0, <2>3 DEF OneTerminalEvent, StoreTypeOK, Live, Terminal
  <2> QED BY <2>5, <2>6, <2>7
<1>2. CASE Load(p)
  <2>1. StayClaimed /\ OneTerminalEvent' /\ up' = up
    BY <1>2, RunsKept DEF Load, storeVars
  <2>2. (p \in Workers /\ pc[p] # "off") \/ p \in Manual
    BY <1>2 DEF Load, Procs
  <2>3. CASE Return(p, FALSE)
    BY <1>0, <2>1, <2>2, <2>3, ReturnLetsGo, LetGoHeld
  <2>4. CASE ~Return(p, FALSE)
    <3>1. pc[p] = "load" /\ pc' = [pc EXCEPT ![p] = "exec"] /\ UNCHANGED <<held, result>>
      BY <1>2, <2>4 DEF Load
    <3>2. OnlyLetGo /\ WorkersOff'
      BY <1>0, <2>1, <3>1 DEF HeldInv, OnlyLetGo, WorkersOff, ProcTypeOK, Executing
    <3> QED BY <2>1, <3>2, LetGoHeld
  <2> QED BY <2>3, <2>4
<1>3. CASE ExecEnd(p)
  <2>1. StayClaimed /\ OneTerminalEvent' /\ up' = up
    BY <1>3, RunsKept DEF ExecEnd, storeVars
  <2>2. /\ pc[p] = "exec" /\ pc' = [pc EXCEPT ![p] = "finish"] /\ held' = held
        /\ \E res \in {"succeeded", "failed"} : result' = [result EXCEPT ![p] = res]
    BY <1>3 DEF ExecEnd
  <2>3. OnlyLetGo /\ WorkersOff'
    BY <1>0, <2>1, <2>2 DEF HeldInv, OnlyLetGo, WorkersOff, ProcTypeOK, Executing
  <2> QED BY <2>1, <2>3, LetGoHeld
<1>4. CASE Stick(p)
  <2>1. StayClaimed /\ OneTerminalEvent'
    BY <1>4, RunsKept DEF Stick, storeVars
  <2>2. OnlyLetGo /\ WorkersOff'
    BY <1>4, ProcKept DEF Stick, HeldInv, WorkersOff
  <2> QED BY <2>1, <2>2, LetGoHeld
<1>5. CASE Finish(p)
  <2>1. held[p] \in RunIds /\ result[p] \in Terminal /\ pc[p] = "finish"
    BY <1>5 DEF Finish, HeldInv, Executing, Terminal
  <2>2. (EndRun(held[p], result[p]) \/ UNCHANGED runVars) /\ up' = up
    BY <1>5 DEF Finish
  <2>3. StayClaimed /\ OneTerminalEvent'
    BY <1>0, <2>1, <2>2, EndRunKeeps
  <2>4. (\E ok \in BOOLEAN : Return(p, ok)) \/ UNCHANGED <<pc, held, result>>
    BY <1>5 DEF Finish
  <2>5. OnlyLetGo /\ WorkersOff'
    BY <1>0, <2>1, <2>2, <2>4, ReturnLetsGo, ProcKept DEF HeldInv, WorkersOff, Procs
  <2> QED BY <2>3, <2>5, LetGoHeld
<1> QED BY <1>1, <1>2, <1>3, <1>4, <1>5 DEF ClaimAndRun

\* The reaper keeps the queue invariant.
LEMMA ReapQueue ==
    ASSUME TypeInv, QueueInv, ReapInv, ReapOnce
    PROVE  QueueInv'
<1> USE DEF QueueInv
<1>1. StoreTypeOK /\ ReapTypeOK
  BY DEF TypeInv, TypeOK
<1>2. UNCHANGED <<pc, held, result, up>>
  BY DEF ReapOnce, ReapList, ReapLook, ReapLoad, ReapFail, procVars
<1>3. OnlyLetGo /\ WorkersOff'
  BY <1>2, ProcKept DEF HeldInv, WorkersOff
<1>4. \/ UNCHANGED runVars
      \/ reapRun \in RunIds /\ (EndRun(reapRun, "reaped") \/ UNCHANGED runVars)
  BY <1>1 DEF ReapOnce, ReapList, ReapLook, ReapLoad, ReapFail, storeVars, ReapInv, ReapTypeOK
<1>5. StayClaimed /\ OneTerminalEvent'
  BY <1>1, <1>4, RunsKept, EndRunKeeps DEF Terminal
<1> QED BY <1>3, <1>5, LetGoHeld

\* Starts (with their requeue), crashes and `tend run` processes keep the queue invariant.
LEMMA ProcessQueue ==
    ASSUME TypeInv, QueueInv,
           \/ Start \/ Crash
           \/ \E m \in Manual : \/ \E j \in Jobs : ManualGet(m, j)
                               \/ ManualEnqueue(m) \/ DrainEnd(m) \/ ManualKilled(m)
    PROVE  QueueInv'
<1> USE DEF QueueInv
<1>0. StoreTypeOK /\ ProcTypeOK
  BY DEF TypeInv, TypeOK
<1>1. CASE Start
  <2> DEFINE orphans == {r \in RunIds : status[r] = "running" /\ claimedBy[r] \notin Manual}
  <2>1. /\ status' = [r \in RunIds |-> IF r \in orphans THEN "pending" ELSE status[r]]
        /\ claimedBy' = [r \in RunIds |-> IF r \in orphans THEN NoOne ELSE claimedBy[r]]
        /\ UNCHANGED terminals
    BY <1>1 DEF Start, RequeueOrphanedRuns
  <2>2. /\ pc' = [p \in Procs |-> IF p \in Workers THEN "idle" ELSE pc[p]]
        /\ up' = TRUE /\ ~up /\ UNCHANGED <<held, result>>
    BY <1>1 DEF Start
  <2>3. ASSUME NEW p \in Procs, Executing(p)'
        PROVE  p \in Manual /\ Executing(p) /\ pc'[p] = pc[p] /\ held[p] \in RunIds \ orphans
    <3>1. p \in Manual /\ Executing(p) /\ pc'[p] = pc[p]
      BY <2>2, <2>3 DEF Executing, Procs
    <3> QED BY <3>1 DEF HeldInv, Claimant
  <2>4. ASSUME NEW p \in Procs, Executing(p)'
        PROVE  /\ held'[p] \in RunIds
               /\ status'[held'[p]] \notin {"none", "pending"}
               /\ status'[held'[p]] = "running" => claimedBy'[held'[p]] = Claimant(p)
               /\ pc'[p] = "finish" => result'[p] \in {"succeeded", "failed"}
    <3>1. status'[held[p]] = status[held[p]] /\ claimedBy'[held[p]] = claimedBy[held[p]]
      BY <2>1, <2>3, <2>4
    <3> QED BY <2>2, <2>3, <2>4, <3>1 DEF HeldInv
  <2>5. HeldInv'
    BY <2>2, <2>4 DEF HeldInv, Claimant
  <2>6. ExecutedByOne'
    BY <2>2, <2>3 DEF ExecutedByOne
  <2>7. OneTerminalEvent'
    BY <1>0, <2>1 DEF OneTerminalEvent, StoreTypeOK, Live, Terminal
  <2> QED BY <2>5, <2>6, <2>7
<1>2. CASE Crash
  <2>1. StayClaimed /\ OneTerminalEvent'
    BY <1>2, RunsKept DEF Crash, storeVars
  <2>2. OnlyLetGo
    BY <1>2 DEF Crash, HeldInv, OnlyLetGo, Executing
  <2>3. WorkersOff'
    BY <1>2 DEF Crash, WorkersOff, Procs
  <2> QED BY <2>1, <2>2, <2>3, LetGoHeld
<1>3. ASSUME NEW m \in Manual,
             (\E j \in Jobs : ManualGet(m, j)) \/ ManualEnqueue(m) \/ DrainEnd(m)
      PROVE  QueueInv'
  <2>1. /\ UNCHANGED <<held, result, up>>
        /\ \E to \in {"enqueue", "idle", "done"} : pc' = [pc EXCEPT ![m] = to]
    BY <1>3 DEF ManualGet, ManualEnqueue, DrainEnd
  <2>2. OnlyLetGo /\ WorkersOff'
    BY <1>0, <2>1 DEF HeldInv, OnlyLetGo, WorkersOff, ProcTypeOK, Executing, Procs
  <2>3. UNCHANGED runVars \/ EnqueueRun(wanted[m], FALSE)
    BY <1>3 DEF ManualGet, ManualEnqueue, DrainEnd, storeVars
  <2>4. StayClaimed /\ OneTerminalEvent'
    BY <1>0, <2>3, RunsKept, EnqueueKeeps
  <2> QED BY <2>2, <2>4, LetGoHeld
<1>4. ASSUME NEW m \in Manual, ManualKilled(m) PROVE QueueInv'
  <2>1. StayClaimed /\ OneTerminalEvent'
    BY <1>4, RunsKept DEF ManualKilled, storeVars
  <2>2. OnlyLetGo /\ WorkersOff'
    BY <1>0, <1>4, ReturnLetsGo DEF ManualKilled, Procs
  <2> QED BY <2>1, <2>2, LetGoHeld
<1> QED BY <1>1, <1>2, <1>3, <1>4

\* Clients, creation, deletion, retention, hand edits and time keep the queue invariant.
LEMMA OutsideQueue ==
    ASSUME TypeInv, QueueInv,
           \/ \E c \in Clients : (\E j \in Jobs, op \in ClientOps : ClientRead(c, j, op)) \/ ClientWrite(c)
           \/ \E j \in Jobs : Create(j) \/ Delete(j) \/ Damage(j) \/ BecomeDue(j)
           \/ \E r \in RunIds : Prune(r)
           \/ Advance
    PROVE  QueueInv'
<1> USE DEF QueueInv
<1>0. StoreTypeOK
  BY DEF TypeInv, TypeOK
<1>1. UNCHANGED <<pc, held, result, up>>
  BY DEF ClientRead, ClientWrite, Create, Delete, Damage, BecomeDue, Prune, Advance, notStore, procVars
<1>2. OnlyLetGo /\ WorkersOff'
  BY <1>1, ProcKept DEF HeldInv, WorkersOff
<1>3. ASSUME NEW j \in Jobs, Delete(j) PROVE StayClaimed /\ OneTerminalEvent'
  <2>1. /\ status' = [r \in RunIds |-> IF jobOf[r] = j THEN "deleted" ELSE status[r]]
        /\ UNCHANGED <<claimedBy, terminals>>
    BY <1>3 DEF Delete, DeleteJob
  <2>2. StayClaimed
    BY <2>1 DEF StayClaimed
  <2>3. \A r \in RunIds : terminals[r] <= 1
    BY <1>0 DEF OneTerminalEvent, StoreTypeOK, Statuses
  <2>4. OneTerminalEvent'
    BY <2>1, <2>3 DEF OneTerminalEvent, Live, Terminal
  <2> QED BY <2>2, <2>4
<1>4. ASSUME NEW r \in RunIds, Prune(r) PROVE StayClaimed /\ OneTerminalEvent'
  BY <1>0, <1>4 DEF Prune, PruneJobRuns, StayClaimed, OneTerminalEvent, StoreTypeOK, Live, Terminal
<1>5. ASSUME UNCHANGED <<status, claimedBy, terminals>> PROVE StayClaimed /\ OneTerminalEvent'
  BY <1>5 DEF StayClaimed, OneTerminalEvent
<1>6. \/ UNCHANGED <<status, claimedBy, terminals>>
      \/ \E c \in Clients : EnqueueRun(cJob[c], FALSE)
      \/ \E j \in Jobs : Delete(j)
      \/ \E r \in RunIds : Prune(r)
  BY DEF ClientRead, ClientWrite, Create, Damage, BecomeDue, Advance, runVars, storeVars
<1>7. StayClaimed /\ OneTerminalEvent'
  BY <1>0, <1>3, <1>4, <1>5, <1>6, EnqueueKeeps
<1> QED BY <1>2, <1>7, LetGoHeld

\* Every step keeps the queue invariant.
LEMMA QueueStep == TypeInv /\ QueueInv /\ ReapInv /\ [Next]_vars => QueueInv'
<1> SUFFICES ASSUME TypeInv, QueueInv, ReapInv, [Next]_vars PROVE QueueInv'
  OBVIOUS
<1>1. CASE UNCHANGED vars
  BY <1>1 DEF vars, procVars, QueueInv, OneTerminalEvent, HeldInv, ExecutedByOne, Executing
<1>2. CASE Next
  BY <1>2, TickQueue, WorkerQueue, ReapQueue, ProcessQueue, OutsideQueue DEF Next
<1> QED BY <1>1, <1>2

-----------------------------------------------------------------------------
(***************************************************************************)
(* The scheduler does not overlap with itself.  Apart from TickEnqueue, no *)
(* step makes a run of the scheduler's live.                               *)
(***************************************************************************)
NoneRevived ==
    /\ fromTick' = fromTick
    /\ \A r \in RunIds :
        /\ r \in fromTick /\ status'[r] \in Live => status[r] \in Live /\ jobOf'[r] = jobOf[r]
        /\ status'[r] = "none" => status[r] = "none" /\ jobOf'[r] = jobOf[r]

OverlapInv == TickInv /\ SchedulerNoOverlap

\* A step that makes no run live again and leaves the scheduler alone cannot make its runs overlap.
LEMMA NoneRevivedKeeps ==
    ASSUME StoreTypeOK, OverlapInv, NoneRevived, tickTodo' \subseteq tickTodo
    PROVE  OverlapInv'
BY DEF OverlapInv, TickInv, SchedulerNoOverlap, NoneRevived, StoreTypeOK

\* EnqueueRun outside the scheduler makes no run of the scheduler live.
LEMMA EnqueueRevivesNone ==
    ASSUME StoreTypeOK, TickInv, NEW j, EnqueueRun(j, FALSE)
    PROVE  NoneRevived
BY DEF StoreTypeOK, TickInv, EnqueueRun, NewRunId, NoneRevived, Live

\* Ending a run makes none live.
LEMMA EndRunRevivesNone ==
    ASSUME StoreTypeOK, NEW r \in RunIds, NEW o \in Terminal, EndRun(r, o) \/ UNCHANGED runVars
    PROVE  NoneRevived
BY DEF StoreTypeOK, EndRun, runVars, NoneRevived, Live, Terminal

\* Leaving the run table alone makes no run live.
LEMMA RunsKeptRevivesNone == UNCHANGED runVars => NoneRevived
BY DEF runVars, NoneRevived

\* The scheduler keeps its own runs apart: what it lists has no live run, and it enqueues each job once.
LEMMA TickOverlap ==
    ASSUME TypeInv, OverlapInv, Tick
    PROVE  OverlapInv'
<1>0. StoreTypeOK /\ TickTypeOK
  BY DEF TypeInv, TypeOK
<1>1. CASE TickList
  <2>1. UNCHANGED <<fromTick, status, jobOf>>
    BY <1>1 DEF TickList, storeVars, runVars
  <2>2. ASSUME NEW j \in tickTodo', NEW r \in fromTick, status[r] \in Live PROVE jobOf[r] # j
    <3>1. ~HasLiveRun(j)
      BY <1>1, <2>2 DEF TickList, DueJobs
    <3> QED BY <1>0, <2>2, <3>1 DEF HasLiveRun, StoreTypeOK
  <2> QED BY <2>1, <2>2 DEF OverlapInv, TickInv, SchedulerNoOverlap
<1>2. ASSUME NEW j \in Jobs, TickEnqueue(j) PROVE OverlapInv'
  <2>1. tickTodo' = tickTodo \ {j} /\ j \in tickTodo
    BY <1>2 DEF TickEnqueue
  <2>2. CASE UNCHANGED runVars
    BY <1>0, <2>1, <2>2, RunsKeptRevivesNone, NoneRevivedKeeps
  <2>3. CASE EnqueueRun(j, TRUE)
    <3>1. PICK r \in RunIds : /\ status[r] = "none" /\ status' = [status EXCEPT ![r] = "pending"]
                              /\ jobOf' = [jobOf EXCEPT ![r] = j] /\ fromTick' = fromTick \cup {r}
      BY <2>3 DEF EnqueueRun, NewRunId
    <3>2. r \notin fromTick /\ fromTick \subseteq RunIds
      BY <1>0, <3>1 DEF OverlapInv, TickInv, StoreTypeOK
    <3>3. \A q \in fromTick : status'[q] = status[q] /\ jobOf'[q] = jobOf[q]
      BY <1>0, <3>1, <3>2 DEF StoreTypeOK
    <3>4. status'[r] = "pending" /\ jobOf'[r] = j
      BY <1>0, <3>1 DEF StoreTypeOK
    <3>5. TickInv'
      BY <1>0, <2>1, <3>1, <3>2, <3>3, <3>4 DEF OverlapInv, TickInv, StoreTypeOK
    <3>6. SchedulerNoOverlap'
      BY <2>1, <3>1, <3>3, <3>4 DEF OverlapInv, TickInv, SchedulerNoOverlap
    <3> QED BY <3>5, <3>6 DEF OverlapInv
  <2> QED BY <1>2, <2>2, <2>3 DEF TickEnqueue
<1>3. ASSUME NEW j \in Jobs, TickUnreadable(j) PROVE OverlapInv'
  <2>1. tickTodo' = tickTodo
    BY <1>3 DEF TickUnreadable
  <2>2. ASSUME FailUnreadableJob(j) PROVE NoneRevived
    BY <1>0, <2>2 DEF FailUnreadableJob, NewRunId, NoneRevived, StoreTypeOK, Live
  <2>3. NoneRevived
    BY <1>3, <2>2, RunsKeptRevivesNone DEF TickUnreadable, storeVars
  <2> QED BY <1>0, <2>1, <2>3, NoneRevivedKeeps
<1>4. CASE TickAdvance
  <2>1. UNCHANGED runVars /\ tickTodo' = tickTodo
    BY <1>4 DEF TickAdvance
  <2> QED BY <1>0, <2>1, RunsKeptRevivesNone, NoneRevivedKeeps
<1> QED BY <1>1, <1>2, <1>3, <1>4 DEF Tick

\* Every step keeps the overlap invariant.
LEMMA OverlapStep == TypeInv /\ QueueInv /\ ReapInv /\ OverlapInv /\ [Next]_vars => OverlapInv'
<1> SUFFICES ASSUME TypeInv, QueueInv, ReapInv, OverlapInv, [Next]_vars PROVE OverlapInv'
  OBVIOUS
<1>0. StoreTypeOK /\ ProcTypeOK /\ ReapTypeOK /\ TickInv
  BY DEF TypeInv, TypeOK, OverlapInv
<1>1. SUFFICES ASSUME ~Tick PROVE NoneRevived /\ tickTodo' \subseteq tickTodo
  BY <1>0, TickOverlap, NoneRevivedKeeps
<1>2. CASE UNCHANGED vars
  BY <1>2, RunsKeptRevivesNone DEF vars, runVars, tickVars
<1>3. ASSUME NEW p \in Procs, ClaimAndRun(p) \/ Stick(p)
      PROVE  NoneRevived /\ tickTodo' \subseteq tickTodo
  <2>1. tickTodo' = tickTodo
    BY <1>3 DEF ClaimAndRun, Claim, Load, ExecEnd, Finish, Stick, tickVars
  <2>2. ASSUME Claim(p) PROVE NoneRevived
    BY <1>0, <2>2 DEF Claim, ClaimRun, Pending, NoneRevived, StoreTypeOK, Live
  <2>3. ASSUME Finish(p) PROVE NoneRevived
    <3>1. held[p] \in RunIds /\ result[p] \in Terminal
      BY <2>3 DEF Finish, QueueInv, HeldInv, Executing, Terminal
    <3>2. EndRun(held[p], result[p]) \/ UNCHANGED runVars
      BY <2>3 DEF Finish
    <3> QED BY <1>0, <3>1, <3>2, EndRunRevivesNone
  <2>4. ASSUME Load(p) \/ ExecEnd(p) \/ Stick(p) PROVE NoneRevived
    BY <2>4, RunsKeptRevivesNone DEF Load, ExecEnd, Stick, storeVars
  <2> QED BY <1>3, <2>1, <2>2, <2>3, <2>4 DEF ClaimAndRun
<1>4. ASSUME ReapOnce PROVE NoneRevived /\ tickTodo' \subseteq tickTodo
  <2>1. tickTodo' = tickTodo
    BY <1>4 DEF ReapOnce, ReapList, ReapLook, ReapLoad, ReapFail, tickVars
  <2>2. \/ UNCHANGED runVars
        \/ reapRun \in RunIds /\ (EndRun(reapRun, "reaped") \/ UNCHANGED runVars)
    BY <1>0, <1>4 DEF ReapOnce, ReapList, ReapLook, ReapLoad, ReapFail, storeVars, ReapInv, ReapTypeOK
  <2> QED BY <1>0, <2>1, <2>2, RunsKeptRevivesNone, EndRunRevivesNone DEF Terminal
<1>5. ASSUME Start PROVE NoneRevived /\ tickTodo' \subseteq tickTodo
  BY <1>0, <1>5 DEF Start, RequeueOrphanedRuns, NoneRevived, tickVars, StoreTypeOK, Live
<1>6. ASSUME Crash PROVE NoneRevived /\ tickTodo' \subseteq tickTodo
  BY <1>6, RunsKeptRevivesNone DEF Crash, storeVars
<1>7. ASSUME NEW m \in Manual,
             \/ \E j \in Jobs : ManualGet(m, j)
             \/ ManualEnqueue(m) \/ DrainEnd(m) \/ ManualKilled(m)
      PROVE  NoneRevived /\ tickTodo' \subseteq tickTodo
  BY <1>0, <1>7, RunsKeptRevivesNone, EnqueueRevivesNone
  DEF ManualGet, ManualEnqueue, DrainEnd, ManualKilled, storeVars, tickVars
<1>8. ASSUME NEW c \in Clients,
             (\E j \in Jobs, op \in ClientOps : ClientRead(c, j, op)) \/ ClientWrite(c)
      PROVE  NoneRevived /\ tickTodo' \subseteq tickTodo
  BY <1>0, <1>8, RunsKeptRevivesNone, EnqueueRevivesNone DEF ClientRead, ClientWrite, storeVars, tickVars
<1>9. ASSUME NEW j \in Jobs, Create(j) \/ Delete(j) \/ Damage(j) \/ BecomeDue(j)
      PROVE  NoneRevived /\ tickTodo' \subseteq tickTodo
  <2>1. tickTodo' = tickTodo
    BY <1>9 DEF Create, Delete, Damage, BecomeDue, notStore, tickVars
  <2>2. ASSUME Delete(j) PROVE NoneRevived
    BY <1>0, <2>2 DEF Delete, DeleteJob, NoneRevived, StoreTypeOK, Live
  <2>3. ASSUME Create(j) \/ Damage(j) \/ BecomeDue(j) PROVE NoneRevived
    BY <2>3, RunsKeptRevivesNone DEF Create, Damage, BecomeDue
  <2> QED BY <1>9, <2>1, <2>2, <2>3
<1>10. ASSUME NEW r \in RunIds, Prune(r) PROVE NoneRevived /\ tickTodo' \subseteq tickTodo
  BY <1>0, <1>10 DEF Prune, PruneJobRuns, NoneRevived, StoreTypeOK, Live, notStore, tickVars
<1>11. ASSUME Advance PROVE NoneRevived /\ tickTodo' \subseteq tickTodo
  BY <1>11 DEF Advance, NoneRevived, notStore, tickVars
<1> QED BY <1>1, <1>2, <1>3, <1>4, <1>5, <1>6, <1>7, <1>8, <1>9, <1>10, <1>11 DEF Next

-----------------------------------------------------------------------------
(***************************************************************************)
(* The reaper spares the healthy.  Apart from the reaper, a claim, a       *)
(* restart, a crash and the clock, no step makes a worker healthier or a   *)
(* run younger or older.                                                   *)
(***************************************************************************)
HealthKept ==
    \A w \in Workers : Executing(w)' /\ ~stuck'[w] =>
        /\ Executing(w) /\ ~stuck[w] /\ held'[w] = held[w]
        /\ Deadline(w) <= Deadline(w)'

AgeKept ==
    \A r \in RunIds : status[r] \notin {"none", "pending"} =>
        /\ status'[r] \notin {"none", "pending"}
        /\ status'[r] = "running" => status[r] = "running" /\ elapsed'[r] = elapsed[r]
        /\ status'[r] = "reaped" => status[r] = "reaped"

HealthInv == ReapInv /\ HealthyNotReaped

\* A deadline is a natural number.
LEMMA DeadlineType ==
    ASSUME ProcTypeOK, NEW w \in Procs
    PROVE  Deadline(w) \in Nat
BY DEF ProcTypeOK, Deadline

\* A step that keeps the healthy workers, the ages of their runs and the reaper keeps its invariant.
LEMMA HealthKeeps ==
    ASSUME TypeOK, ProcTypeOK', HeldInv, HealthInv, HealthKept, AgeKept, UNCHANGED <<reapVars, up>>
    PROVE  HealthInv'
<1>0. StoreTypeOK /\ ProcTypeOK /\ ReapTypeOK
  BY DEF TypeOK
<1>1. ASSUME NEW w \in Workers, Executing(w)', ~stuck'[w]
      PROVE  /\ Executing(w) /\ ~stuck[w] /\ held'[w] = held[w]
             /\ Deadline(w) <= Deadline(w)' /\ Deadline(w) \in Nat /\ Deadline(w)' \in Nat
             /\ held[w] \in RunIds /\ status[held[w]] \notin {"none", "pending"}
  <2>1. Executing(w) /\ ~stuck[w] /\ held'[w] = held[w] /\ Deadline(w) <= Deadline(w)'
    BY <1>1 DEF HealthKept
  <2>2. Deadline(w) \in Nat
    BY <1>0, DeadlineType DEF Procs
  <2>3. Deadline(w)' \in Nat
    BY DEF ProcTypeOK, Deadline, Procs
  <2>4. held[w] \in RunIds /\ status[held[w]] \notin {"none", "pending"}
    BY <2>1 DEF HeldInv, Procs
  <2> QED BY <2>1, <2>2, <2>3, <2>4
<1>2. ASSUME NEW w \in Workers, NEW r \in RunIds, Healthy(w, r)'
      PROVE  Healthy(w, r) /\ elapsed'[r] = elapsed[r]
  BY <1>1, <1>2 DEF Healthy, AgeKept
<1>3. ASSUME NEW w \in Workers, NEW r \in RunIds, Healthy(w, r)'
      PROVE  elapsed'[r] <= Deadline(w)'
  <2>1. elapsed[r] <= Deadline(w) /\ elapsed[r] \in Nat
    BY <1>0, <1>2, <1>3 DEF HealthInv, ReapInv, StoreTypeOK
  <2>2. Executing(w)' /\ ~stuck'[w]
    BY <1>3 DEF Healthy
  <2>3. Deadline(w) <= Deadline(w)' /\ Deadline(w) \in Nat /\ Deadline(w)' \in Nat
    BY <1>1, <2>2
  <2> QED BY <1>2, <1>3, <2>1, <2>3
<1>4. ASSUME NEW r \in reapTodo'
      PROVE  /\ status'[r] \notin {"none", "pending"}
             /\ status'[r] = "running" => reapSeen'[r] <= elapsed'[r]
  <2>1. r \in reapTodo /\ r \in RunIds /\ reapSeen' = reapSeen
    BY <1>0, <1>4 DEF reapVars, ReapTypeOK
  <2> QED BY <2>1 DEF HealthInv, ReapInv, AgeKept
<1>5. reapStep' \in {"load", "fail"} => reapRun' \in reapTodo'
  BY DEF HealthInv, ReapInv, reapVars
<1>6. ASSUME NEW w \in Workers, reapStep \in {"load", "fail"}, Healthy(w, reapRun)'
      PROVE  Healthy(w, reapRun)
  <2>1. reapRun \in RunIds /\ reapRun' = reapRun
    BY <1>0, <1>6 DEF HealthInv, ReapInv, ReapTypeOK, reapVars
  <2> QED BY <1>1, <1>6, <2>1 DEF Healthy, AgeKept
<1>7. \A w \in Workers : reapStep' = "load" /\ Healthy(w, reapRun)' =>
            ~reapOurs' /\ reapSeen'[reapRun'] < Slack
  BY <1>6 DEF HealthInv, ReapInv, reapVars
<1>8. \A w \in Workers : reapStep' = "fail" => ~Healthy(w, reapRun)'
  BY <1>6 DEF HealthInv, ReapInv, reapVars
<1>9. ~up' => reapTodo' = {} /\ reapStep' = "idle"
  BY DEF HealthInv, ReapInv, reapVars
<1>10. HealthyNotReaped'
  BY <1>1 DEF HealthInv, HealthyNotReaped, AgeKept
<1>11. ReapInv'
  BY <1>3, <1>4, <1>5, <1>7, <1>8, <1>9 DEF ReapInv
<1> QED BY <1>10, <1>11 DEF HealthInv

\* Leaving the workers alone keeps the healthy ones.
LEMMA ProcKeptHealth ==
    ASSUME ProcTypeOK, UNCHANGED procVars
    PROVE  HealthKept
<1>1. ASSUME NEW w \in Workers PROVE Deadline(w)' = Deadline(w) /\ Deadline(w) \in Nat
  BY DeadlineType DEF Deadline, procVars, Procs
<1>2. UNCHANGED <<pc, held, stuck>>
  BY DEF procVars
<1> QED BY <1>1, <1>2 DEF HealthKept, Executing

\* A worker that returns makes no other one late.
LEMMA ReturnHealth ==
    ASSUME ProcTypeOK, NEW p \in Procs, NEW ok \in BOOLEAN, Return(p, ok)
    PROVE  HealthKept
<1> SUFFICES ASSUME NEW w \in Workers, Executing(w)', ~stuck'[w]
             PROVE  /\ Executing(w) /\ ~stuck[w] /\ held'[w] = held[w]
                    /\ Deadline(w) <= Deadline(w)'
  BY DEF HealthKept
<1>1. w # p /\ w \in Procs
  BY DEF Return, ProcTypeOK, Executing, Procs
<1>2. pc'[w] = pc[w] /\ held'[w] = held[w] /\ limit'[w] = limit[w] /\ stuck'[w] = stuck[w]
  BY <1>1 DEF Return, ProcTypeOK
<1>3. Deadline(w)' = Deadline(w) /\ Deadline(w) \in Nat
  BY <1>1, <1>2, DeadlineType DEF Deadline
<1> QED BY <1>2, <1>3 DEF Executing

\* EnqueueRun keeps the ages of the running runs.
LEMMA EnqueueAge ==
    ASSUME StoreTypeOK, NEW j, NEW b, EnqueueRun(j, b)
    PROVE  AgeKept
BY DEF StoreTypeOK, EnqueueRun, NewRunId, AgeKept

\* Ending a run keeps the ages of those still running.
LEMMA EndRunAge ==
    ASSUME StoreTypeOK, NEW r \in RunIds, NEW o \in {"succeeded", "failed"},
           EndRun(r, o) \/ UNCHANGED runVars
    PROVE  AgeKept
BY DEF StoreTypeOK, EndRun, runVars, AgeKept

\* Leaving the run table alone keeps the ages.
LEMMA RunsKeptAge == UNCHANGED runVars => AgeKept
BY DEF runVars, AgeKept

\* The scheduler never disturbs the reaper invariant.
LEMMA TickHealth ==
    ASSUME TypeInv, QueueInv, HealthInv, Tick
    PROVE  HealthInv'
<1>0. TypeOK /\ StoreTypeOK /\ ProcTypeOK /\ HeldInv
  BY DEF TypeInv, TypeOK, QueueInv
<1>1. UNCHANGED procVars /\ UNCHANGED <<reapVars, up>>
  BY DEF Tick, TickList, TickEnqueue, TickUnreadable, TickAdvance
<1>2. ASSUME NEW j \in Jobs, FailUnreadableJob(j) PROVE AgeKept
  BY <1>0, <1>2 DEF FailUnreadableJob, NewRunId, AgeKept, StoreTypeOK
<1>3. UNCHANGED runVars \/ \E j \in Jobs : EnqueueRun(j, TRUE) \/ FailUnreadableJob(j)
  BY DEF Tick, TickList, TickEnqueue, TickUnreadable, TickAdvance, storeVars
<1>4. AgeKept
  BY <1>0, <1>2, <1>3, EnqueueAge, RunsKeptAge
<1> QED BY <1>0, <1>1, <1>4, ProcFrame, ProcKeptHealth, HealthKeeps

\* The operations of clients and of the rest of the world, except the clock.
LEMMA OutsideHealth ==
    ASSUME TypeInv, QueueInv, HealthInv,
           \/ \E c \in Clients : (\E j \in Jobs, op \in ClientOps : ClientRead(c, j, op)) \/ ClientWrite(c)
           \/ \E j \in Jobs : Create(j) \/ Delete(j) \/ Damage(j) \/ BecomeDue(j)
           \/ \E r \in RunIds : Prune(r)
    PROVE  HealthInv'
<1>0. TypeOK /\ StoreTypeOK /\ ProcTypeOK /\ HeldInv
  BY DEF TypeInv, TypeOK, QueueInv
<1>1. UNCHANGED procVars /\ UNCHANGED <<reapVars, up>>
  BY DEF ClientRead, ClientWrite, Create, Delete, Damage, BecomeDue, Prune, notStore
<1>2. ASSUME NEW j \in Jobs, Delete(j) PROVE AgeKept
  BY <1>0, <1>2 DEF Delete, DeleteJob, AgeKept
<1>3. ASSUME NEW r \in RunIds, Prune(r) PROVE AgeKept
  BY <1>0, <1>3 DEF Prune, PruneJobRuns, AgeKept, StoreTypeOK
<1>4. \/ UNCHANGED runVars
      \/ \E c \in Clients : EnqueueRun(cJob[c], FALSE)
      \/ \E j \in Jobs : Delete(j)
      \/ \E r \in RunIds : Prune(r)
  BY DEF ClientRead, ClientWrite, Create, Damage, BecomeDue, storeVars
<1>5. AgeKept
  BY <1>0, <1>2, <1>3, <1>4, EnqueueAge, RunsKeptAge
<1> QED BY <1>0, <1>1, <1>5, ProcFrame, ProcKeptHealth, HealthKeeps

\* A worker's steps other than the claim.
LEMMA WorkerHealth ==
    ASSUME TypeInv, TypeInv', QueueInv, HealthInv, NEW p \in Procs,
           Load(p) \/ ExecEnd(p) \/ Finish(p) \/ Stick(p)
    PROVE  HealthInv'
<1>0. TypeOK /\ StoreTypeOK /\ ProcTypeOK /\ ProcTypeOK' /\ HeldInv
  BY DEF TypeInv, TypeOK, QueueInv
<1>1. UNCHANGED <<reapVars, up>>
  BY DEF Load, ExecEnd, Finish, Stick
<1>2. AgeKept
  <2>1. CASE Finish(p)
    <3>1. held[p] \in RunIds /\ result[p] \in {"succeeded", "failed"}
      BY <1>0, <2>1 DEF Finish, HeldInv, Executing
    <3>2. EndRun(held[p], result[p]) \/ UNCHANGED runVars
      BY <2>1 DEF Finish
    <3> QED BY <1>0, <3>1, <3>2, EndRunAge
  <2>2. CASE ~Finish(p)
    BY <2>2, RunsKeptAge DEF Load, ExecEnd, Stick, storeVars
  <2> QED BY <2>1, <2>2
<1>3. HealthKept
  <2>1. CASE \E ok \in BOOLEAN : Return(p, ok)
    BY <1>0, <2>1, ReturnHealth
  <2>2. CASE ~\E ok \in BOOLEAN : Return(p, ok)
    <3>1. UNCHANGED held
      BY <2>2 DEF Load, ExecEnd, Finish, Stick
    <3>2. \A w \in Procs : w # p => pc'[w] = pc[w] /\ limit'[w] = limit[w] /\ stuck'[w] = stuck[w]
      BY <1>0, <2>2 DEF Load, ExecEnd, Finish, Stick, ProcTypeOK
    <3>3. /\ Executing(p) /\ (~stuck'[p] => ~stuck[p])
          /\ \/ pc[p] = "load" /\ pc'[p] = "exec"
             \/ pc[p] = "exec" /\ pc'[p] \in {"exec", "finish"} /\ limit'[p] = limit[p]
             \/ pc[p] = "finish" /\ pc'[p] = "finish" /\ limit'[p] = limit[p]
      BY <1>0, <2>2 DEF Load, ExecEnd, Finish, Stick, ProcTypeOK, Executing
    <3>4. limit[p] \in Nat /\ limit'[p] \in Nat
      BY <1>0 DEF ProcTypeOK
    <3>5. Deadline(p) <= Deadline(p)'
      BY <3>3, <3>4 DEF Deadline
    <3>6. \A w \in Procs : w # p => Deadline(w)' = Deadline(w) /\ Deadline(w) \in Nat
      BY <1>0, <3>2, DeadlineType DEF Deadline
    <3> QED BY <3>1, <3>2, <3>3, <3>5, <3>6 DEF HealthKept, Executing, Procs
  <2> QED BY <2>1, <2>2
<1> QED BY <1>0, <1>1, <1>2, <1>3, HealthKeeps

\* `tend run` processes, except their claims.
LEMMA ManualHealth ==
    ASSUME TypeInv, TypeInv', QueueInv, HealthInv, NEW m \in Manual,
           (\E j \in Jobs : ManualGet(m, j)) \/ ManualEnqueue(m) \/ DrainEnd(m) \/ ManualKilled(m)
    PROVE  HealthInv'
<1>0. TypeOK /\ StoreTypeOK /\ ProcTypeOK /\ ProcTypeOK' /\ HeldInv
  BY DEF TypeInv, TypeOK, QueueInv
<1>1. UNCHANGED <<reapVars, up>>
  BY DEF ManualGet, ManualEnqueue, DrainEnd, ManualKilled
<1>2. AgeKept
  BY <1>0, EnqueueAge, RunsKeptAge DEF ManualGet, ManualEnqueue, DrainEnd, ManualKilled, storeVars
<1>3. HealthKept
  <2>1. CASE ManualKilled(m)
    BY <1>0, <2>1, ReturnHealth DEF ManualKilled, Procs
  <2>2. CASE ~ManualKilled(m)
    <3>1. /\ UNCHANGED <<held, limit, stuck>>
          /\ \E to \in {"enqueue", "idle", "done"} : pc' = [pc EXCEPT ![m] = to]
      BY <2>2 DEF ManualGet, ManualEnqueue, DrainEnd
    <3>2. \A w \in Workers : pc'[w] = pc[w]
      BY <1>0, <3>1 DEF ProcTypeOK, Procs
    <3>3. \A w \in Workers : Deadline(w)' = Deadline(w) /\ Deadline(w) \in Nat
      BY <1>0, <3>1, <3>2, DeadlineType DEF Deadline, Procs
    <3> QED BY <3>1, <3>2, <3>3 DEF HealthKept, Executing
  <2> QED BY <2>1, <2>2
<1> QED BY <1>0, <1>1, <1>2, <1>3, HealthKeeps

\* A claim starts the clock of a run the reaper has not listed.
LEMMA ClaimHealth ==
    ASSUME TypeInv, TypeInv', QueueInv, HealthInv, NEW p \in Procs, Claim(p)
    PROVE  HealthInv'
<1>0. StoreTypeOK /\ ProcTypeOK /\ ReapTypeOK /\ HeldInv
  BY DEF TypeInv, TypeOK, QueueInv
<1>1. PICK r \in RunIds : ClaimRun(r, Claimant(p)) /\ held' = [held EXCEPT ![p] = r]
  BY DEF Claim
<1>2. /\ pc' = [pc EXCEPT ![p] = "load"] /\ pc[p] = "idle"
      /\ UNCHANGED <<limit, stuck, up, reapVars>>
  BY DEF Claim
<1>3. /\ status[r] = "pending" /\ status' = [status EXCEPT ![r] = "running"]
      /\ elapsed' = [elapsed EXCEPT ![r] = 0]
  BY <1>1 DEF ClaimRun, Pending
<1>4. r \notin reapTodo
  BY <1>3 DEF HealthInv, ReapInv
<1>5. ASSUME NEW w \in Workers, w # p
      PROVE  /\ Executing(w)' <=> Executing(w)
             /\ held'[w] = held[w] /\ Deadline(w)' = Deadline(w)
             /\ Executing(w) => held[w] # r /\ held[w] \in RunIds
  <2>1. w \in Procs /\ pc'[w] = pc[w] /\ held'[w] = held[w]
    BY <1>0, <1>1, <1>2, <1>5 DEF ProcTypeOK, Procs
  <2>2. Deadline(w)' = Deadline(w)
    BY <1>2, <2>1 DEF Deadline
  <2>3. Executing(w) => held[w] # r /\ held[w] \in RunIds
    BY <1>0, <1>3, <2>1 DEF HeldInv
  <2> QED BY <2>1, <2>2, <2>3 DEF Executing
<1>6. held'[p] = r /\ pc'[p] = "load" /\ status'[r] = "running" /\ elapsed'[r] = 0
  BY <1>0, <1>1, <1>2, <1>3 DEF ProcTypeOK, StoreTypeOK
<1>7. \A q \in RunIds : q # r => status'[q] = status[q] /\ elapsed'[q] = elapsed[q]
  BY <1>0, <1>3 DEF StoreTypeOK
<1>8. ASSUME NEW w \in Workers, NEW q \in RunIds, Healthy(w, q)'
      PROVE  elapsed'[q] <= Deadline(w)'
  <2>1. CASE w = p
    <3>1. Deadline(w)' = LoadDelay /\ q = r
      BY <1>6, <1>8, <2>1 DEF Deadline, Healthy
    <3> QED BY <1>6, <3>1
  <2>2. CASE w # p
    <3>1. Healthy(w, q) /\ q # r
      BY <1>2, <1>5, <1>7, <1>8, <2>2 DEF Healthy
    <3> QED BY <1>5, <1>7, <2>2, <3>1 DEF HealthInv, ReapInv
  <2> QED BY <2>1, <2>2
<1>9. ASSUME NEW w \in Workers, NEW q \in RunIds, q # r, Healthy(w, q)' PROVE Healthy(w, q)
  <2>1. w # p
    BY <1>6, <1>9 DEF Healthy
  <2> QED BY <1>2, <1>5, <1>7, <1>9, <2>1 DEF Healthy
<1>10. UNCHANGED <<reapStep, reapTodo, reapSeen, reapRun, reapOurs>>
  BY <1>2 DEF reapVars
<1>11. reapTodo \subseteq RunIds
  BY <1>0 DEF ReapTypeOK
<1>12. ReapInv'
  BY <1>2, <1>4, <1>7, <1>8, <1>9, <1>10, <1>11 DEF HealthInv, ReapInv
<1>13. HealthyNotReaped'
  BY <1>2, <1>5, <1>6, <1>7 DEF HealthInv, HealthyNotReaped
<1> QED BY <1>12, <1>13 DEF HealthInv

\* A restart and a crash: serve has no worker and no reaper in between.
LEMMA RestartHealth ==
    ASSUME TypeInv, QueueInv, HealthInv, Start \/ Crash
    PROVE  HealthInv'
<1>0. StoreTypeOK /\ ReapTypeOK
  BY DEF TypeInv, TypeOK
<1>1. \A w \in Workers : ~Executing(w)'
  BY DEF Start, Crash, Executing, Procs
<1>2. reapTodo' = {} /\ reapStep' = "idle"
  BY DEF Start, Crash, HealthInv, ReapInv, reapVars
<1>3. ReapInv'
  BY <1>1, <1>2 DEF ReapInv, Healthy
<1>4. HealthyNotReaped'
  BY <1>1 DEF HealthyNotReaped
<1> QED BY <1>3, <1>4 DEF HealthInv

\* Time passes only while every healthy worker is inside its deadline.
LEMMA AdvanceHealth ==
    ASSUME TypeInv, QueueInv, HealthInv, Advance
    PROVE  HealthInv'
<1>0. StoreTypeOK /\ ProcTypeOK /\ ReapTypeOK
  BY DEF TypeInv, TypeOK
<1>1. UNCHANGED <<status, pc, held, limit, stuck, up, reapStep, reapTodo, reapSeen, reapRun, reapOurs>>
  BY DEF Advance, notStore, procVars, reapVars
<1>2. ASSUME NEW r \in RunIds
      PROVE  elapsed'[r] \in {elapsed[r], elapsed[r] + 1} /\ elapsed[r] \in Nat
  BY <1>0 DEF Advance, StoreTypeOK
<1>3. ASSUME NEW w \in Workers
      PROVE  /\ Deadline(w)' = Deadline(w) /\ Deadline(w) \in Nat
             /\ \A r \in RunIds : Healthy(w, r)' <=> Healthy(w, r)
  <2>1. Deadline(w)' = Deadline(w)
    BY <1>1 DEF Deadline
  <2>2. Deadline(w) \in Nat
    BY <1>0, DeadlineType DEF Procs
  <2> QED BY <1>1, <2>1, <2>2 DEF Healthy, Executing
<1>4. ASSUME NEW w \in Workers, NEW r \in RunIds, Healthy(w, r)
      PROVE  elapsed[r] < Deadline(w)
  BY <1>4 DEF Advance, OnTime, Healthy, Procs
<1>5. \A w \in Workers, r \in RunIds : Healthy(w, r)' => elapsed'[r] <= Deadline(w)'
  BY <1>2, <1>3, <1>4
<1>6. ASSUME NEW r \in reapTodo, status[r] = "running" PROVE reapSeen[r] <= elapsed'[r]
  <2>1. r \in RunIds /\ reapSeen[r] \in Nat /\ reapSeen[r] <= elapsed[r]
    BY <1>0, <1>6 DEF ReapTypeOK, HealthInv, ReapInv
  <2> QED BY <1>2, <2>1
<1>7. ASSUME NEW w \in Workers, Healthy(w, reapRun)' PROVE Healthy(w, reapRun)
  BY <1>1, <1>7 DEF Healthy, Executing
<1>8. ReapInv'
  BY <1>1, <1>5, <1>6, <1>7 DEF HealthInv, ReapInv
<1>9. HealthyNotReaped'
  BY <1>1 DEF HealthInv, HealthyNotReaped, Executing
<1> QED BY <1>8, <1>9 DEF HealthInv

\* A healthy worker that executes its run is inside the reaper's window.
LEMMA HealthyInWindow ==
    ASSUME ProcTypeOK, StoreTypeOK, ReapTypeOK, HealthInv, NEW w \in Workers, NEW r \in reapTodo,
           Healthy(w, r)
    PROVE  /\ pc[w] \in {"exec", "finish"} => WithinWindow(reapSeen[r], limit[w])
           /\ pc[w] = "load" => reapSeen[r] < Slack
<1>1. r \in RunIds /\ reapSeen[r] \in Nat /\ elapsed[r] \in Nat /\ limit[w] \in Nat
  BY DEF ReapTypeOK, StoreTypeOK, ProcTypeOK, Procs
<1>2. elapsed[r] <= Deadline(w) /\ reapSeen[r] <= elapsed[r]
  BY <1>1 DEF HealthInv, ReapInv, Healthy
<1>3. CASE pc[w] \in {"exec", "finish"}
  <2>1. Deadline(w) \in Nat /\ Deadline(w) <= LoadDelay + limit[w] + FinishDelay
    BY <1>1, <1>3 DEF Deadline
  <2> QED BY <1>1, <1>2, <1>3, <2>1 DEF WithinWindow
<1>4. CASE pc[w] = "load"
  <2>1. Deadline(w) = LoadDelay
    BY <1>4 DEF Deadline
  <2> QED BY <1>1, <1>2, <1>4, <2>1
<1> QED BY <1>3, <1>4

\* The reaper keeps its invariant: what it is about to fail is nobody's healthy run.
LEMMA ReapHealth ==
    ASSUME TypeInv, QueueInv, HealthInv, ReapOnce
    PROVE  HealthInv'
<1>0. StoreTypeOK /\ ProcTypeOK /\ ReapTypeOK /\ HeldInv /\ ExecutedByOne
  BY DEF TypeInv, TypeOK, QueueInv
<1>1. UNCHANGED <<pc, held, limit, stuck, up>> /\ up
  BY DEF ReapOnce, ReapList, ReapLook, ReapLoad, ReapFail, procVars
<1>2. ASSUME NEW w \in Workers PROVE Deadline(w)' = Deadline(w)
  BY <1>1 DEF Deadline
\* What is left to show when the tables stay as they are.
<1>3. ASSUME UNCHANGED <<status, elapsed>>
      PROVE  /\ HealthyNotReaped'
             /\ \A w \in Workers, r \in RunIds : Healthy(w, r)' => elapsed'[r] <= Deadline(w)'
             /\ \A w \in Workers : Healthy(w, reapRun') = Healthy(w, reapRun)'
  <2>1. \A w \in Workers, r \in RunIds : Healthy(w, r)' = Healthy(w, r)
    BY <1>1, <1>3 DEF Healthy, Executing
  <2>2. \A w \in Workers : Healthy(w, reapRun') = Healthy(w, reapRun)'
    BY <1>1, <1>3 DEF Healthy, Executing
  <2>3. HealthyNotReaped'
    BY <1>1, <1>3 DEF HealthInv, HealthyNotReaped, Executing
  <2> QED BY <1>2, <1>3, <2>1, <2>2, <2>3 DEF HealthInv, ReapInv
\* Going on to the next run of the list.
<1>4. ASSUME NEW todo \in SUBSET reapTodo, ReapNext(todo), UNCHANGED <<status, elapsed>>
      PROVE  HealthInv'
  <2>1. reapTodo' = todo /\ reapStep' \in {"idle", "look"}
    BY <1>4 DEF ReapNext
  <2>2. \A r \in todo : r \in reapTodo /\ reapSeen'[r] = reapSeen[r]
    BY <1>0, <1>4 DEF ReapNext, ReapTypeOK
  <2>3. ReapInv'
    BY <1>1, <1>3, <1>4, <2>1, <2>2 DEF HealthInv, ReapInv
  <2> QED BY <1>3, <1>4, <2>3 DEF HealthInv
<1>5. CASE ReapList
  <2>1. /\ UNCHANGED <<status, elapsed>> /\ reapStep' = "look"
        /\ reapTodo' = {r \in RunIds : status[r] = "running"}
        /\ reapSeen' = [r \in RunIds |-> IF status[r] = "running" THEN elapsed[r] ELSE 0]
    BY <1>5 DEF ReapList, storeVars, runVars
  <2>2. \A r \in reapTodo' : /\ status'[r] \notin {"none", "pending"}
                              /\ status'[r] = "running" => reapSeen'[r] <= elapsed'[r]
    BY <1>0, <2>1 DEF StoreTypeOK
  <2>3. ReapInv'
    BY <1>1, <1>3, <2>1, <2>2 DEF ReapInv
  <2> QED BY <1>3, <2>1, <2>3 DEF HealthInv
<1>6. ASSUME NEW r \in RunIds, ReapLook(r) PROVE HealthInv'
  <2>1. UNCHANGED <<status, elapsed>> /\ r \in reapTodo
    BY <1>6 DEF ReapLook, storeVars, runVars
  <2>2. CASE \E w \in InFlight(r) : WithinWindow(reapSeen[r], limit[w])
    <3>1. ReapNext(reapTodo \ {r})
      BY <1>6, <2>2 DEF ReapLook
    <3> QED BY <1>4, <2>1, <3>1
  <2>3. CASE ~\E w \in InFlight(r) : WithinWindow(reapSeen[r], limit[w])
    <3>1. /\ reapStep' = "load" /\ reapRun' = r /\ reapOurs' = (InFlight(r) # {})
          /\ UNCHANGED <<reapTodo, reapSeen>>
      BY <1>6, <2>3 DEF ReapLook
    <3>2. ASSUME NEW w \in Workers, Healthy(w, r) PROVE InFlight(r) = {} /\ reapSeen[r] < Slack
      <4>1. Executing(w) /\ held[w] = r
        BY <3>2 DEF Healthy
      <4>2. pc[w] = "load"
        BY <1>0, <2>1, <2>3, <3>2, <4>1, HealthyInWindow DEF InFlight, Executing
      <4>3. \A v \in Workers : pc[v] \in {"exec", "finish"} => held[v] # r
        BY <1>0, <4>1, <4>2 DEF ExecutedByOne, Executing, Procs
      <4> QED BY <1>0, <2>1, <3>2, <4>2, <4>3, HealthyInWindow DEF InFlight
    <3>3. \A w \in Workers : Healthy(w, reapRun)' => ~reapOurs' /\ reapSeen'[reapRun'] < Slack
      BY <1>3, <2>1, <3>1, <3>2
    <3>4. ReapInv'
      BY <1>1, <1>3, <2>1, <3>1, <3>3 DEF HealthInv, ReapInv
    <3> QED BY <1>3, <2>1, <3>4 DEF HealthInv
  <2> QED BY <2>2, <2>3
<1>7. CASE ReapLoad
  <2>1. UNCHANGED <<status, elapsed>> /\ reapStep = "load"
    BY <1>7 DEF ReapLoad, storeVars, runVars
  <2>2. CASE ReapGoOn
    BY <1>4, <2>1, <2>2 DEF ReapGoOn
  <2>3. CASE ~ReapGoOn
    <3>1. /\ reapStep' = "fail" /\ UNCHANGED <<reapTodo, reapSeen, reapRun, reapOurs>>
          /\ ~(~reapOurs /\ WithinWindow(reapSeen[reapRun], job[jobOf[reapRun]].limit))
      BY <1>7, <2>3 DEF ReapLoad
    <3>2. \A w \in Workers : ~Healthy(w, reapRun)
      BY <2>1, <3>1 DEF HealthInv, ReapInv, WithinWindow
    <3>3. \A w \in Workers : ~Healthy(w, reapRun)'
      BY <1>3, <2>1, <3>1, <3>2
    <3>4. ReapInv'
      BY <1>1, <1>3, <2>1, <3>1, <3>3 DEF HealthInv, ReapInv
    <3> QED BY <1>3, <2>1, <3>4 DEF HealthInv
  <2> QED BY <2>2, <2>3
<1>8. CASE ReapFail
  <2>1. ReapNext(reapTodo \ {reapRun}) /\ reapStep = "fail" /\ reapRun \in RunIds
    BY <1>0, <1>8 DEF ReapFail, ReapGoOn, HealthInv, ReapInv, ReapTypeOK
  <2>2. CASE UNCHANGED runVars
    BY <1>4, <2>1, <2>2 DEF runVars
  <2>3. CASE EndRun(reapRun, "reaped") /\ ~UNCHANGED runVars
    <3>1. /\ status[reapRun] = "running" /\ status' = [status EXCEPT ![reapRun] = "reaped"]
          /\ elapsed' = [elapsed EXCEPT ![reapRun] = 0]
      BY <2>3 DEF EndRun
    <3>2. status'[reapRun] = "reaped"
      BY <1>0, <2>1, <3>1 DEF StoreTypeOK
    <3>3. \A r \in RunIds : r # reapRun => status'[r] = status[r] /\ elapsed'[r] = elapsed[r]
      BY <1>0, <3>1 DEF StoreTypeOK
    <3>4. \A w \in Workers : ~Healthy(w, reapRun)
      BY <2>1 DEF HealthInv, ReapInv
    <3>5. reapTodo' = reapTodo \ {reapRun} /\ reapStep' \in {"idle", "look"}
      BY <2>1 DEF ReapNext
    <3>6. \A r \in reapTodo' : r \in RunIds /\ r \in reapTodo /\ r # reapRun /\ reapSeen'[r] = reapSeen[r]
      BY <1>0, <2>1 DEF ReapNext, ReapTypeOK
    <3>7. ASSUME NEW w \in Workers, NEW r \in RunIds, Healthy(w, r)'
          PROVE  elapsed'[r] <= Deadline(w)'
      <4>1. r # reapRun
        BY <3>2, <3>7 DEF Healthy
      <4>2. Healthy(w, r)
        BY <1>1, <3>3, <3>7, <4>1 DEF Healthy, Executing
      <4> QED BY <1>2, <3>3, <4>1, <4>2 DEF HealthInv, ReapInv
    <3>8. ReapInv'
      BY <1>1, <3>3, <3>5, <3>6, <3>7 DEF HealthInv, ReapInv
    <3>9. ASSUME NEW w \in Workers, Executing(w)', ~stuck'[w] PROVE status'[held'[w]] # "reaped"
      <4>1. Executing(w) /\ ~stuck[w] /\ held'[w] = held[w] /\ held[w] \in RunIds
        BY <1>0, <1>1, <3>9 DEF HeldInv, Executing, Procs
      <4>2. held[w] # reapRun
        BY <3>1, <3>4, <4>1 DEF Healthy
      <4> QED BY <3>3, <4>1, <4>2 DEF HealthInv, HealthyNotReaped
    <3> QED BY <3>8, <3>9 DEF HealthInv, HealthyNotReaped
  <2> QED BY <1>8, <2>2, <2>3 DEF ReapFail
<1> QED BY <1>5, <1>6, <1>7, <1>8 DEF ReapOnce

\* Every step keeps the reaper invariant.
LEMMA HealthStep == TypeInv /\ TypeInv' /\ QueueInv /\ HealthInv /\ [Next]_vars => HealthInv'
<1> SUFFICES ASSUME TypeInv, TypeInv', QueueInv, HealthInv, [Next]_vars PROVE HealthInv'
  OBVIOUS
<1>1. CASE UNCHANGED vars
  <2>1. UNCHANGED procVars /\ UNCHANGED runVars /\ UNCHANGED <<reapVars, up>>
    BY <1>1 DEF vars, procVars, runVars, reapVars
  <2> QED BY <2>1, ProcKeptHealth, RunsKeptAge, HealthKeeps DEF TypeInv, TypeOK, QueueInv
<1>2. CASE Next
  BY <1>2, TickHealth, ClaimHealth, WorkerHealth, ReapHealth, RestartHealth, ManualHealth,
     OutsideHealth, AdvanceHealth DEF Next, ClaimAndRun
<1> QED BY <1>1, <1>2

-----------------------------------------------------------------------------
\* The inductive invariant.
Inv == TypeInv /\ QueueInv /\ OverlapInv /\ HealthInv

\* The inductive invariant holds of the empty database.
LEMMA InvInit == Init => Inv
<1> SUFFICES ASSUME Init PROVE Inv
  OBVIOUS
<1>1. QueueInv
  BY DEF Init, StoreInit, QueueInv, OneTerminalEvent, HeldInv, ExecutedByOne, Executing, Live, Terminal, Procs
<1>2. OverlapInv
  BY DEF Init, StoreInit, OverlapInv, TickInv, SchedulerNoOverlap
<1>3. \A w \in Workers : ~Executing(w)
  BY DEF Init, Executing, Procs
<1>4. HealthInv
  BY <1>3 DEF Init, HealthInv, ReapInv, HealthyNotReaped, Healthy
<1> QED BY <1>1, <1>2, <1>4, TypeInit DEF Inv

\* Every step keeps the inductive invariant.
LEMMA InvStep == Inv /\ [Next]_vars => Inv'
BY TypeStep, QueueStep, OverlapStep, HealthStep DEF Inv, HealthInv

\* The inductive invariant holds in every reachable state, for every number of jobs, runs, workers,
\* clients, faults and crashes.
THEOREM Invariance == Spec => []Inv
BY InvInit, InvStep, PTL DEF Spec

\* However late workers, retried and ambiguous finishes, reaps, requeues and
\* deletions interleave, a run that ended has exactly one terminal event.
THEOREM RunEndsOnce == Spec => []OneTerminalEvent
<1>1. Inv => OneTerminalEvent
  BY DEF Inv, QueueInv
<1> QED BY <1>1, Invariance, PTL

\* No run is ever in the hands of two live processes, whatever crashes and
\* restarts while `tend run` commands are at work.
THEOREM OneExecutor == Spec => []ExecutedByOne
<1>1. Inv => ExecutedByOne
  BY DEF Inv, QueueInv
<1> QED BY <1>1, Invariance, PTL

\* The no-overlap guard of DueJobs, read once per pass, is enough.
THEOREM SchedulerSafe == Spec => []SchedulerNoOverlap
<1>1. Inv => SchedulerNoOverlap
  BY DEF Inv, OverlapInv
<1> QED BY <1>1, Invariance, PTL

\* The reaper never fails the run of a worker that keeps its deadlines, as
\* long as loading and finishing take less than reapSlack together.
THEOREM ReaperSparesHealthy == Spec => []HealthyNotReaped
<1>1. Inv => HealthyNotReaped
  BY DEF Inv, HealthInv
<1> QED BY <1>1, Invariance, PTL

-----------------------------------------------------------------------------
(***************************************************************************)
(* The runner implements RunLifecycle.  StateBar and Hands are the state   *)
(* function and the takers of the refinement mapping; a step is classified *)
(* by what it does to the run table and to the hands runs are in.          *)
(***************************************************************************)
StateBar == [r \in RunIds |-> IF status[r] \in Terminal THEN "ended" ELSE status[r]]
Hands == [r \in RunIds |-> {p \in Procs : Executing(p) /\ held[p] = r}]

\* Nobody takes or lets go of a run.
HandsKept ==
    \A p \in Procs : /\ Executing(p)' <=> Executing(p)
                     /\ Executing(p) => held'[p] = held[p]

\* A step that leaves the workers alone keeps every run in its hands.
LEMMA SameHands ==
    ASSUME UNCHANGED <<pc, held>>
    PROVE  HandsKept
BY DEF HandsKept, Executing

\* When nobody takes or lets go of a run, the takers of every run stay.
LEMMA HandsBar ==
    ASSUME HandsKept
    PROVE  Hands' = Hands
<1>1. ASSUME NEW r \in RunIds
      PROVE  {p \in Procs : Executing(p)' /\ held'[p] = r} = {p \in Procs : Executing(p) /\ held[p] = r}
  BY DEF HandsKept
<1>2. Hands' = [r \in RunIds |-> {p \in Procs : Executing(p)' /\ held'[p] = r}]
  BY DEF Hands
<1> HIDE DEF HandsKept
<1> QED BY <1>1, <1>2 DEF Hands

\* A step that leaves statuses and events alone, and in which workers at most
\* let go of their runs, is a step in which workers let go.
LEMMA LetGoRefines ==
    ASSUME OnlyLetGo, UNCHANGED <<status, terminals>>
    PROVE  Lifecycle!LNext
<1> DEFINE gone == {p \in Procs : ~Executing(p)'}
<1>1. StateBar' = StateBar
  BY DEF StateBar
<1>2. ASSUME NEW r \in RunIds
      PROVE  {p \in Procs : Executing(p)' /\ held'[p] = r} = {p \in Procs : Executing(p) /\ held[p] = r} \ gone
  BY DEF OnlyLetGo
<1>3. Hands' = [r \in RunIds |-> {p \in Procs : Executing(p)' /\ held'[p] = r}]
  BY DEF Hands
<1>4. \A r \in RunIds : Hands[r] = {p \in Procs : Executing(p) /\ held[p] = r}
  BY DEF Hands
<1>5. gone \in SUBSET Procs
  OBVIOUS
<1> HIDE DEF gone
<1>6. Hands' = [r \in RunIds |-> Hands[r] \ gone]
  BY <1>2, <1>3, <1>4
<1>7. Lifecycle!LLetGo
  BY <1>1, <1>5, <1>6 DEF Lifecycle!LLetGo, StateBar, Hands
<1> QED BY <1>7 DEF Lifecycle!LNext

\* EnqueueRun queues a run that was never used.
LEMMA EnqueueRefines ==
    ASSUME StoreTypeOK, HandsKept, NEW j, NEW b, EnqueueRun(j, b)
    PROVE  Lifecycle!LNext
<1>1. PICK r \in RunIds : /\ status[r] = "none"
                          /\ status' = [status EXCEPT ![r] = "pending"]
                          /\ terminals' = terminals
  BY DEF EnqueueRun, NewRunId
<1>2. StateBar[r] = "none"
  BY <1>1 DEF StateBar, Terminal
<1>3. StateBar' = [StateBar EXCEPT ![r] = "pending"]
  BY <1>1 DEF StateBar, Terminal, StoreTypeOK
<1>4. Hands' = Hands
  BY HandsBar
<1>5. Lifecycle!LEnqueue(r)
  BY <1>1, <1>2, <1>3, <1>4 DEF Lifecycle!LEnqueue, StateBar, Hands
<1> QED BY <1>5 DEF Lifecycle!LNext

\* FailUnreadableJob records an ended run with its one event.
LEMMA UnreadableRefines ==
    ASSUME StoreTypeOK, OneTerminalEvent, HandsKept, NEW j, FailUnreadableJob(j)
    PROVE  Lifecycle!LNext
<1>1. PICK r \in RunIds : /\ status[r] = "none"
                          /\ status' = [status EXCEPT ![r] = "failed"]
                          /\ terminals' = [terminals EXCEPT ![r] = @ + 1]
  BY DEF FailUnreadableJob, NewRunId
<1>2. StateBar[r] = "none"
  BY <1>1 DEF StateBar, Terminal
<1>3. StateBar' = [StateBar EXCEPT ![r] = "ended"]
  BY <1>1 DEF StateBar, Terminal, StoreTypeOK
<1>4. Hands' = Hands
  BY HandsBar
<1>5. terminals[r] = 0
  BY <1>1 DEF OneTerminalEvent
<1>6. terminals' = [terminals EXCEPT ![r] = 1]
  BY <1>1, <1>5
<1>7. Lifecycle!LRecordFailed(r)
  BY <1>2, <1>3, <1>4, <1>6 DEF Lifecycle!LRecordFailed, StateBar, Hands
<1> QED BY <1>7 DEF Lifecycle!LNext

\* A claim hands a pending run, which nobody has, to a process that has none.
LEMMA ClaimRefines ==
    ASSUME StoreTypeOK, ProcTypeOK, HeldInv, NEW p \in Procs, Claim(p)
    PROVE  Lifecycle!LNext
<1>1. PICK r \in RunIds : /\ status[r] = "pending"
                          /\ status' = [status EXCEPT ![r] = "running"]
                          /\ terminals' = terminals
                          /\ held' = [held EXCEPT ![p] = r]
  BY DEF Claim, ClaimRun, Pending
<1>2. pc[p] = "idle" /\ pc' = [pc EXCEPT ![p] = "load"]
  BY DEF Claim
<1>3. StateBar[r] = "pending"
  BY <1>1 DEF StateBar, Terminal
<1>4. StateBar' = [StateBar EXCEPT ![r] = "running"]
  BY <1>1 DEF StateBar, Terminal, StoreTypeOK
<1>5. ~Executing(p) /\ Executing(p)' /\ held'[p] = r
  BY <1>1, <1>2 DEF Executing, ProcTypeOK
<1>6. \A q \in Procs : Executing(q) => held[q] # r
  BY <1>1 DEF HeldInv
<1>7. \A q \in Procs \ {p} : (Executing(q)' <=> Executing(q)) /\ held'[q] = held[q]
  BY <1>1, <1>2 DEF Executing, ProcTypeOK
<1>8. Hands[r] = {} /\ \A q \in RunIds : p \notin Hands[q]
  BY <1>5, <1>6 DEF Hands
<1>9. ASSUME NEW q \in RunIds
      PROVE  {x \in Procs : Executing(x)' /\ held'[x] = q} = IF q = r THEN {p} ELSE Hands[q]
  BY <1>5, <1>6, <1>7 DEF Hands
<1>10. Hands' = [q \in RunIds |-> {x \in Procs : Executing(x)' /\ held'[x] = q}]
  BY DEF Hands
<1>11. Hands' = [Hands EXCEPT ![r] = {p}]
  <2>1. Hands = [q \in RunIds |-> Hands[q]]
    BY DEF Hands
  <2> QED BY <1>9, <1>10, <2>1
<1>12. Lifecycle!LTake(r, p)
  BY <1>1, <1>3, <1>4, <1>8, <1>11 DEF Lifecycle!LTake, StateBar, Hands
<1> QED BY <1>12 DEF Lifecycle!LNext

\* A run that ends was running, gets its first and only event, and at most the
\* process that had it lets go.
LEMMA EndRefines ==
    ASSUME StoreTypeOK, OneTerminalEvent, OnlyLetGo,
           NEW r \in RunIds, NEW o \in Terminal, EndRun(r, o) \/ UNCHANGED runVars,
           \A p \in Procs : Executing(p) /\ held[p] # r => Executing(p)' /\ held'[p] = held[p]
    PROVE  Lifecycle!LNext
<1>1. CASE UNCHANGED <<status, terminals>>
  BY <1>1, LetGoRefines
<1>2. CASE ~UNCHANGED <<status, terminals>>
  <2>1. /\ status[r] = "running" /\ status' = [status EXCEPT ![r] = o]
        /\ terminals' = [terminals EXCEPT ![r] = @ + 1]
    BY <1>2 DEF EndRun, runVars
  <2>2. StateBar[r] = "running"
    BY <2>1 DEF StateBar, Terminal
  <2>3. StateBar' = [StateBar EXCEPT ![r] = "ended"]
    BY <2>1 DEF StateBar, Terminal, StoreTypeOK
  <2>4. terminals[r] = 0
    BY <2>1 DEF OneTerminalEvent, Live
  <2>5. terminals' = [terminals EXCEPT ![r] = 1]
    BY <2>1, <2>4
  <2> DEFINE kept == {x \in Procs : Executing(x)' /\ held'[x] = r}
  <2>6. kept \in SUBSET Hands[r]
    BY DEF OnlyLetGo, Hands
  <2>7. ASSUME NEW q \in RunIds
        PROVE  {x \in Procs : Executing(x)' /\ held'[x] = q} = IF q = r THEN kept ELSE Hands[q]
    BY DEF OnlyLetGo, Hands
  <2>8. Hands' = [q \in RunIds |-> {x \in Procs : Executing(x)' /\ held'[x] = q}]
    BY DEF Hands
  <2> HIDE DEF kept
  <2>9. Hands' = [Hands EXCEPT ![r] = kept]
    <3>1. Hands = [q \in RunIds |-> Hands[q]]
      BY DEF Hands
    <3> QED BY <2>7, <2>8, <3>1
  <2>10. Lifecycle!LEnd(r)
    BY <2>2, <2>3, <2>5, <2>6, <2>9 DEF Lifecycle!LEnd, StateBar, Hands
  <2> QED BY <2>10 DEF Lifecycle!LNext
<1> QED BY <1>1, <1>2

\* RequeueOrphanedRuns hands out again only runs that nobody has: serve's
\* workers are off, and a run in the hands of `tend run` is claimed by it.
LEMMA StartRefines ==
    ASSUME StoreTypeOK, ProcTypeOK, HeldInv, Start
    PROVE  Lifecycle!LNext
<1> DEFINE orphans == {r \in RunIds : status[r] = "running" /\ claimedBy[r] \notin Manual}
<1>1. /\ status' = [r \in RunIds |-> IF r \in orphans THEN "pending" ELSE status[r]]
      /\ terminals' = terminals
  BY DEF Start, RequeueOrphanedRuns
<1>2. /\ pc' = [p \in Procs |-> IF p \in Workers THEN "idle" ELSE pc[p]]
      /\ ~up /\ held' = held
  BY DEF Start
<1>3. \A w \in Workers : pc[w] = "off"
  BY <1>2 DEF HeldInv
<1>4. HandsKept
  BY <1>2, <1>3 DEF HandsKept, Executing, Procs
<1>5. Hands' = Hands
  BY <1>4, HandsBar
<1>6. \A r \in orphans : StateBar[r] = "running"
  BY DEF StateBar, Terminal
<1>7. \A p \in Procs : Executing(p) => p \in Manual
  BY <1>3 DEF Executing, Procs
<1>8. \A r \in orphans : Hands[r] = {}
  BY <1>7 DEF HeldInv, Hands, Claimant
<1>9. orphans \in SUBSET {r \in RunIds : StateBar[r] = "running" /\ Hands[r] = {}}
  BY <1>6, <1>8
<1>10. StateBar' = [r \in RunIds |-> IF r \in orphans THEN "pending" ELSE StateBar[r]]
  <2>1. ASSUME NEW r \in RunIds
        PROVE  (IF status'[r] \in Terminal THEN "ended" ELSE status'[r])
               = IF r \in orphans THEN "pending" ELSE StateBar[r]
    BY <1>1 DEF StateBar, Terminal
  <2>2. StateBar' = [r \in RunIds |-> IF status'[r] \in Terminal THEN "ended" ELSE status'[r]]
    BY DEF StateBar, Terminal
  <2> HIDE DEF orphans
  <2> QED BY <2>1, <2>2
<1> HIDE DEF orphans
<1>11. Lifecycle!LRequeue
  BY <1>1, <1>5, <1>9, <1>10 DEF Lifecycle!LRequeue, StateBar, Hands
<1> QED BY <1>11 DEF Lifecycle!LNext

\* Deletion and retention take runs away for good, and only used ones.
LEMMA DeleteRefines ==
    ASSUME HandsKept, terminals' = terminals,
           NEW S \in SUBSET RunIds, \A r \in S : status[r] # "none",
           status' = [r \in RunIds |-> IF r \in S THEN "deleted" ELSE status[r]]
    PROVE  Lifecycle!LNext
<1>1. S \in SUBSET {r \in RunIds : StateBar[r] # "none"}
  BY DEF StateBar, Terminal
<1>2. StateBar' = [r \in RunIds |-> IF r \in S THEN "deleted" ELSE StateBar[r]]
  <2>1. ASSUME NEW r \in RunIds
        PROVE  (IF status'[r] \in Terminal THEN "ended" ELSE status'[r])
               = IF r \in S THEN "deleted" ELSE StateBar[r]
    BY DEF StateBar, Terminal
  <2>2. StateBar' = [r \in RunIds |-> IF status'[r] \in Terminal THEN "ended" ELSE status'[r]]
    BY DEF StateBar, Terminal
  <2> QED BY <2>1, <2>2
<1>3. Hands' = Hands
  BY HandsBar
<1>4. Lifecycle!LDelete
  BY <1>1, <1>2, <1>3 DEF Lifecycle!LDelete, StateBar, Hands
<1> QED BY <1>4 DEF Lifecycle!LNext

\* The steps of the scheduler.
LEMMA TickRefines ==
    ASSUME Inv, Tick
    PROVE  Lifecycle!LNext
<1>1. StoreTypeOK /\ OneTerminalEvent /\ HeldInv
  BY DEF Inv, TypeInv, TypeOK, QueueInv
<1>2. UNCHANGED <<pc, held, result>>
  BY DEF Tick, TickList, TickEnqueue, TickUnreadable, TickAdvance, procVars
<1>3. HandsKept /\ OnlyLetGo
  BY <1>1, <1>2, SameHands, ProcKept
<1>4. \/ UNCHANGED <<status, terminals>>
      \/ \E j \in Jobs : EnqueueRun(j, TRUE) \/ FailUnreadableJob(j)
  BY DEF Tick, TickList, TickEnqueue, TickUnreadable, TickAdvance, storeVars, runVars
<1> QED BY <1>1, <1>3, <1>4, LetGoRefines, EnqueueRefines, UnreadableRefines

\* The steps of a worker, or of a `tend run` process that drains the queue.
LEMMA WorkerRefines ==
    ASSUME Inv, NEW p \in Procs, ClaimAndRun(p) \/ Stick(p)
    PROVE  Lifecycle!LNext
<1>1. StoreTypeOK /\ ProcTypeOK /\ OneTerminalEvent /\ HeldInv
  BY DEF Inv, TypeInv, TypeOK, QueueInv
<1>2. CASE Claim(p)
  BY <1>1, <1>2, ClaimRefines
<1>3. CASE Load(p)
  <2>1. UNCHANGED <<status, terminals, up>>
    BY <1>3 DEF Load, storeVars, runVars
  <2>2. CASE Return(p, FALSE)
    BY <1>1, <2>1, <2>2, ReturnLetsGo, LetGoRefines
  <2>3. CASE ~Return(p, FALSE)
    <3>1. pc[p] = "load" /\ pc' = [pc EXCEPT ![p] = "exec"] /\ UNCHANGED <<held, result>>
      BY <1>3, <2>3 DEF Load
    <3>2. OnlyLetGo
      BY <1>1, <3>1 DEF HeldInv, OnlyLetGo, ProcTypeOK, Executing
    <3> QED BY <2>1, <3>2, LetGoRefines
  <2> QED BY <2>2, <2>3
<1>4. CASE ExecEnd(p)
  <2>1. UNCHANGED <<status, terminals>>
    BY <1>4 DEF ExecEnd, storeVars, runVars
  <2>2. /\ pc[p] = "exec" /\ pc' = [pc EXCEPT ![p] = "finish"] /\ held' = held
        /\ \E res \in {"succeeded", "failed"} : result' = [result EXCEPT ![p] = res]
    BY <1>4 DEF ExecEnd
  <2>3. OnlyLetGo
    BY <1>1, <2>2 DEF HeldInv, OnlyLetGo, ProcTypeOK, Executing
  <2> QED BY <2>1, <2>3, LetGoRefines
<1>5. CASE Stick(p)
  <2>1. UNCHANGED <<status, terminals, pc, held, result>>
    BY <1>5 DEF Stick, storeVars, runVars
  <2> QED BY <1>1, <2>1, ProcKept, LetGoRefines
<1>6. CASE Finish(p)
  <2>1. held[p] \in RunIds /\ result[p] \in Terminal /\ pc[p] = "finish"
    BY <1>1, <1>6 DEF Finish, HeldInv, Executing, Terminal
  <2>2. (EndRun(held[p], result[p]) \/ UNCHANGED runVars) /\ up' = up
    BY <1>6 DEF Finish
  <2>3. (\E ok \in BOOLEAN : Return(p, ok)) \/ UNCHANGED <<pc, held, result>>
    BY <1>6 DEF Finish
  <2>4. OnlyLetGo
    BY <1>1, <2>2, <2>3, ReturnLetsGo, ProcKept
  <2>5. \A q \in Procs : Executing(q) /\ held[q] # held[p] => Executing(q)' /\ held'[q] = held[q]
    <3>1. CASE UNCHANGED <<pc, held, result>>
      BY <3>1 DEF Executing
    <3>2. CASE \E ok \in BOOLEAN : Return(p, ok)
      BY <1>1, <3>2 DEF Return, Executing, ProcTypeOK
    <3> QED BY <2>3, <3>1, <3>2
  <2> QED BY <1>1, <2>1, <2>2, <2>4, <2>5, EndRefines
<1> QED BY <1>2, <1>3, <1>4, <1>5, <1>6 DEF ClaimAndRun

\* The steps of the reaper.
LEMMA ReapRefines ==
    ASSUME Inv, ReapOnce
    PROVE  Lifecycle!LNext
<1>1. StoreTypeOK /\ ReapTypeOK /\ OneTerminalEvent /\ HeldInv /\ ReapInv
  BY DEF Inv, TypeInv, TypeOK, QueueInv, HealthInv
<1>2. UNCHANGED <<pc, held, result>>
  BY DEF ReapOnce, ReapList, ReapLook, ReapLoad, ReapFail, procVars
<1>3. OnlyLetGo
  BY <1>1, <1>2, ProcKept
<1>4. \A p \in Procs : Executing(p) => Executing(p)' /\ held'[p] = held[p]
  BY <1>2 DEF Executing
<1>5. \/ UNCHANGED <<status, terminals>>
      \/ reapRun \in RunIds /\ (EndRun(reapRun, "reaped") \/ UNCHANGED runVars)
  BY <1>1 DEF ReapOnce, ReapList, ReapLook, ReapLoad, ReapFail, storeVars, runVars, ReapInv, ReapTypeOK
<1>6. "reaped" \in Terminal
  BY DEF Terminal
<1> QED BY <1>1, <1>3, <1>4, <1>5, <1>6, LetGoRefines, EndRefines

\* Starts, crashes and the other steps of `tend run`.
LEMMA ProcessRefines ==
    ASSUME Inv,
           \/ Start \/ Crash
           \/ \E m \in Manual : \/ \E j \in Jobs : ManualGet(m, j)
                               \/ ManualEnqueue(m) \/ DrainEnd(m) \/ ManualKilled(m)
    PROVE  Lifecycle!LNext
<1>1. StoreTypeOK /\ ProcTypeOK /\ HeldInv
  BY DEF Inv, TypeInv, TypeOK, QueueInv
<1>2. CASE Start
  BY <1>1, <1>2, StartRefines
<1>3. CASE Crash
  <2>1. UNCHANGED <<status, terminals>>
    BY <1>3 DEF Crash, storeVars, runVars
  <2>2. OnlyLetGo
    BY <1>1, <1>3 DEF Crash, HeldInv, OnlyLetGo, Executing
  <2> QED BY <2>1, <2>2, LetGoRefines
<1>4. ASSUME NEW m \in Manual,
             (\E j \in Jobs : ManualGet(m, j)) \/ ManualEnqueue(m) \/ DrainEnd(m)
      PROVE  Lifecycle!LNext
  <2>1. /\ UNCHANGED <<held, result>> /\ ~Executing(m)
        /\ \E to \in {"enqueue", "idle", "done"} : pc' = [pc EXCEPT ![m] = to]
    BY <1>4 DEF ManualGet, ManualEnqueue, DrainEnd, Executing
  <2>2. HandsKept /\ OnlyLetGo
    BY <1>1, <2>1 DEF HeldInv, OnlyLetGo, HandsKept, ProcTypeOK, Executing, Procs
  <2>3. UNCHANGED <<status, terminals>> \/ EnqueueRun(wanted[m], FALSE)
    BY <1>4 DEF ManualGet, ManualEnqueue, DrainEnd, storeVars, runVars
  <2> QED BY <1>1, <2>2, <2>3, LetGoRefines, EnqueueRefines
<1>5. ASSUME NEW m \in Manual, ManualKilled(m) PROVE Lifecycle!LNext
  <2>1. UNCHANGED <<status, terminals, up>> /\ Return(m, FALSE)
    BY <1>5 DEF ManualKilled, storeVars, runVars
  <2> QED BY <1>1, <2>1, ReturnLetsGo, LetGoRefines DEF Procs
<1> QED BY <1>2, <1>3, <1>4, <1>5

\* Clients, creation, deletion, retention, hand edits and time.
LEMMA OutsideRefines ==
    ASSUME Inv,
           \/ \E c \in Clients : (\E j \in Jobs, op \in ClientOps : ClientRead(c, j, op)) \/ ClientWrite(c)
           \/ \E j \in Jobs : Create(j) \/ Delete(j) \/ Damage(j) \/ BecomeDue(j)
           \/ \E r \in RunIds : Prune(r)
           \/ Advance
    PROVE  Lifecycle!LNext
<1>1. StoreTypeOK /\ HeldInv /\ TickInv
  BY DEF Inv, TypeInv, TypeOK, QueueInv, OverlapInv
<1>2. UNCHANGED <<pc, held, result>>
  BY DEF ClientRead, ClientWrite, Create, Delete, Damage, BecomeDue, Prune, Advance, notStore, procVars
<1>3. HandsKept /\ OnlyLetGo
  BY <1>1, <1>2, SameHands, ProcKept
<1>4. ASSUME NEW j \in Jobs, Delete(j) PROVE Lifecycle!LNext
  <2> DEFINE S == {r \in RunIds : jobOf[r] = j}
  <2>1. status' = [r \in RunIds |-> IF r \in S THEN "deleted" ELSE status[r]] /\ terminals' = terminals
    BY <1>4 DEF Delete, DeleteJob
  <2>2. S \in SUBSET RunIds /\ \A r \in S : status[r] # "none"
    BY <1>1 DEF TickInv
  <2> HIDE DEF S
  <2> QED BY <1>3, <2>1, <2>2, DeleteRefines
<1>5. ASSUME NEW r \in RunIds, Prune(r) PROVE Lifecycle!LNext
  <2> DEFINE S == {r}
  <2>1. status[r] \in Terminal /\ status' = [status EXCEPT ![r] = "deleted"] /\ terminals' = terminals
    BY <1>5 DEF Prune, PruneJobRuns
  <2>2. status' = [q \in RunIds |-> IF q \in S THEN "deleted" ELSE status[q]]
    BY <1>1, <2>1 DEF StoreTypeOK
  <2>3. S \in SUBSET RunIds /\ \A q \in S : status[q] # "none"
    BY <2>1 DEF Terminal
  <2> HIDE DEF S
  <2> QED BY <1>3, <2>1, <2>2, <2>3, DeleteRefines
<1>6. \/ UNCHANGED <<status, terminals>>
      \/ \E c \in Clients : EnqueueRun(cJob[c], FALSE)
      \/ \E j \in Jobs : Delete(j)
      \/ \E r \in RunIds : Prune(r)
  BY DEF ClientRead, ClientWrite, Create, Damage, BecomeDue, Advance, runVars, storeVars
<1> QED BY <1>1, <1>3, <1>4, <1>5, <1>6, LetGoRefines, EnqueueRefines

\* The runner implements the lifecycle a run is promised: every step of the
\* scheduler, the workers, the reaper, a restart or a client is a step of
\* RunLifecycle under the mapping that reads a terminal status as "ended" and
\* the live processes that hold a run as its takers.
THEOREM RunnerImplementsLifecycle == Spec => ImplementsLifecycle
<1>1. Init => Lifecycle!LInit
  <2> SUFFICES ASSUME Init PROVE Lifecycle!LInit
    OBVIOUS
  <2>1. StateBar = [r \in RunIds |-> "none"]
    BY DEF Init, StoreInit, StateBar, Terminal
  <2>2. terminals = [r \in RunIds |-> 0]
    BY DEF Init, StoreInit
  <2>3. \A p \in Procs : ~Executing(p)
    BY DEF Init, Executing
  <2>4. Hands = [r \in RunIds |-> {}]
    BY <2>3 DEF Hands
  <2> QED BY <2>1, <2>2, <2>4 DEF Lifecycle!LInit, StateBar, Hands
<1>2. Inv /\ [Next]_vars => [Lifecycle!LNext]_(Lifecycle!lifecycleVars)
  <2> SUFFICES ASSUME Inv, [Next]_vars PROVE [Lifecycle!LNext]_(Lifecycle!lifecycleVars)
    OBVIOUS
  <2>1. CASE UNCHANGED vars
    <3>1. UNCHANGED <<status, terminals, pc, held, result>>
      BY <2>1 DEF vars, procVars
    <3> QED BY <3>1, ProcKept, LetGoRefines DEF Inv, QueueInv
  <2>2. CASE Next
    BY <2>2, TickRefines, WorkerRefines, ReapRefines, ProcessRefines, OutsideRefines DEF Next
  <2> QED BY <2>1, <2>2
<1> QED BY <1>1, <1>2, Invariance, PTL DEF Spec, ImplementsLifecycle, Lifecycle!LSpec
=============================================================================
