--------------------------- MODULE ExecutorProofs ---------------------------
(***************************************************************************)
(* Proofs, for every set of jobs (any type, timeout, retry count and       *)
(* number of checks), every grace period and every schedule of children,   *)
(* servers, shutdowns and lag, that a restore drill's outcome is honest    *)
(* (DrillHonest) and that no run outlives the time limit the reaper judges *)
(* it by (WithinLimit).                                                    *)
(*                                                                         *)
(* The limit is computed by recursion over the attempts.  Its unfolding    *)
(* and the induction over it rest on the well-foundedness of < on the      *)
(* naturals, from module WellFoundedInduction.                             *)
(***************************************************************************)
EXTENDS Executor, TLAPS, WellFoundedInduction

DrillRow ==
    [scratch : {"none", "made", "replaced", "removed", "left"}, restore : Statuses, took : Int,
     step : Nat, passed : Nat, skipped : Nat, cleanups : Nat, began : Int,
     status : Statuses, exit : Int]

Phases == {"ready", "scratch", "step", "request", "body", "probe", "checks", "remove", "judge", "pause", "done"}

\* Every variable that the drill depends on has its type.
TypeInv ==
    /\ job \in JobSet
    /\ now \in Nat /\ lag \in Nat /\ parent \in BOOLEAN
    /\ ctx \in {"live", "deadline", "canceled"}
    /\ phase \in Phases
    /\ drill \in DrillRow

\* The attempt's context was not just killed by its own work.
Interrupted == lag > 0 \/ parent

\* What is true of a drill that has not failed yet, after done of its checks.
Unfailed(done) ==
    drill.status = "succeeded" =>
        /\ drill.restore = "succeeded" /\ drill.scratch = "made"
        /\ drill.passed + drill.skipped = done
        /\ drill.skipped > 0 => Interrupted

\* Only drills have drill phases, and an attempt starts without a drill.
PhaseInv ==
    /\ job.type # "drill" => phase \notin {"scratch", "checks", "remove"} /\ drill = NoDrill
    /\ job.type = "drill" => phase \notin {"request", "body", "probe"}
    /\ phase \in {"ready", "scratch", "pause"} => drill = NoDrill
    /\ ctx = "canceled" => parent

\* What each step of a drill may rely on.
StepInv ==
    job.type = "drill" =>
        /\ phase = "step" =>
            \/ /\ drill.step = 0 /\ drill.scratch \in {"made", "replaced"}
               /\ drill.status = "succeeded" /\ drill.passed = 0 /\ drill.skipped = 0 /\ drill.cleanups = 0
            \/ /\ drill.step \in 1..job.checks /\ drill.scratch \in {"made", "replaced"}
               /\ drill.cleanups = 0 /\ Unfailed(drill.step - 1)
            \/ /\ drill.step = job.checks + 2 /\ drill.scratch \in {"made", "replaced"}
               /\ job.cleanup /\ drill.cleanups = 1 /\ Unfailed(job.checks)
        /\ phase = "checks" =>
            /\ drill.step \in 1..(job.checks + 1) /\ drill.scratch \in {"made", "replaced"}
            /\ drill.cleanups = 0 /\ Unfailed(drill.step - 1)
            /\ drill.status = "succeeded" /\ ctx # "live" => Interrupted
        /\ phase = "remove" =>
            /\ drill.scratch \in {"made", "replaced"}
            /\ drill.cleanups = (IF job.cleanup THEN 1 ELSE 0)
            /\ Unfailed(job.checks)

Inv == TypeInv /\ PhaseInv /\ StepInv /\ DrillHonest

-----------------------------------------------------------------------------
(* The drill.                                                              *)

\* Lag and shutdown are remembered.
LEMMA InterruptedStays ==
    ASSUME TypeInv, Interrupted, lag' \in Nat, lag' >= lag, parent => parent'
    PROVE  Interrupted'
BY DEF TypeInv, Interrupted

\* A step that leaves job, phase, drill and outcome alone keeps the drill.
LEMMA WaitInv ==
    ASSUME Inv, UNCHANGED <<job, phase, drill, last>>,
           now' \in Nat, lag' \in Nat, lag' >= lag, parent' \in BOOLEAN, parent => parent',
           ctx' \in {"live", "deadline", "canceled"}, ctx' = "canceled" => parent',
           ctx' = ctx \/ Interrupted' \/ phase \in Waiting
    PROVE  Inv'
<1>0. TypeInv /\ PhaseInv /\ StepInv /\ DrillHonest
  BY DEF Inv
<1>1. Interrupted => Interrupted'
  BY <1>0, InterruptedStays
<1>2. TypeInv'
  BY <1>0 DEF TypeInv
<1>3. PhaseInv'
  BY <1>0 DEF PhaseInv
<1>5. StepInv'
  <2>2. (Unfailed(drill.step - 1) => Unfailed(drill.step - 1)') /\ (Unfailed(job.checks) => Unfailed(job.checks)')
    BY <1>1 DEF Unfailed
  <2>3. phase = "checks" => ctx' = ctx \/ Interrupted'
    BY DEF Waiting
  <2> HIDE DEF Unfailed
  <2> QED BY <1>0, <1>1, <2>2, <2>3 DEF StepInv
<1>6. DrillHonest'
  BY <1>0, <1>1 DEF DrillHonest, Interrupted
<1> QED BY <1>2, <1>3, <1>5, <1>6 DEF Inv

\* A failure is noted once, and changes nothing but the verdict.
LEMMA FailedFacts ==
    ASSUME NEW d \in DrillRow, NEW st \in {"failed", "timed_out"}, NEW x \in Int
    PROVE  /\ Failed(d, st, x) \in DrillRow
           /\ Failed(d, st, x).status # "succeeded"
           /\ Failed(d, st, x).scratch = d.scratch /\ Failed(d, st, x).restore = d.restore
           /\ Failed(d, st, x).step = d.step /\ Failed(d, st, x).passed = d.passed
           /\ Failed(d, st, x).skipped = d.skipped /\ Failed(d, st, x).cleanups = d.cleanups
BY DEF Failed, DrillRow, Statuses

\* The outcome of a step, and what it says of the context.
LEMMA OutcomeFacts ==
    ASSUME NEW c \in Int
    PROVE  /\ ShellOutcome(c).status \in {"succeeded", "failed", "timed_out"}
           /\ ShellOutcome(c).exit \in Int
           /\ ShellOutcome(c).status = "succeeded" => ctx # "deadline"
BY DEF ShellOutcome

\* Noting an outcome: the drill goes on as unfailed only when the step succeeded.
LEMMA NotedFacts ==
    ASSUME NEW d \in DrillRow, NEW o, o.status \in {"succeeded", "failed", "timed_out"}, o.exit \in Int
    PROVE  /\ Noted(d, o) \in DrillRow
           /\ Noted(d, o).status = "succeeded" => o.status = "succeeded" /\ d.status = "succeeded"
           /\ Noted(d, o).scratch = d.scratch /\ Noted(d, o).restore = d.restore
           /\ Noted(d, o).step = d.step /\ Noted(d, o).passed = d.passed
           /\ Noted(d, o).skipped = d.skipped /\ Noted(d, o).cleanups = d.cleanups
<1>1. CASE o.status = "succeeded"
  BY <1>1 DEF Noted
<1>2. CASE o.status # "succeeded"
  <2>1. Noted(d, o) = Failed(d, o.status, o.exit) /\ o.status \in {"failed", "timed_out"}
    BY <1>2 DEF Noted
  <2>2. Failed(d, o.status, o.exit) \in DrillRow /\ Failed(d, o.status, o.exit).status # "succeeded"
    BY <2>1, FailedFacts
  <2> QED BY <2>1, <2>2, FailedFacts
<1> QED BY <1>1, <1>2

\* What the guards and the frames of a step that ends an attempt amount to.
LEMMA ResultInv ==
    ASSUME Inv, job.type # "drill" \/ phase = "scratch", phase # "done",
           UNCHANGED <<job, now, lag, parent, drill>>,
           phase' = "judge", ctx' = "live"
    PROVE  Inv'
<1>0. TypeInv /\ PhaseInv /\ StepInv /\ DrillHonest
  BY DEF Inv
<1>1. TypeInv'
  BY <1>0 DEF TypeInv, Phases
<1>2. drill.scratch = "none"
  BY <1>0 DEF PhaseInv, NoDrill
<1>3. PhaseInv'
  BY <1>0 DEF PhaseInv
<1>4. StepInv' /\ DrillHonest'
  BY <1>2 DEF StepInv, DrillHonest
<1> QED BY <1>1, <1>3, <1>4 DEF Inv

LEMMA RunOnceInv ==
    ASSUME Inv, RunOnce
    PROVE  Inv'
<1>0. TypeInv /\ PhaseInv /\ StepInv /\ DrillHonest
  BY DEF Inv
<1>1. /\ phase = "ready" /\ phase' = FirstPhase[job.type]
      /\ ctx' = (IF parent THEN "canceled" ELSE "live")
      /\ UNCHANGED <<job, now, lag, parent, drill>>
  BY DEF RunOnce
<1>2. job.type \in {"shell", "http", "probe", "drill"}
  BY <1>0, ExecutorAssumption DEF TypeInv, JobSet
<1>3. /\ phase' \in {"step", "request", "probe", "scratch"}
      /\ job.type = "drill" => phase' = "scratch"
      /\ job.type # "drill" => phase' # "scratch"
  BY <1>1, <1>2 DEF FirstPhase
<1>4. TypeInv'
  BY <1>0, <1>1, <1>3 DEF TypeInv, Phases
<1>5. PhaseInv'
  BY <1>0, <1>1, <1>3 DEF PhaseInv
<1>6. StepInv' /\ DrillHonest'
  BY <1>1, <1>3 DEF StepInv, DrillHonest
<1> QED BY <1>4, <1>5, <1>6 DEF Inv

LEMMA MakeScratchInv ==
    ASSUME Inv, MakeScratch
    PROVE  Inv'
<1>0. TypeInv /\ PhaseInv /\ StepInv /\ DrillHonest
  BY DEF Inv
<1>1. CASE Result(NoAnswer) /\ UNCHANGED drill
  BY <1>1, ResultInv DEF MakeScratch, Result
<1>2. CASE phase' = "step"
  <2>1. /\ phase = "scratch" /\ drill' = [drill EXCEPT !.scratch = "made", !.began = now]
        /\ UNCHANGED <<job, now, lag, parent, ctx>>
    BY <1>2 DEF MakeScratch, Result
  <2>2. job.type = "drill" /\ drill = NoDrill
    BY <1>0, <2>1 DEF PhaseInv
  <2>3. drill' = [NoDrill EXCEPT !.scratch = "made", !.began = now]
    BY <2>1, <2>2
  <2>4. /\ drill'.step = 0 /\ drill'.scratch = "made" /\ drill'.status = "succeeded"
        /\ drill'.passed = 0 /\ drill'.skipped = 0 /\ drill'.cleanups = 0
    BY <2>3 DEF NoDrill
  <2>5. TypeInv'
    <3>1. now \in Nat
      BY <1>0 DEF TypeInv
    <3>2. drill' \in DrillRow
      <4>1. drill' = [scratch |-> "made", restore |-> "none", took |-> 0, step |-> 0,
                      passed |-> 0, skipped |-> 0, cleanups |-> 0, began |-> now,
                      status |-> "succeeded", exit |-> 0]
        BY <2>3 DEF NoDrill
      <4> QED BY <3>1, <4>1 DEF DrillRow, Statuses
    <3> QED BY <1>0, <1>2, <2>1, <3>2 DEF TypeInv, Phases
  <2>6. PhaseInv' /\ DrillHonest'
    BY <1>0, <1>2, <2>1, <2>2 DEF PhaseInv, DrillHonest
  <2>7. StepInv'
    BY <1>2, <2>1, <2>2, <2>4 DEF StepInv
  <2> QED BY <2>5, <2>6, <2>7 DEF Inv
<1> QED BY <1>1, <1>2 DEF MakeScratch

LEMMA ReplaceInv ==
    ASSUME Inv, RestoreReplacesScratch
    PROVE  Inv'
<1>0. TypeInv /\ PhaseInv /\ StepInv /\ DrillHonest
  BY DEF Inv
<1>1. /\ phase = "step" /\ drill.step = 0 /\ drill.scratch = "made"
      /\ drill' = [drill EXCEPT !.scratch = "replaced"]
      /\ UNCHANGED <<job, now, lag, parent, ctx, phase>>
  BY DEF RestoreReplacesScratch
<1>2. job.type = "drill"
  BY <1>0, <1>1 DEF PhaseInv, NoDrill
<1>3. /\ drill'.step = drill.step /\ drill'.scratch = "replaced" /\ drill'.status = drill.status
      /\ drill'.passed = drill.passed /\ drill'.skipped = drill.skipped /\ drill'.cleanups = drill.cleanups
  BY <1>0, <1>1 DEF TypeInv, DrillRow
<1>4. TypeInv'
  BY <1>0, <1>1 DEF TypeInv, DrillRow
<1>5. PhaseInv' /\ DrillHonest'
  BY <1>0, <1>1, <1>2 DEF PhaseInv, DrillHonest
<1>6. job.checks \in Nat
  BY <1>0, ExecutorAssumption DEF TypeInv, JobSet
<1>7. /\ drill.status = "succeeded" /\ drill.passed = 0 /\ drill.skipped = 0 /\ drill.cleanups = 0
  BY <1>0, <1>1, <1>2, <1>6 DEF StepInv
<1>8. StepInv'
  BY <1>1, <1>3, <1>7 DEF StepInv
<1> QED BY <1>4, <1>5, <1>8 DEF Inv

LEMMA RestoreEndsInv ==
    ASSUME Inv, RestoreEnds
    PROVE  Inv'
<1>0. TypeInv /\ PhaseInv /\ StepInv /\ DrillHonest
  BY DEF Inv
<1>1. PICK c \in {-1, 0, 1} :
        /\ RunReturns(c)
        /\ LET o == ShellOutcome(c)
               d == Noted([drill EXCEPT !.restore = o.status, !.took = now - drill.began,
                                        !.began = 0, !.step = 1], o)
           IN drill' = IF o.status = "succeeded" /\ drill.scratch = "replaced"
                       THEN Failed(d, "failed", -1) ELSE d
  BY DEF RestoreEnds
<1> DEFINE o == ShellOutcome(c)
           e == [drill EXCEPT !.restore = o.status, !.took = now - drill.began, !.began = 0, !.step = 1]
           d == Noted(e, o)
<1>2. /\ job.type = "drill" /\ drill.step = 0 /\ phase = "step" /\ phase' = "checks"
      /\ UNCHANGED <<job, now, lag, parent, ctx>>
      /\ drill' = IF o.status = "succeeded" /\ drill.scratch = "replaced"
                  THEN Failed(d, "failed", -1) ELSE d
  BY <1>1 DEF RestoreEnds, RunReturns
<1>3. /\ o.status \in {"succeeded", "failed", "timed_out"} /\ o.exit \in Int
      /\ o.status = "succeeded" => ctx # "deadline"
  BY OutcomeFacts
<1>4. job.checks \in Nat
  BY <1>0, ExecutorAssumption DEF TypeInv, JobSet
<1>5. /\ drill.scratch \in {"made", "replaced"} /\ drill.status = "succeeded"
      /\ drill.passed = 0 /\ drill.skipped = 0 /\ drill.cleanups = 0
  BY <1>0, <1>2, <1>4 DEF StepInv
<1>6. /\ e \in DrillRow /\ e.restore = o.status /\ e.step = 1 /\ e.scratch = drill.scratch
      /\ e.passed = 0 /\ e.skipped = 0 /\ e.cleanups = 0
  <2>1. drill \in DrillRow /\ now - drill.began \in Int
    BY <1>0 DEF TypeInv, DrillRow
  <2> HIDE DEF o
  <2>2. e \in DrillRow
    <3>1. o.status \in Statuses
      BY <1>3 DEF Statuses
    <3>2. \A r \in DrillRow, st \in Statuses : [r EXCEPT !.restore = st] \in DrillRow
      BY DEF DrillRow
    <3>3. \A r \in DrillRow, t \in Int : [r EXCEPT !.took = t] \in DrillRow
      BY DEF DrillRow
    <3>4. \A r \in DrillRow : [r EXCEPT !.began = 0] \in DrillRow
      BY DEF DrillRow
    <3>5. \A r \in DrillRow : [r EXCEPT !.step = 1] \in DrillRow
      BY DEF DrillRow
    <3>6. e = [[[[drill EXCEPT !.restore = o.status] EXCEPT !.took = now - drill.began] EXCEPT !.began = 0] EXCEPT !.step = 1]
      BY DEF DrillRow
    <3>7. [[[drill EXCEPT !.restore = o.status] EXCEPT !.took = now - drill.began] EXCEPT !.began = 0] \in DrillRow
      <4>1. [drill EXCEPT !.restore = o.status] \in DrillRow
        BY <2>1, <3>1, <3>2
      <4> DEFINE f == [drill EXCEPT !.restore = o.status]
                 t == now - drill.began
      <4>2. f \in DrillRow /\ t \in Int
        BY <2>1, <4>1
      <4> HIDE DEF f, t
      <4> DEFINE g == [f EXCEPT !.took = t]
      <4>3. g \in DrillRow
        BY <3>3, <4>2
      <4> HIDE DEF g
      <4>4. [g EXCEPT !.began = 0] \in DrillRow
        BY <3>4, <4>3
      <4> QED BY <4>4 DEF f, t, g
    <3> QED BY <3>5, <3>6, <3>7
  <2>3. e.restore = o.status /\ e.step = 1 /\ e.scratch = drill.scratch
    BY <2>1 DEF DrillRow
  <2>4. e.passed = 0 /\ e.skipped = 0 /\ e.cleanups = 0
    BY <1>5, <2>1 DEF DrillRow
  <2> QED BY <2>2, <2>3, <2>4
<1>7. /\ d \in DrillRow
      /\ d.status = "succeeded" => o.status = "succeeded"
      /\ d.restore = o.status /\ d.step = 1 /\ d.scratch = drill.scratch
      /\ d.passed = 0 /\ d.skipped = 0 /\ d.cleanups = 0
  <2> HIDE DEF o, e
  <2> QED BY <1>3, <1>6, NotedFacts
<1>8. /\ drill' \in DrillRow
      /\ drill'.status = "succeeded" =>
            /\ o.status = "succeeded" /\ drill'.restore = "succeeded" /\ drill'.scratch = "made"
      /\ drill'.step = 1 /\ drill'.scratch = drill.scratch
      /\ drill'.passed = 0 /\ drill'.skipped = 0 /\ drill'.cleanups = 0
  <2> HIDE DEF o, d
  <2>1. CASE o.status = "succeeded" /\ drill.scratch = "replaced"
    <3>1. drill' = Failed(d, "failed", -1)
      BY <1>2, <2>1
    <3>2. d \in DrillRow /\ "failed" \in {"failed", "timed_out"} /\ -1 \in Int
      BY <1>7
    <3> QED BY <1>7, <3>1, <3>2, FailedFacts
  <2>2. CASE ~(o.status = "succeeded" /\ drill.scratch = "replaced")
    <3>1. drill' = d
      BY <1>2, <2>2
    <3>2. d \in DrillRow /\ d.step = 1 /\ d.scratch = drill.scratch
          /\ d.passed = 0 /\ d.skipped = 0 /\ d.cleanups = 0
      BY <1>7
    <3>3. d.status = "succeeded" => o.status = "succeeded" /\ d.restore = "succeeded" /\ d.scratch = "made"
      BY <1>5, <1>7, <2>2
    <3> QED BY <3>1, <3>2, <3>3
  <2> QED BY <2>1, <2>2
<1> HIDE DEF o, e, d
<1>9. TypeInv'
  BY <1>0, <1>2, <1>8 DEF TypeInv, Phases
<1>10. PhaseInv' /\ DrillHonest'
  BY <1>0, <1>2 DEF PhaseInv, DrillHonest
<1>11. drill'.status = "succeeded" /\ ctx' # "live" => Interrupted'
  BY <1>0, <1>2, <1>3, <1>8 DEF PhaseInv, TypeInv, Interrupted
<1>12. Unfailed(drill.step - 1)'
  BY <1>8 DEF Unfailed
<1>13. StepInv'
  BY <1>2, <1>4, <1>5, <1>8, <1>11, <1>12 DEF StepInv
<1> QED BY <1>9, <1>10, <1>13 DEF Inv

LEMMA NextCheckInv ==
    ASSUME Inv, NextCheck
    PROVE  Inv'
<1>0. TypeInv /\ PhaseInv /\ StepInv /\ DrillHonest
  BY DEF Inv
<1>1. /\ phase = "checks" /\ drill.step <= job.checks
      /\ UNCHANGED <<job, now, lag, parent, ctx>>
  BY DEF NextCheck
<1>2. job.type = "drill" /\ job.checks \in Nat
  BY <1>0, <1>1, ExecutorAssumption DEF PhaseInv, TypeInv, JobSet
<1>3. /\ drill.step \in 1..job.checks /\ drill.scratch \in {"made", "replaced"}
      /\ drill.cleanups = 0 /\ Unfailed(drill.step - 1)
      /\ drill.status = "succeeded" /\ ctx # "live" => Interrupted
  BY <1>0, <1>1, <1>2 DEF StepInv
<1>4. Interrupted' = Interrupted
  BY <1>1 DEF Interrupted
<1>5. CASE MayCheck
  <2>1. phase' = "step" /\ UNCHANGED drill
    BY <1>5 DEF NextCheck
  <2>2. TypeInv' /\ PhaseInv' /\ DrillHonest'
    BY <1>0, <1>1, <1>2, <2>1 DEF TypeInv, Phases, PhaseInv, DrillHonest
  <2>3. Unfailed(drill.step - 1)'
    BY <1>1, <1>3, <1>4, <2>1 DEF Unfailed
  <2>4. StepInv'
    BY <1>1, <1>3, <2>1, <2>3 DEF StepInv
  <2> QED BY <2>2, <2>4 DEF Inv
<1>6. CASE ~MayCheck
  <2>1. phase' = phase /\ drill' = [drill EXCEPT !.step = @ + 1, !.skipped = @ + 1]
    BY <1>6 DEF NextCheck
  <2>2. /\ drill' \in DrillRow /\ drill'.step = drill.step + 1 /\ drill'.skipped = drill.skipped + 1
        /\ drill'.scratch = drill.scratch /\ drill'.restore = drill.restore
        /\ drill'.passed = drill.passed /\ drill'.cleanups = drill.cleanups /\ drill'.status = drill.status
        /\ drill.step \in Nat /\ drill.skipped \in Nat /\ drill.passed \in Nat
    <3>1. drill \in DrillRow
      BY <1>0 DEF TypeInv
    <3>2. drill.step + 1 \in Nat /\ drill.skipped + 1 \in Nat
      BY <3>1 DEF DrillRow
    <3>3. [drill EXCEPT !.step = drill.step + 1] \in DrillRow
      BY <3>1, <3>2 DEF DrillRow
    <3>4. drill' \in DrillRow
      BY <2>1, <3>2, <3>3 DEF DrillRow
    <3> QED BY <2>1, <3>1, <3>4 DEF DrillRow
  <2>3. TypeInv' /\ PhaseInv' /\ DrillHonest'
    BY <1>0, <1>1, <1>2, <2>1, <2>2 DEF TypeInv, Phases, PhaseInv, DrillHonest
  <2>4. Unfailed(drill.step - 1)'
    BY <1>3, <1>4, <1>6, <2>2 DEF Unfailed, MayCheck
  <2>5. StepInv'
    BY <1>1, <1>2, <1>3, <1>4, <2>1, <2>2, <2>4 DEF StepInv
  <2> QED BY <2>3, <2>5 DEF Inv
<1> QED BY <1>5, <1>6

LEMMA CheckEndsInv ==
    ASSUME Inv, CheckEnds
    PROVE  Inv'
<1>0. TypeInv /\ PhaseInv /\ StepInv /\ DrillHonest
  BY DEF Inv
<1>1. PICK c \in {-1, 0, 1} :
        /\ RunReturns(c)
        /\ LET o == ShellOutcome(c)
           IN drill' = Noted([drill EXCEPT !.step = @ + 1,
                                           !.passed = @ + (IF o.status = "succeeded" THEN 1 ELSE 0)], o)
  BY DEF CheckEnds
<1> DEFINE o == ShellOutcome(c)
           e == [drill EXCEPT !.step = @ + 1,
                              !.passed = @ + (IF o.status = "succeeded" THEN 1 ELSE 0)]
<1>2. /\ drill.step \in 1..job.checks /\ phase = "step" /\ phase' = "checks"
      /\ UNCHANGED <<job, now, lag, parent, ctx>>
      /\ drill' = Noted(e, o)
  BY <1>1 DEF CheckEnds, RunReturns
<1>3. /\ o.status \in {"succeeded", "failed", "timed_out"} /\ o.exit \in Int
      /\ o.status = "succeeded" => ctx # "deadline"
  BY OutcomeFacts
<1>4. job.checks \in Nat /\ (job.type # "drill" => job.checks = 0)
  BY <1>0, ExecutorAssumption DEF TypeInv, JobSet
<1>5. job.type = "drill"
  BY <1>2, <1>4
<1>6. /\ drill.scratch \in {"made", "replaced"} /\ drill.cleanups = 0 /\ Unfailed(drill.step - 1)
  BY <1>0, <1>2, <1>4, <1>5 DEF StepInv
<1>7. drill \in DrillRow /\ drill.step \in Nat /\ drill.passed \in Nat /\ drill.skipped \in Nat
  BY <1>0 DEF TypeInv, DrillRow
<1>8. /\ e \in DrillRow /\ e.step = drill.step + 1 /\ e.scratch = drill.scratch
      /\ e.restore = drill.restore /\ e.skipped = drill.skipped /\ e.cleanups = 0
      /\ e.status = drill.status
      /\ o.status = "succeeded" => e.passed = drill.passed + 1
  <2>1. drill \in DrillRow /\ drill.step + 1 \in Nat
    BY <1>7
  <2> DEFINE p == drill.passed + (IF o.status = "succeeded" THEN 1 ELSE 0)
  <2>2. p \in Nat /\ (o.status = "succeeded" => p = drill.passed + 1)
    <3> HIDE DEF o
    <3> QED BY <1>7
  <2>3. e = [drill EXCEPT !.step = drill.step + 1, !.passed = p]
    <3> HIDE DEF o
    <3> QED BY <2>1 DEF DrillRow
  <2> HIDE DEF o, e, p
  <2>4. [drill EXCEPT !.step = drill.step + 1] \in DrillRow
    BY <2>1 DEF DrillRow
  <2>5. e \in DrillRow
    BY <2>2, <2>3, <2>4 DEF DrillRow
  <2> QED BY <1>6, <2>1, <2>2, <2>3, <2>5 DEF DrillRow
<1> HIDE DEF o, e
<1>9. /\ drill' \in DrillRow
      /\ drill'.status = "succeeded" => o.status = "succeeded" /\ e.status = "succeeded"
      /\ drill'.step = e.step /\ drill'.scratch = e.scratch /\ drill'.restore = e.restore
      /\ drill'.passed = e.passed /\ drill'.skipped = e.skipped /\ drill'.cleanups = e.cleanups
  BY <1>2, <1>3, <1>8, NotedFacts
<1>10. TypeInv'
  BY <1>0, <1>2, <1>9 DEF TypeInv, Phases
<1>11. PhaseInv' /\ DrillHonest'
  BY <1>0, <1>2, <1>5 DEF PhaseInv, DrillHonest
<1>12. drill'.status = "succeeded" /\ ctx' # "live" => Interrupted'
  BY <1>0, <1>2, <1>3, <1>9 DEF PhaseInv, TypeInv, Interrupted
<1>13. Unfailed(drill.step - 1)'
  BY <1>2, <1>6, <1>7, <1>8, <1>9 DEF Unfailed, Interrupted
<1>14. drill'.step \in 1..(job'.checks + 1)
  BY <1>2, <1>4, <1>8, <1>9
<1>15. StepInv'
  BY <1>2, <1>6, <1>8, <1>9, <1>12, <1>13, <1>14 DEF StepInv
<1> QED BY <1>10, <1>11, <1>15 DEF Inv

LEMMA StartCleanupInv ==
    ASSUME Inv, StartCleanup
    PROVE  Inv'
<1>0. TypeInv /\ PhaseInv /\ StepInv /\ DrillHonest
  BY DEF Inv
<1> DEFINE d == IF TooSlow THEN Failed(drill, "failed", 1) ELSE drill
<1>1. /\ phase = "checks" /\ drill.step = job.checks + 1
      /\ UNCHANGED <<job, now, lag, parent>>
      /\ ctx' \in {ctx, "live"}
      /\ job.cleanup => phase' = "step" /\ drill' = [d EXCEPT !.step = @ + 1, !.cleanups = @ + 1]
      /\ ~job.cleanup => phase' = "remove" /\ drill' = [d EXCEPT !.step = @ + 1]
  BY DEF StartCleanup
<1>2. job.type = "drill" /\ job.checks \in Nat /\ job.cleanup \in BOOLEAN
  BY <1>0, <1>1, ExecutorAssumption DEF PhaseInv, TypeInv, JobSet
<1>3. /\ drill.scratch \in {"made", "replaced"} /\ drill.cleanups = 0 /\ Unfailed(job.checks)
  BY <1>0, <1>1, <1>2 DEF StepInv
<1>4. drill \in DrillRow
  BY <1>0 DEF TypeInv
<1>5. /\ d \in DrillRow
      /\ d.status = "succeeded" => drill.status = "succeeded"
      /\ d.scratch = drill.scratch /\ d.restore = drill.restore /\ d.step = drill.step
      /\ d.passed = drill.passed /\ d.skipped = drill.skipped /\ d.cleanups = drill.cleanups
  BY <1>4, FailedFacts
<1> HIDE DEF d
<1>6. /\ drill' \in DrillRow /\ drill'.step = job.checks + 2
      /\ drill'.cleanups = (IF job.cleanup THEN 1 ELSE 0)
      /\ drill'.scratch = d.scratch /\ drill'.restore = d.restore /\ drill'.status = d.status
      /\ drill'.passed = d.passed /\ drill'.skipped = d.skipped
  <2>1. d.step + 1 \in Nat /\ d.step + 1 = job.checks + 2 /\ d.cleanups + 1 = 1 /\ d.cleanups = 0
    BY <1>1, <1>2, <1>3, <1>5
  <2>2. [d EXCEPT !.step = d.step + 1] \in DrillRow
    BY <1>5, <2>1 DEF DrillRow
  <2>3. CASE job.cleanup
    <3>1. drill' = [d EXCEPT !.step = d.step + 1, !.cleanups = 1]
      BY <1>1, <1>5, <2>1, <2>3 DEF DrillRow
    <3>2. drill' \in DrillRow
      BY <2>2, <3>1 DEF DrillRow
    <3> QED BY <1>5, <2>1, <2>3, <3>1, <3>2 DEF DrillRow
  <2>4. CASE ~job.cleanup
    <3>1. drill' = [d EXCEPT !.step = d.step + 1]
      BY <1>1, <1>5, <2>4 DEF DrillRow
    <3> QED BY <1>5, <2>1, <2>2, <2>4, <3>1 DEF DrillRow
  <2> QED BY <2>3, <2>4
<1>7. phase' \in {"step", "remove"} /\ (phase' = "step" => job.cleanup)
  BY <1>1, <1>2
<1>8. TypeInv'
  BY <1>0, <1>1, <1>6, <1>7 DEF TypeInv, Phases
<1>9. PhaseInv' /\ DrillHonest'
  BY <1>0, <1>1, <1>2, <1>7 DEF PhaseInv, DrillHonest
<1>10. Unfailed(job.checks)'
  BY <1>1, <1>3, <1>5, <1>6 DEF Unfailed, Interrupted
<1>11. StepInv'
  BY <1>1, <1>2, <1>3, <1>5, <1>6, <1>7, <1>10 DEF StepInv
<1> QED BY <1>8, <1>9, <1>11 DEF Inv

LEMMA CleanupEndsInv ==
    ASSUME Inv, CleanupEnds
    PROVE  Inv'
<1>0. TypeInv /\ PhaseInv /\ StepInv /\ DrillHonest
  BY DEF Inv
<1>1. PICK c \in {-1, 0, 1} :
        /\ RunReturns(c)
        /\ LET o == ShellOutcome(c)
           IN drill' = IF o.status = "timed_out" THEN Failed(drill, "failed", -1) ELSE Noted(drill, o)
  BY DEF CleanupEnds
<1> DEFINE o == ShellOutcome(c)
<1>2. /\ drill.step = job.checks + 2 /\ phase = "step" /\ phase' = "remove"
      /\ UNCHANGED <<job, now, lag, parent, ctx>>
      /\ drill' = IF o.status = "timed_out" THEN Failed(drill, "failed", -1) ELSE Noted(drill, o)
  BY <1>1 DEF CleanupEnds, RunReturns
<1>3. /\ o.status \in {"succeeded", "failed", "timed_out"} /\ o.exit \in Int
  BY OutcomeFacts
<1>4. job.checks \in Nat
  BY <1>0, ExecutorAssumption DEF TypeInv, JobSet
<1>5. job.type = "drill"
  BY <1>0, <1>2, <1>4 DEF PhaseInv, NoDrill
<1>6. /\ drill.scratch \in {"made", "replaced"} /\ drill.cleanups = 1 /\ job.cleanup
      /\ Unfailed(job.checks)
  BY <1>0, <1>2, <1>4, <1>5 DEF StepInv
<1>7. drill \in DrillRow
  BY <1>0 DEF TypeInv
<1> HIDE DEF o
<1>8. /\ drill' \in DrillRow
      /\ drill'.status = "succeeded" => drill.status = "succeeded"
      /\ drill'.scratch = drill.scratch /\ drill'.restore = drill.restore
      /\ drill'.passed = drill.passed /\ drill'.skipped = drill.skipped /\ drill'.cleanups = drill.cleanups
  <2>1. CASE o.status = "timed_out"
    <3>1. drill' = Failed(drill, "failed", -1)
      BY <1>2, <2>1
    <3>2. "failed" \in {"failed", "timed_out"} /\ -1 \in Int
      OBVIOUS
    <3> QED BY <1>7, <3>1, <3>2, FailedFacts
  <2>2. CASE o.status # "timed_out"
    <3>1. drill' = Noted(drill, o)
      BY <1>2, <2>2
    <3> QED BY <1>3, <1>7, <3>1, NotedFacts
  <2> QED BY <2>1, <2>2
<1>9. TypeInv'
  BY <1>0, <1>2, <1>8 DEF TypeInv, Phases
<1>10. PhaseInv' /\ DrillHonest'
  BY <1>0, <1>2, <1>5 DEF PhaseInv, DrillHonest
<1>11. Unfailed(job.checks)'
  BY <1>2, <1>6, <1>8 DEF Unfailed, Interrupted
<1>12. StepInv'
  BY <1>2, <1>6, <1>8, <1>11 DEF StepInv
<1> QED BY <1>9, <1>10, <1>12 DEF Inv

LEMMA RemoveScratchInv ==
    ASSUME Inv, RemoveScratch
    PROVE  Inv'
<1>0. TypeInv /\ PhaseInv /\ StepInv /\ DrillHonest
  BY DEF Inv
<1>1. PICK gone \in BOOLEAN :
        LET d == IF gone THEN drill ELSE Failed(drill, "failed", -1)
        IN /\ drill' = [d EXCEPT !.scratch = IF gone THEN "removed" ELSE "left"]
           /\ Result([status |-> d.status, exit |-> d.exit])
  BY DEF RemoveScratch
<1> DEFINE d == IF gone THEN drill ELSE Failed(drill, "failed", -1)
<1>2. /\ phase = "remove" /\ phase' = "judge" /\ ctx' = "live"
      /\ UNCHANGED <<job, now, lag, parent>>
      /\ drill' = [d EXCEPT !.scratch = IF gone THEN "removed" ELSE "left"]
      /\ last' = [status |-> d.status, exit |-> d.exit]
  BY <1>1 DEF RemoveScratch, Result
<1>3. job.type = "drill"
  BY <1>0, <1>2 DEF PhaseInv
<1>4. drill.cleanups = (IF job.cleanup THEN 1 ELSE 0) /\ Unfailed(job.checks)
  BY <1>0, <1>2, <1>3 DEF StepInv
<1>5. drill \in DrillRow
  BY <1>0 DEF TypeInv
<1>6. /\ d \in DrillRow
      /\ d.status = "succeeded" => drill.status = "succeeded" /\ gone
      /\ d.restore = drill.restore /\ d.cleanups = drill.cleanups
      /\ d.passed = drill.passed /\ d.skipped = drill.skipped
  <2>1. "failed" \in {"failed", "timed_out"} /\ -1 \in Int
    OBVIOUS
  <2> QED BY <1>5, <2>1, FailedFacts
<1> HIDE DEF d
<1>7. /\ drill' \in DrillRow /\ drill'.scratch = (IF gone THEN "removed" ELSE "left")
      /\ drill'.restore = d.restore /\ drill'.cleanups = d.cleanups
      /\ drill'.passed = d.passed /\ drill'.skipped = d.skipped
  BY <1>2, <1>6 DEF DrillRow
<1>8. last'.status = d.status
  BY <1>2
<1>9. TypeInv'
  BY <1>0, <1>2, <1>7 DEF TypeInv, Phases
<1>10. PhaseInv' /\ StepInv'
  BY <1>0, <1>2, <1>3 DEF PhaseInv, StepInv
<1>11. DrillHonest'
  BY <1>2, <1>4, <1>6, <1>7, <1>8 DEF DrillHonest, Unfailed, Interrupted
<1> QED BY <1>9, <1>10, <1>11 DEF Inv

\* The retry loop: an attempt that is given up leaves no drill behind.
LEMMA LoopInv ==
    ASSUME Inv, Judge \/ PauseEnds
    PROVE  Inv'
<1>0. TypeInv /\ PhaseInv /\ StepInv /\ DrillHonest
  BY DEF Inv
<1>1. /\ phase' \in {"done", "pause", "ready"} /\ UNCHANGED <<job, now, lag, parent, ctx>>
      /\ drill' \in {drill, NoDrill}
      /\ phase' # "done" => drill' = NoDrill
  BY <1>0 DEF Judge, PauseEnds, PhaseInv
<1>2. NoDrill \in DrillRow
  BY DEF NoDrill, DrillRow, Statuses
<1>3. TypeInv'
  BY <1>0, <1>1, <1>2 DEF TypeInv, Phases
<1>4. PhaseInv'
  BY <1>0, <1>1 DEF PhaseInv
<1>5. StepInv' /\ DrillHonest'
  BY <1>1 DEF StepInv, DrillHonest
<1> QED BY <1>3, <1>4, <1>5 DEF Inv

LEMMA HTTPDoInv ==
    ASSUME Inv, HTTPDo
    PROVE  Inv'
<1>0. TypeInv /\ PhaseInv /\ StepInv /\ DrillHonest
  BY DEF Inv
<1>1. phase = "request" /\ job.type # "drill" /\ UNCHANGED <<job, now, lag, parent, drill>>
  BY <1>0 DEF HTTPDo, PhaseInv
<1>2. CASE Result(NoAnswer)
  BY <1>1, <1>2, ResultInv DEF Result
<1>3. CASE phase' = "body" /\ UNCHANGED ctx
  <2>1. TypeInv' /\ PhaseInv'
    BY <1>0, <1>1, <1>3 DEF TypeInv, Phases, PhaseInv
  <2>2. StepInv' /\ DrillHonest'
    BY <1>1 DEF StepInv, DrillHonest
  <2> QED BY <2>1, <2>2 DEF Inv
<1> QED BY <1>2, <1>3 DEF HTTPDo

\* Attempts of the other job types end without a drill.
LEMMA OtherEndsInv ==
    ASSUME Inv, RunOnceShell \/ HTTPBody \/ ProbeAnswers
    PROVE  Inv'
<1>0. TypeInv /\ PhaseInv /\ StepInv /\ DrillHonest
  BY DEF Inv
<1>1. /\ job.type # "drill" /\ phase # "done" /\ UNCHANGED <<job, now, lag, parent, drill>>
      /\ phase' = "judge" /\ ctx' = "live"
  <2>1. CASE RunOnceShell
    BY <2>1 DEF RunOnceShell, RunReturns, Result
  <2>2. CASE HTTPBody
    BY <1>0, <2>2 DEF HTTPBody, Result, PhaseInv
  <2>3. CASE ProbeAnswers
    BY <1>0, <2>3 DEF ProbeAnswers, Result, PhaseInv
  <2> QED BY <2>1, <2>2, <2>3
<1> QED BY <1>1, ResultInv

\* Time, a shutdown and the child only change what the executor waits for.
LEMMA WorldInv ==
    ASSUME Inv, Tick \/ Cancel \/ ShellExits \/ PipesClose \/ KillGroup
    PROVE  Inv'
<1>0. TypeInv /\ PhaseInv
  BY DEF Inv
<1>1. /\ now \in Nat /\ lag \in Nat /\ parent \in BOOLEAN
      /\ ctx \in {"live", "deadline", "canceled"} /\ (ctx = "canceled" => parent)
  BY <1>0 DEF TypeInv, PhaseInv
<1>2. CASE Tick
  <2>1. /\ UNCHANGED <<job, phase, drill, last, parent>> /\ now' = now + 1
        /\ ctx' \in {ctx, "deadline"}
        /\ phase \in Waiting \/ lag' = lag + 1
        /\ lag' = lag \/ lag' = lag + 1
    BY <1>2 DEF Tick
  <2>2. phase \in Waiting \/ Interrupted'
    BY <1>1, <2>1 DEF Interrupted
  <2>3. now' \in Nat /\ lag' \in Nat /\ lag' >= lag
    BY <1>1, <2>1
  <2> QED BY <1>1, <2>1, <2>2, <2>3, WaitInv
<1>3. CASE Cancel
  <2>1. /\ UNCHANGED <<job, phase, drill, last, now, lag>> /\ parent' = TRUE
        /\ ctx' \in {ctx, "canceled"}
    BY <1>3 DEF Cancel
  <2>2. Interrupted'
    BY <2>1 DEF Interrupted
  <2> QED BY <1>1, <2>1, <2>2, WaitInv
<1>4. CASE ShellExits \/ PipesClose \/ KillGroup
  <2>1. UNCHANGED <<job, phase, drill, last, now, lag, parent, ctx>>
    BY <1>4 DEF ShellExits, PipesClose, KillGroup
  <2> QED BY <1>1, <2>1, WaitInv
<1> QED BY <1>2, <1>3, <1>4

LEMMA InitInv ==
    ASSUME Init
    PROVE  Inv
<1>1. TypeInv
  <2>1. NoDrill \in DrillRow
    BY DEF NoDrill, DrillRow, Statuses
  <2> QED BY <2>1 DEF Init, Fresh, TypeInv, Phases
<1>2. PhaseInv /\ StepInv /\ DrillHonest
  BY DEF Init, Fresh, PhaseInv, StepInv, DrillHonest
<1> QED BY <1>1, <1>2 DEF Inv

LEMMA NextInv ==
    ASSUME Inv, [Next]_vars
    PROVE  Inv'
<1>1. CASE UNCHANGED vars
  <2>1. UNCHANGED <<job, now, lag, parent, ctx, phase, drill, last>>
    BY <1>1 DEF vars
  <2>2. TypeInv /\ PhaseInv
    BY DEF Inv
  <2>3. /\ now \in Nat /\ lag \in Nat /\ parent \in BOOLEAN
        /\ ctx \in {"live", "deadline", "canceled"} /\ (ctx = "canceled" => parent)
    BY <2>2 DEF TypeInv, PhaseInv
  <2> QED BY <2>1, <2>3, WaitInv
<1>2. CASE Tick \/ Cancel \/ ShellExits \/ PipesClose \/ KillGroup
  BY <1>2, WorldInv
<1>3. CASE RunOnce
  BY <1>3, RunOnceInv
<1>4. CASE RunOnceShell \/ HTTPBody \/ ProbeAnswers
  BY <1>4, OtherEndsInv
<1>5. CASE HTTPDo
  BY <1>5, HTTPDoInv
<1>6. CASE MakeScratch
  BY <1>6, MakeScratchInv
<1>7. CASE RestoreReplacesScratch
  BY <1>7, ReplaceInv
<1>8. CASE RestoreEnds
  BY <1>8, RestoreEndsInv
<1>9. CASE NextCheck
  BY <1>9, NextCheckInv
<1>10. CASE CheckEnds
  BY <1>10, CheckEndsInv
<1>11. CASE StartCleanup
  BY <1>11, StartCleanupInv
<1>12. CASE CleanupEnds
  BY <1>12, CleanupEndsInv
<1>13. CASE RemoveScratch
  BY <1>13, RemoveScratchInv
<1>14. CASE Judge \/ PauseEnds
  BY <1>14, LoopInv
<1> QED BY <1>1, <1>2, <1>3, <1>4, <1>5, <1>6, <1>7, <1>8, <1>9, <1>10, <1>11, <1>12, <1>13, <1>14
        DEF Next, Act

\* The inductive invariant holds along every behaviour of the executor.
THEOREM DrillInvariance == Spec => []Inv
<1>1. Init => Inv
  BY InitInv
<1>2. Inv /\ [Next]_vars => Inv'
  BY NextInv
<1> QED BY <1>1, <1>2, PTL DEF Spec

\* runOnceDrill never reports a drill it did not finish: whatever the restore,
\* the checks, the cleanup, the removal, a timeout and a shutdown do to each
\* other, a success means that everything was done, and the cleanup ran once.
THEOREM DrillsAreHonest == Spec => []DrillHonest
<1>1. Inv => DrillHonest
  BY DEF Inv
<1> QED BY <1>1, DrillInvariance, PTL

-----------------------------------------------------------------------------
(* Induction and recursion over the naturals, with sets and functions in   *)
(* place of the operators that the library's theorems take.                *)

\* A set of naturals has a least element.
LEMMA LeastNatural ==
    ASSUME NEW T \in SUBSET Nat, T # {}
    PROVE  \E x \in T : \A y \in T : x <= y
<1> DEFINE R == {ss \in Nat \X Nat : ss[1] < ss[2]}
<1>1. IsWellFoundedOn(R, Nat)
  BY NatLessThanWellFounded DEF OpToRel
<1>2. \A x, y \in Nat : <<y, x>> \in R <=> y < x
  OBVIOUS
<1> HIDE DEF R
<1>3. PICK x \in T : \A y \in T : ~ (<<y, x>> \in R)
  BY <1>1, WFMin
<1>4. ASSUME NEW y \in T
      PROVE  x <= y
  <2>1. x \in Nat /\ y \in Nat
    OBVIOUS
  <2>2. ~(y < x)
    BY <1>2, <1>3, <2>1
  <2> QED BY <2>1, <2>2
<1> QED BY <1>4

\* Induction over the naturals, for a property given as a set.
LEMMA SetInduction ==
    ASSUME NEW S, 0 \in S, \A n \in Nat : n \in S => n + 1 \in S
    PROVE  Nat \subseteq S
<1> SUFFICES ASSUME Nat \ S # {} PROVE FALSE
  OBVIOUS
<1>1. PICK x \in Nat \ S : \A y \in Nat \ S : x <= y
  BY LeastNatural
<1>2. x # 0 /\ x - 1 \in Nat /\ x - 1 \in S
  BY <1>1
<1> QED BY <1>1, <1>2

\* g is the start, up to n, of the function that the steps D define from v.
Starts(g, n, v, D) == g[0] = v /\ \A i \in 1..n : g[i] = D[i][g[i - 1]]

\* There is such a start of every length.
LEMMA StartsExist ==
    ASSUME NEW V, NEW v \in V, NEW D \in [Nat -> [V -> V]]
    PROVE  \A n \in Nat : \E g \in [0..n -> V] : Starts(g, n, v, D)
<1> DEFINE S == {n \in Nat : \E g \in [0..n -> V] : Starts(g, n, v, D)}
<1>1. 0 \in S
  <2>1. [i \in 0..0 |-> v] \in [0..0 -> V] /\ Starts([i \in 0..0 |-> v], 0, v, D)
    BY DEF Starts
  <2> QED BY <2>1
<1>2. ASSUME NEW n \in Nat, n \in S
      PROVE  n + 1 \in S
  <2>1. PICK g \in [0..n -> V] : Starts(g, n, v, D)
    BY <1>2
  <2> DEFINE h == [i \in 0..(n + 1) |-> IF i <= n THEN g[i] ELSE D[n + 1][g[n]]]
  <2>2. D[n + 1][g[n]] \in V
    OBVIOUS
  <2>3. h \in [0..(n + 1) -> V]
    BY <2>2
  <2>4. h[0] = v
    BY <2>1 DEF Starts
  <2>5. ASSUME NEW i \in 1..(n + 1)
        PROVE  h[i] = D[i][h[i - 1]]
    <3>1. h[i - 1] = g[i - 1]
      BY <2>5
    <3>2. CASE i <= n
      BY <2>1, <2>5, <3>1, <3>2 DEF Starts
    <3>3. CASE i = n + 1
      BY <2>5, <3>1, <3>3
    <3> QED BY <2>5, <3>2, <3>3
  <2> HIDE DEF h
  <2>6. Starts(h, n + 1, v, D)
    BY <2>4, <2>5 DEF Starts
  <2> QED BY <2>3, <2>6
<1> HIDE DEF S
<1>3. Nat \subseteq S
  BY <1>1, <1>2, SetInduction
<1> QED BY <1>3 DEF S

\* Two starts agree as far as both go.
LEMMA StartsAgree ==
    ASSUME NEW V, NEW v \in V, NEW D \in [Nat -> [V -> V]],
           NEW m \in Nat, NEW n \in Nat, m <= n, NEW g, NEW h,
           Starts(g, m, v, D), Starts(h, n, v, D)
    PROVE  \A i \in 0..m : g[i] = h[i]
<1> DEFINE S == {i \in Nat : i <= m => g[i] = h[i]}
<1>1. 0 \in S
  BY DEF Starts
<1>2. ASSUME NEW i \in Nat, i \in S
      PROVE  i + 1 \in S
  <2> SUFFICES ASSUME i + 1 <= m PROVE g[i + 1] = h[i + 1]
    OBVIOUS
  <2>1. g[i] = h[i] /\ i + 1 \in 1..m /\ i + 1 \in 1..n /\ (i + 1) - 1 = i
    BY <1>2
  <2> QED BY <2>1 DEF Starts
<1> HIDE DEF S
<1>3. Nat \subseteq S
  BY <1>1, <1>2, SetInduction
<1> QED BY <1>3 DEF S

\* D can define a function to V from its value v at 0, and f is that function.
Recursive(V, v, D) == v \in V /\ D \in [Nat -> [V -> V]]
Defined(f, V, v, D) == f \in [Nat -> V] /\ f[0] = v /\ \A n \in Nat : f[n + 1] = D[n + 1][f[n]]

\* Definition by recursion over the naturals.
LEMMA Recursion ==
    ASSUME NEW V, NEW v, NEW D, Recursive(V, v, D)
    PROVE  \E f : Defined(f, V, v, D)
<1>0. v \in V /\ D \in [Nat -> [V -> V]]
  BY DEF Recursive
<1> DEFINE G(n) == CHOOSE g \in [0..n -> V] : Starts(g, n, v, D)
           f == [n \in Nat |-> G(n)[n]]
<1>1. \A n \in Nat : G(n) \in [0..n -> V] /\ Starts(G(n), n, v, D)
  BY <1>0, StartsExist
<1> HIDE DEF G
<1>2. f \in [Nat -> V]
  BY <1>1
<1>3. f[0] = v
  BY <1>1 DEF Starts
<1>4. ASSUME NEW n \in Nat
      PROVE  f[n + 1] = D[n + 1][f[n]]
  <2>1. G(n + 1)[n + 1] = D[n + 1][G(n + 1)[n]]
    <3>1. Starts(G(n + 1), n + 1, v, D) /\ n + 1 \in 1..(n + 1) /\ (n + 1) - 1 = n
      BY <1>1
    <3> QED BY <3>1 DEF Starts
  <2>2. G(n)[n] = G(n + 1)[n]
    <3>1. Starts(G(n), n, v, D) /\ Starts(G(n + 1), n + 1, v, D) /\ n <= n + 1 /\ n + 1 \in Nat
      BY <1>1
    <3>2. \A i \in 0..n : G(n)[i] = G(n + 1)[i]
      BY <1>0, <3>1, StartsAgree
    <3> QED BY <3>2
  <2> QED BY <2>1, <2>2
<1> HIDE DEF f
<1>5. Defined(f, V, v, D)
  BY <1>2, <1>3, <1>4 DEF Defined
<1> QED BY <1>5

-----------------------------------------------------------------------------
(* The time limit.                                                         *)

\* What maxRunDuration grants an attempt: its timeout and its grace.
Grace(j) == KillGrace + (IF j.type = "drill" THEN CleanupTimeout + KillGrace ELSE 0)
PerAttempt(j) == Timeout(j) + Grace(j)

\* The running total that maxRunDuration computes, saturating, of attempts of p each.
Total(p) ==
    LET total[n \in Nat] ==
            IF n <= 1 THEN p
            ELSE IF total[n - 1] = Forever \/ total[n - 1] > Forever - Backoff(n - 1) - p
                 THEN Forever
                 ELSE Wrap(total[n - 1] + Backoff(n - 1) + p)
    IN total

\* The time that may have passed when attempt a starts.
Start(j, a) == IF a = 1 THEN 0 ELSE Total(PerAttempt(j))[a - 1] + Backoff(a - 1)

\* Phases in which the attempt's context, or the cleanup's, is in use.
Active == {"scratch", "step", "request", "body", "probe", "checks", "remove"}

\* The latest deadline of the attempt in progress, and then of its cleanup.
DeadlineBound ==
    Start(job, attempt) + Timeout(job) + (IF drill.cleanups > 0 THEN KillGrace + CleanupTimeout ELSE 0)

\* Where the run is within its limit; time lost in the executor's own code apart.
TimeInv ==
    /\ attempt \in 1..MaxAttempts(job) /\ deadline \in Nat /\ until \in Nat
    /\ phase = "ready" => now <= Start(job, attempt) + lag
    /\ phase \in Active =>
        /\ deadline <= DeadlineBound + lag
        /\ ctx = "live" => now < deadline
        /\ now <= DeadlineBound + KillGrace + lag
    /\ phase \in {"request", "body", "probe"} \/ (phase = "step" /\ child = "alive") => now <= deadline
    /\ phase = "step" => until <= DeadlineBound + KillGrace + lag
    /\ phase = "judge" => now <= Start(job, attempt) + PerAttempt(job) + lag
    /\ phase = "pause" =>
        /\ attempt < MaxAttempts(job) /\ now <= until
        /\ until <= Start(job, attempt) + PerAttempt(job) + Backoff(attempt) + lag
    /\ phase = "done" => now <= MaxRunDuration(job) + lag

\* A limit that saturated is no limit.
LimitInv == MaxRunDuration(job) = Forever \/ TimeInv

\* A sum of Durations that fits is not wrapped.
LEMMA WrapFits ==
    ASSUME NEW d \in Nat, d <= Forever
    PROVE  Wrap(d) = d
<1>1. Forever \in Nat
  BY ExecutorAssumption
<1> DEFINE m == 2 * (Forever + 1)
           x == d + Forever + 1
<1>2. m \in Nat /\ x \in Nat /\ 0 <= x /\ x < m /\ m > 0
  BY <1>1
<1>3. x % m = x
  <2> HIDE DEF m, x
  <2> QED BY <1>2
<1>4. Wrap(d) = (x % m) - (Forever + 1)
  BY DEF Wrap
<1> QED BY <1>1, <1>3, <1>4

\* The numbers of a job.
LEMMA JobFacts ==
    ASSUME NEW j \in JobSet
    PROVE  j.timeout \in Int /\ j.retries \in Int
<1>1. j \in [type : Types, timeout : TimeoutSeconds \cup {-1}, retries : Retries \cup {-1},
             checks : 0..MaxChecks, cleanup : BOOLEAN, maxDuration : MaxDurations]
  BY DEF JobSet
<1>2. (j.timeout \in TimeoutSeconds \/ j.timeout = -1) /\ (j.retries \in Retries \/ j.retries = -1)
  BY <1>1
<1>3. (\A x \in TimeoutSeconds : x \in Int) /\ (\A x \in Retries : x \in Int) /\ -1 \in Int
  BY ExecutorAssumption
<1> QED BY <1>2, <1>3

\* seconds, and what it makes of a timeout: at least one unit of time.
LEMMA TimeoutPositive ==
    ASSUME NEW j \in JobSet
    PROVE  Timeout(j) \in Nat \ {0}
<1>1. j.timeout \in Int /\ Forever \in Nat \ {0} /\ Second \in Nat \ {0} /\ DefaultTimeout \in Nat \ {0}
  BY JobFacts, ExecutorAssumption
<1>2. Seconds(j.timeout) \in Int
  <2>1. Forever \div Second \in Int /\ j.timeout * Second \in Int /\ -Forever \in Int
    BY <1>1
  <2> QED BY <1>1, <2>1 DEF Seconds
<1> QED BY <1>1, <1>2 DEF Timeout

LEMMA BackoffNat ==
    ASSUME NEW i \in Nat
    PROVE  Backoff(i) \in Nat
<1>1. Second \in Nat
  BY ExecutorAssumption
<1>2. i * i \in Nat
  OBVIOUS
<1>3. i * i * Second \in Nat
  BY <1>1, <1>2
<1> QED BY <1>3 DEF Backoff

LEMMA AttemptsNat ==
    ASSUME NEW j \in JobSet
    PROVE  MaxAttempts(j) \in Nat \ {0}
BY JobFacts DEF MaxAttempts

LEMMA GraceNat ==
    ASSUME NEW j \in JobSet
    PROVE  /\ Grace(j) \in Nat /\ PerAttempt(j) \in Nat
           /\ PerAttempt(j) = Timeout(j) + Grace(j) /\ KillGrace <= Grace(j)
           /\ j.type = "drill" => Grace(j) = KillGrace + CleanupTimeout + KillGrace
BY TimeoutPositive, ExecutorAssumption DEF Grace, PerAttempt

\* One addition of the running total.
Added(t, n, p) == IF t = Forever \/ t > Forever - Backoff(n - 1) - p THEN Forever ELSE t + Backoff(n - 1) + p

LEMMA AddedFits ==
    ASSUME NEW t \in 0..Forever, NEW n \in Nat, n > 1, NEW p \in Nat
    PROVE  /\ Added(t, n, p) \in 0..Forever
           /\ Added(t, n, p) = IF t = Forever \/ t > Forever - Backoff(n - 1) - p
                               THEN Forever ELSE Wrap(t + Backoff(n - 1) + p)
<1>1. Forever \in Nat /\ n - 1 \in Nat
  BY ExecutorAssumption
<1>2. Backoff(n - 1) \in Nat
  BY <1>1, BackoffNat
<1>3. CASE t = Forever \/ t > Forever - Backoff(n - 1) - p
  BY <1>1, <1>3 DEF Added
<1>4. CASE ~(t = Forever \/ t > Forever - Backoff(n - 1) - p)
  <2> DEFINE s == t + Backoff(n - 1) + p
  <2>1. s \in Nat /\ s <= Forever
    BY <1>1, <1>2, <1>4
  <2>2. Added(t, n, p) = s
    BY <1>4 DEF Added
  <2> HIDE DEF s
  <2>3. Wrap(s) = s
    BY <2>1, WrapFits
  <2> QED BY <1>1, <1>4, <2>1, <2>2, <2>3 DEF s
<1> QED BY <1>3, <1>4

\* The running total is what its recursive definition says.
LEMMA TotalUnfolds ==
    ASSUME NEW p \in 0..Forever
    PROVE  /\ Total(p) \in [Nat -> 0..Forever]
           /\ Total(p)[1] = p
           /\ \A n \in Nat : n > 1 => Total(p)[n] = Added(Total(p)[n - 1], n, p)
<1> DEFINE V == 0..Forever
           Body(g, n) == IF n <= 1 THEN p
                         ELSE IF g[n - 1] = Forever \/ g[n - 1] > Forever - Backoff(n - 1) - p
                              THEN Forever
                              ELSE Wrap(g[n - 1] + Backoff(n - 1) + p)
           Step(x, n) == IF n <= 1 THEN p ELSE Added(x, n, p)
<1>1. p \in Nat /\ p \in V
  BY ExecutorAssumption
<1>2. \A n \in Nat, x \in V : Step(x, n) \in V
  <2> SUFFICES ASSUME NEW n \in Nat, NEW x \in V PROVE Step(x, n) \in V
    OBVIOUS
  <2>1. n > 1 => Added(x, n, p) \in V
    BY <1>1, AddedFits
  <2> HIDE DEF V
  <2> QED BY <1>1, <2>1
<1> HIDE DEF V, Step
<1> DEFINE D == [n \in Nat |-> [x \in V |-> Step(x, n)]]
<1>3. D \in [Nat -> [V -> V]]
  BY <1>2
<1>4. \A n \in Nat, x \in V : D[n][x] = Step(x, n)
  OBVIOUS
<1> HIDE DEF D
<1>5. PICK f : f \in [Nat -> V] /\ f[0] = p /\ \A n \in Nat : f[n + 1] = D[n + 1][f[n]]
  <2>1. Recursive(V, p, D)
    BY <1>1, <1>3 DEF Recursive
  <2>2. \E f : Defined(f, V, p, D)
    BY <2>1, Recursion
  <2> QED BY <2>2 DEF Defined
<1>6. ASSUME NEW n \in Nat
      PROVE  /\ n <= 1 => f[n] = p
             /\ n > 1 => f[n] = Added(f[n - 1], n, p)
  <2>1. CASE n = 0
    BY <1>5, <2>1
  <2>2. CASE n > 0
    <3>1. n - 1 \in Nat /\ (n - 1) + 1 = n
      BY <2>2
    <3>2. f[n] = D[n][f[n - 1]] /\ f[n - 1] \in V
      BY <1>5, <3>1
    <3>3. f[n] = Step(f[n - 1], n)
      BY <1>4, <3>2
    <3> QED BY <2>2, <3>3 DEF Step
  <2> QED BY <2>1, <2>2
<1>7. ASSUME NEW n \in Nat
      PROVE  f[n] = Body(f, n)
  <2>1. CASE n <= 1
    BY <1>6, <2>1
  <2>2. CASE n > 1
    <3>1. f[n - 1] \in 0..Forever
      <4>1. n - 1 \in Nat
        BY <2>2
      <4> QED BY <1>5, <4>1 DEF V
    <3>2. f[n] = Added(f[n - 1], n, p)
      BY <1>6, <2>2
    <3> DEFINE t == f[n - 1]
    <3>3. t \in 0..Forever
      BY <3>1
    <3> HIDE DEF t
    <3>4. Added(t, n, p) = IF t = Forever \/ t > Forever - Backoff(n - 1) - p
                           THEN Forever ELSE Wrap(t + Backoff(n - 1) + p)
      BY <1>1, <2>2, <3>3, AddedFits
    <3> QED BY <2>2, <3>2, <3>4 DEF t
  <2> QED BY <2>1, <2>2
<1> HIDE DEF Body
<1>8. f = [n \in Nat |-> Body(f, n)]
  BY <1>5, <1>7
<1>9. Total(p) = CHOOSE g : g = [n \in Nat |-> Body(g, n)]
  BY DEF Total, Body
<1>10. Total(p) = [n \in Nat |-> Body(Total(p), n)]
  BY <1>8, <1>9
<1>11. ASSUME NEW n \in Nat
       PROVE  Total(p)[n] = Body(Total(p), n)
  BY <1>10
<1>12. ASSUME NEW n \in Nat, n > 1, Total(p)[n - 1] \in 0..Forever
       PROVE  Total(p)[n] = Added(Total(p)[n - 1], n, p) /\ Total(p)[n] \in 0..Forever
  <2>1. PICK t : t = Total(p)[n - 1]
    OBVIOUS
  <2>2. /\ Added(t, n, p) \in 0..Forever
        /\ Added(t, n, p) = IF t = Forever \/ t > Forever - Backoff(n - 1) - p
                            THEN Forever ELSE Wrap(t + Backoff(n - 1) + p)
    BY <1>1, <1>12, <2>1, AddedFits
  <2>3. Total(p)[n] = IF t = Forever \/ t > Forever - Backoff(n - 1) - p
                      THEN Forever ELSE Wrap(t + Backoff(n - 1) + p)
    BY <1>11, <1>12, <2>1 DEF Body
  <2> QED BY <2>1, <2>2, <2>3
<1>13. \A n \in Nat : n <= 1 => Total(p)[n] = p
  BY <1>11 DEF Body
<1> DEFINE S == {n \in Nat : Total(p)[n] \in 0..Forever}
<1>14. 0 \in S
  BY <1>13
<1>15. ASSUME NEW n \in Nat, n \in S
       PROVE  n + 1 \in S
  <2>1. CASE n = 0
    BY <1>13, <2>1
  <2>2. CASE n > 0
    <3>1. n + 1 \in Nat /\ n + 1 > 1 /\ Total(p)[(n + 1) - 1] \in 0..Forever
      BY <1>15, <2>2
    <3> QED BY <1>12, <3>1
  <2> QED BY <2>1, <2>2
<1> HIDE DEF S
<1>16. Nat \subseteq S
  BY <1>14, <1>15, SetInduction
<1>17. \A n \in Nat : Total(p)[n] \in 0..Forever
  BY <1>16 DEF S
<1>18. Total(p) \in [Nat -> 0..Forever]
  BY <1>10, <1>17
<1>19. ASSUME NEW n \in Nat, n > 1
       PROVE  Total(p)[n] = Added(Total(p)[n - 1], n, p)
  <2>1. n - 1 \in Nat
    BY <1>19
  <2> QED BY <1>12, <1>17, <1>19, <2>1
<1> QED BY <1>13, <1>18, <1>19

\* The total never shrinks, and once saturated it stays so.
LEMMA TotalGrows ==
    ASSUME NEW p \in 0..Forever, NEW m \in Nat \ {0}, NEW n \in Nat, m <= n
    PROVE  Total(p)[m] <= Total(p)[n] /\ (Total(p)[m] = Forever => Total(p)[n] = Forever)
<1> DEFINE T == Total(p)
           S == {k \in Nat : T[m] <= T[m + k] /\ (T[m] = Forever => T[m + k] = Forever)}
<1>0. Forever \in Nat /\ p \in Nat
  BY ExecutorAssumption
<1>1. T \in [Nat -> 0..Forever] /\ \A k \in Nat : k > 1 => T[k] = Added(T[k - 1], k, p)
  BY TotalUnfolds
<1> HIDE DEF T
<1>2. \A k \in Nat : T[k] \in Nat /\ T[k] \in 0..Forever
  BY <1>0, <1>1
<1>3. 0 \in S
  <2>1. m + 0 = m /\ T[m] <= T[m]
    BY <1>2
  <2> QED BY <2>1
<1>4. ASSUME NEW k \in Nat, k \in S
      PROVE  k + 1 \in S
  <2>1. PICK i \in Nat : i = m + k
    OBVIOUS
  <2>2. i >= 1 /\ m + (k + 1) = i + 1 /\ i + 1 > 1 /\ (i + 1) - 1 = i
    BY <2>1
  <2>3. T[i + 1] = Added(T[i], i + 1, p)
    BY <1>1, <2>2
  <2>4. PICK t \in Nat : t = T[i] /\ t <= Forever
    BY <1>0, <1>2
  <2>5. PICK b \in Nat : b = Backoff(i)
    BY BackoffNat
  <2>6. T[i + 1] = IF t = Forever \/ t > Forever - b - p THEN Forever ELSE t + b + p
    BY <2>2, <2>3, <2>4, <2>5 DEF Added
  <2>7. t <= T[i + 1] /\ (t = Forever => T[i + 1] = Forever)
    BY <1>0, <2>4, <2>6
  <2>8. T[m] <= t /\ (T[m] = Forever => t = Forever)
    BY <1>4, <2>1, <2>4
  <2>9. T[m] \in Nat /\ T[i + 1] \in Nat
    BY <1>2
  <2>10. T[m] <= T[i + 1] /\ (T[m] = Forever => T[i + 1] = Forever)
    BY <2>7, <2>8, <2>9
  <2> QED BY <2>2, <2>10
<1> HIDE DEF S
<1>5. n - m \in S
  <2>1. Nat \subseteq S
    BY <1>3, <1>4, SetInduction
  <2> QED BY <2>1
<1>6. m + (n - m) = n
  OBVIOUS
<1>7. T[m] <= T[n] /\ (T[m] = Forever => T[n] = Forever)
  BY <1>5, <1>6 DEF S
<1> QED BY <1>7 DEF T

\* maxRunDuration is the total for the job's attempts, unless one attempt is too long.
LEMMA LimitIsTotal ==
    ASSUME NEW j \in JobSet, MaxRunDuration(j) # Forever
    PROVE  /\ PerAttempt(j) \in 0..Forever
           /\ MaxRunDuration(j) = Total(PerAttempt(j))[MaxAttempts(j)]
<1>0. Forever \in Nat
  BY ExecutorAssumption
<1>1. MaxRunDuration(j) = IF Timeout(j) > Forever - Grace(j) THEN Forever
                          ELSE Total(Wrap(PerAttempt(j)))[MaxAttempts(j)]
  BY DEF MaxRunDuration, Total, Grace, PerAttempt
<1>2. Timeout(j) \in Nat /\ Grace(j) \in Nat /\ PerAttempt(j) = Timeout(j) + Grace(j)
  BY TimeoutPositive, GraceNat
<1>3. PerAttempt(j) \in Nat /\ PerAttempt(j) <= Forever
  BY <1>0, <1>1, <1>2
<1>4. Wrap(PerAttempt(j)) = PerAttempt(j)
  BY <1>3, WrapFits
<1> QED BY <1>0, <1>1, <1>3, <1>4

\* Every attempt has its share of the limit.
LEMMA Shares ==
    ASSUME NEW j \in JobSet, MaxRunDuration(j) # Forever, NEW a \in 1..MaxAttempts(j)
    PROVE  /\ Start(j, a) \in Nat /\ MaxRunDuration(j) \in Nat /\ Start(j, 1) = 0
           /\ Start(j, a) + PerAttempt(j) <= MaxRunDuration(j)
           /\ a < MaxAttempts(j) => /\ Start(j, a + 1) = Start(j, a) + PerAttempt(j) + Backoff(a)
                                    /\ Start(j, a + 1) <= MaxRunDuration(j)
<1>1. PICK N \in Nat \ {0} : N = MaxAttempts(j)
  BY AttemptsNat
<1>2. PICK p \in 0..Forever : p = PerAttempt(j)
  BY LimitIsTotal
<1>3. Forever \in Nat /\ p \in Nat /\ a \in 1..N /\ a \in Nat
  BY <1>1, ExecutorAssumption
<1>4. PICK T : T = Total(p)
  OBVIOUS
<1>5. MaxRunDuration(j) = T[N] /\ T[N] # Forever
  BY <1>1, <1>2, <1>4, LimitIsTotal
<1>6. /\ T \in [Nat -> 0..Forever] /\ T[1] = p
      /\ \A n \in Nat : n > 1 => T[n] = Added(T[n - 1], n, p)
  BY <1>4, TotalUnfolds
<1>7. \A n \in Nat : T[n] \in Nat
  BY <1>3, <1>6
<1>8. ASSUME NEW n \in 1..N
      PROVE  T[n] <= T[N] /\ T[n] # Forever
  <2>1. n \in Nat \ {0} /\ n <= N /\ N \in Nat
    BY <1>1, <1>8
  <2> QED BY <1>4, <1>5, <2>1, TotalGrows
<1>9. ASSUME NEW n \in 2..N
      PROVE  T[n] = T[n - 1] + Backoff(n - 1) + p
  <2>1. n \in Nat /\ n > 1 /\ n \in 1..N
    BY <1>9
  <2>2. T[n] = Added(T[n - 1], n, p) /\ T[n] # Forever
    BY <1>6, <1>8, <2>1
  <2> QED BY <2>2 DEF Added
<1>10. \A n \in 1..N : n # 1 => Start(j, n) = T[n - 1] + Backoff(n - 1)
  BY <1>2, <1>4 DEF Start
<1>11. Start(j, 1) = 0
  BY DEF Start
<1>12. ASSUME NEW n \in 1..N
       PROVE  Start(j, n) \in Nat /\ Start(j, n) + p = T[n]
  <2>1. CASE n = 1
    BY <1>3, <1>6, <1>11, <2>1
  <2>2. CASE n # 1
    <3>1. n \in 2..N /\ n - 1 \in Nat
      BY <1>1, <1>12, <2>2
    <3>2. Backoff(n - 1) \in Nat /\ T[n - 1] \in Nat
      BY <1>7, <3>1, BackoffNat
    <3>3. Start(j, n) = T[n - 1] + Backoff(n - 1)
      BY <1>10, <2>2
    <3>4. T[n] = T[n - 1] + Backoff(n - 1) + p
      BY <1>9, <3>1
    <3> QED BY <1>3, <3>2, <3>3, <3>4
  <2> QED BY <2>1, <2>2
<1>13. ASSUME a < N
       PROVE  Start(j, a + 1) = Start(j, a) + p + Backoff(a) /\ Start(j, a + 1) <= T[N]
  <2>1. a + 1 \in 1..N /\ a + 1 # 1 /\ (a + 1) - 1 = a
    BY <1>1, <1>3, <1>13
  <2>2. Start(j, a + 1) = T[a] + Backoff(a)
    BY <1>10, <2>1
  <2>3. T[a] = Start(j, a) + p /\ Start(j, a) \in Nat /\ Backoff(a) \in Nat
    BY <1>3, <1>12, BackoffNat
  <2>4. Start(j, a + 1) \in Nat /\ Start(j, a + 1) + p = T[a + 1] /\ T[a + 1] <= T[N]
    BY <1>8, <1>12, <2>1
  <2>5. T[N] \in Nat
    BY <1>1, <1>7
  <2> QED BY <1>3, <2>2, <2>3, <2>4, <2>5
<1> QED BY <1>1, <1>2, <1>3, <1>5, <1>7, <1>8, <1>11, <1>12, <1>13

-----------------------------------------------------------------------------
(* The run stays within its limit.                                         *)

\* The quantities of the run, as numbers.
LEMMA Quantities ==
    ASSUME Inv, TimeInv, MaxRunDuration(job) # Forever
    PROVE  /\ now \in Nat /\ lag \in Nat /\ deadline \in Nat /\ until \in Nat /\ attempt \in Nat \ {0}
           /\ KillGrace \in Nat /\ CleanupTimeout \in Nat \ {0} /\ Backoff(attempt) \in Nat
           /\ Start(job, attempt) \in Nat /\ Timeout(job) \in Nat \ {0} /\ PerAttempt(job) \in Nat
           /\ DeadlineBound \in Nat /\ MaxRunDuration(job) \in Nat
           /\ drill.cleanups = 0 => DeadlineBound = Start(job, attempt) + Timeout(job)
           /\ DeadlineBound + KillGrace <= Start(job, attempt) + PerAttempt(job)
           /\ Start(job, attempt) + PerAttempt(job) <= MaxRunDuration(job)
<1>1. /\ TypeInv /\ PhaseInv /\ job \in JobSet /\ drill \in DrillRow
      /\ attempt \in 1..MaxAttempts(job) /\ deadline \in Nat /\ until \in Nat
  BY DEF Inv, TypeInv, TimeInv
<1>2. /\ now \in Nat /\ lag \in Nat /\ attempt \in Nat \ {0}
      /\ KillGrace \in Nat /\ CleanupTimeout \in Nat \ {0}
  BY <1>1, AttemptsNat, ExecutorAssumption DEF TypeInv
<1>3. /\ Start(job, attempt) \in Nat /\ MaxRunDuration(job) \in Nat
      /\ Start(job, attempt) + PerAttempt(job) <= MaxRunDuration(job)
  BY <1>1, Shares
<1>4. /\ Timeout(job) \in Nat \ {0} /\ PerAttempt(job) \in Nat /\ Grace(job) \in Nat
      /\ PerAttempt(job) = Timeout(job) + Grace(job) /\ KillGrace <= Grace(job)
      /\ job.type = "drill" => Grace(job) = KillGrace + CleanupTimeout + KillGrace
  BY <1>1, TimeoutPositive, GraceNat
<1>5. Backoff(attempt) \in Nat
  BY <1>2, BackoffNat
<1>6. CASE drill.cleanups > 0
  <2>1. job.type = "drill"
    BY <1>1, <1>6 DEF PhaseInv, NoDrill
  <2>2. DeadlineBound = Start(job, attempt) + Timeout(job) + (KillGrace + CleanupTimeout)
    BY <1>6 DEF DeadlineBound
  <2> QED BY <1>1, <1>2, <1>3, <1>4, <1>5, <1>6, <2>1, <2>2
<1>7. CASE ~(drill.cleanups > 0)
  <2>1. DeadlineBound = Start(job, attempt) + Timeout(job) + 0
    BY <1>7 DEF DeadlineBound
  <2> QED BY <1>1, <1>2, <1>3, <1>4, <1>5, <2>1
<1> QED BY <1>6, <1>7

\* A step that moves neither time nor the executor, and revives neither context nor child.
LEMMA TimeFrame ==
    ASSUME TimeInv, UNCHANGED <<job, now, lag, deadline, phase, attempt, until>>,
           drill'.cleanups = drill.cleanups,
           ctx' = "live" => ctx = "live", child' = "alive" => child = "alive"
    PROVE  TimeInv'
<1>1. DeadlineBound' = DeadlineBound
  BY DEF DeadlineBound
<1> QED BY <1>1 DEF TimeInv

\* The child is gone, or its pipes are held: Wait is cut off after the kill grace.
LEMMA TimeCut ==
    ASSUME Inv, TimeInv, MaxRunDuration(job) # Forever,
           UNCHANGED <<job, now, lag, deadline, ctx, phase, attempt, drill>>,
           phase = "step", child = "alive", child' # "alive", until' = now + KillGrace
    PROVE  TimeInv'
<1>1. DeadlineBound' = DeadlineBound
  BY DEF DeadlineBound
<1>2. /\ now \in Nat /\ lag \in Nat /\ deadline \in Nat /\ KillGrace \in Nat /\ DeadlineBound \in Nat
  BY Quantities
<1>3. now <= deadline /\ deadline <= DeadlineBound + lag
  BY DEF TimeInv, Active
<1>4. until' \in Nat /\ until' <= DeadlineBound + KillGrace + lag
  BY <1>2, <1>3
<1> QED BY <1>1, <1>4 DEF TimeInv

\* The executor goes from one step of the attempt to the next.
LEMMA TimeMove ==
    ASSUME Inv, TimeInv, MaxRunDuration(job) # Forever,
           UNCHANGED <<job, now, lag, deadline, ctx, attempt>>, drill'.cleanups = drill.cleanups,
           phase \in Active, phase' \in {"step", "body", "checks", "remove"},
           until' \in {until, now, 0},
           phase' = "step" => until' = now /\ (child' = "alive" => ctx = "live"),
           phase' = "body" => ctx = "live"
    PROVE  TimeInv'
<1>1. DeadlineBound' = DeadlineBound
  BY DEF DeadlineBound
<1>2. /\ now \in Nat /\ lag \in Nat /\ deadline \in Nat /\ until \in Nat
      /\ KillGrace \in Nat /\ DeadlineBound \in Nat
  BY Quantities
<1>3. /\ deadline <= DeadlineBound + lag /\ (ctx = "live" => now < deadline)
      /\ now <= DeadlineBound + KillGrace + lag
  BY DEF TimeInv
<1>4. until' \in Nat /\ (phase' = "step" => until' <= DeadlineBound + KillGrace + lag)
  BY <1>2, <1>3
<1>5. ctx = "live" => now <= deadline
  BY <1>2, <1>3
<1>6. attempt \in 1..MaxAttempts(job)
  BY DEF TimeInv
<1> QED BY <1>1, <1>2, <1>3, <1>4, <1>5, <1>6 DEF TimeInv

\* The attempt ends.
LEMMA TimeResult ==
    ASSUME Inv, TimeInv, MaxRunDuration(job) # Forever,
           UNCHANGED <<job, now, lag, attempt>>,
           phase \in Active, phase' = "judge", deadline' = 0, until' = 0
    PROVE  TimeInv'
<1>1. /\ now \in Nat /\ lag \in Nat /\ KillGrace \in Nat /\ DeadlineBound \in Nat
      /\ Start(job, attempt) \in Nat /\ PerAttempt(job) \in Nat
      /\ DeadlineBound + KillGrace <= Start(job, attempt) + PerAttempt(job)
  BY Quantities
<1>2. now <= DeadlineBound + KillGrace + lag /\ attempt \in 1..MaxAttempts(job)
  BY DEF TimeInv
<1>3. now <= Start(job, attempt) + PerAttempt(job) + lag
  BY <1>1, <1>2
<1> QED BY <1>2, <1>3 DEF TimeInv, Active

LEMMA TimeTick ==
    ASSUME Inv, TimeInv, MaxRunDuration(job) # Forever, Tick
    PROVE  TimeInv'
<1>1. /\ now \in Nat /\ lag \in Nat /\ deadline \in Nat /\ until \in Nat /\ KillGrace \in Nat
      /\ Start(job, attempt) \in Nat /\ PerAttempt(job) \in Nat /\ DeadlineBound \in Nat
  BY Quantities
<1>2. /\ phase # "done" /\ now' = now + 1
      /\ UNCHANGED <<job, deadline, phase, attempt, until, child, drill>>
      /\ ctx' = IF ctx = "live" /\ phase \notin {"ready", "judge", "pause"} /\ now + 1 >= deadline
                THEN "deadline" ELSE ctx
  BY DEF Tick
<1>3. DeadlineBound' = DeadlineBound
  BY <1>2 DEF DeadlineBound
<1>4. phase \in Active /\ ctx' = "live" => now' < deadline'
  BY <1>1, <1>2 DEF Active
<1>5. CASE phase \notin Waiting
  <2>1. lag' = lag + 1
    BY <1>5 DEF Tick
  <2>2. phase \in {"ready", "scratch", "checks", "remove", "judge"}
    BY <1>2, <1>5 DEF Inv, TypeInv, Phases, Waiting
  <2>3. CASE phase \in {"ready", "judge"}
    BY <1>1, <1>2, <2>1, <2>3 DEF TimeInv, Active
  <2>4. CASE phase \in {"scratch", "checks", "remove"}
    <3>1. /\ phase \in Active /\ deadline <= DeadlineBound + lag
          /\ now <= DeadlineBound + KillGrace + lag /\ attempt \in 1..MaxAttempts(job)
      BY <2>4 DEF TimeInv, Active
    <3>2. deadline' <= DeadlineBound' + lag' /\ now' <= DeadlineBound' + KillGrace + lag'
      BY <1>1, <1>2, <1>3, <2>1, <3>1
    <3> QED BY <1>1, <1>2, <1>4, <2>4, <3>1, <3>2 DEF TimeInv
  <2> QED BY <2>2, <2>3, <2>4
<1>6. CASE phase \in Waiting
  <2>1. lag' = lag /\ ~Due
    BY <1>6 DEF Tick
  <2>2. CASE phase = "pause"
    <3>1. now < until
      BY <1>1, <2>1, <2>2 DEF Due
    <3> QED BY <1>1, <1>2, <2>1, <2>2, <3>1 DEF TimeInv, Active
  <2>3. CASE phase \in {"request", "body", "probe"} \/ (phase = "step" /\ child = "alive")
    <3>1. ctx = "live" /\ phase \in Active
      BY <2>1, <2>3 DEF Due, Active
    <3>2. now < deadline /\ deadline <= DeadlineBound + lag /\ attempt \in 1..MaxAttempts(job)
          /\ (phase = "step" => until <= DeadlineBound + KillGrace + lag)
      BY <3>1 DEF TimeInv
    <3>3. now' <= deadline' /\ deadline' <= DeadlineBound' + lag' /\ now' <= DeadlineBound' + KillGrace + lag'
      BY <1>1, <1>2, <1>3, <2>1, <3>2
    <3> QED BY <1>1, <1>2, <1>3, <1>4, <2>1, <2>3, <3>1, <3>2, <3>3 DEF TimeInv
  <2>4. CASE phase = "step" /\ child # "alive"
    <3>1. now < until
      BY <1>1, <2>1, <2>4 DEF Due
    <3>2. /\ until <= DeadlineBound + KillGrace + lag /\ deadline <= DeadlineBound + lag
          /\ attempt \in 1..MaxAttempts(job)
      BY <2>4 DEF TimeInv, Active
    <3>3. now' <= DeadlineBound' + KillGrace + lag'
      BY <1>1, <1>2, <1>3, <2>1, <3>1, <3>2
    <3> QED BY <1>1, <1>2, <1>3, <1>4, <2>1, <2>4, <3>2, <3>3 DEF TimeInv, Active
  <2> QED BY <1>6, <2>2, <2>3, <2>4 DEF Waiting
<1> QED BY <1>5, <1>6

LEMMA TimeRunOnce ==
    ASSUME Inv, TimeInv, MaxRunDuration(job) # Forever, RunOnce
    PROVE  TimeInv'
<1>1. /\ now \in Nat /\ lag \in Nat /\ KillGrace \in Nat
      /\ Start(job, attempt) \in Nat /\ Timeout(job) \in Nat \ {0} /\ DeadlineBound \in Nat
      /\ drill.cleanups = 0 => DeadlineBound = Start(job, attempt) + Timeout(job)
  BY Quantities
<1>2. /\ phase = "ready" /\ deadline' = now + Timeout(job) /\ until' = now
      /\ phase' = FirstPhase[job.type] /\ UNCHANGED <<job, now, lag, attempt, drill>>
  BY DEF RunOnce
<1>3. DeadlineBound' = DeadlineBound
  BY <1>2 DEF DeadlineBound
<1>4. drill.cleanups = 0 /\ job \in JobSet
  BY <1>2 DEF Inv, TypeInv, PhaseInv, NoDrill
<1>5. phase' \in {"step", "request", "probe", "scratch"}
  <2>1. job.type \in {"shell", "http", "probe", "drill"}
    BY <1>4, ExecutorAssumption DEF JobSet
  <2> QED BY <1>2, <2>1 DEF FirstPhase
<1>6. now <= Start(job, attempt) + lag /\ attempt \in 1..MaxAttempts(job)
  BY <1>2 DEF TimeInv
<1>7. /\ deadline' \in Nat /\ until' \in Nat /\ now' < deadline' /\ now' <= deadline'
      /\ deadline' <= DeadlineBound' + lag'
      /\ now' <= DeadlineBound' + KillGrace + lag' /\ until' <= DeadlineBound' + KillGrace + lag'
  BY <1>1, <1>2, <1>3, <1>4, <1>6
<1> QED BY <1>2, <1>5, <1>6, <1>7 DEF TimeInv

\* The cleanup has a context and a deadline of its own.
LEMMA TimeCleanup ==
    ASSUME Inv, TimeInv, MaxRunDuration(job) # Forever, StartCleanup, job.cleanup
    PROVE  TimeInv'
<1> DEFINE d == IF TooSlow THEN Failed(drill, "failed", 1) ELSE drill
<1>1. /\ now \in Nat /\ lag \in Nat /\ KillGrace \in Nat /\ CleanupTimeout \in Nat \ {0}
      /\ Start(job, attempt) \in Nat /\ Timeout(job) \in Nat \ {0}
      /\ drill.cleanups = 0 => DeadlineBound = Start(job, attempt) + Timeout(job)
  BY Quantities
<1>2. /\ phase = "checks" /\ drill.step = job.checks + 1 /\ phase' = "step"
      /\ ctx' = "live" /\ deadline' = now + CleanupTimeout /\ until' = now
      /\ drill' = [d EXCEPT !.step = @ + 1, !.cleanups = @ + 1]
      /\ UNCHANGED <<job, now, lag, attempt>>
  BY DEF StartCleanup
<1>3. job.type = "drill" /\ drill \in DrillRow
  BY <1>2 DEF Inv, PhaseInv, TypeInv
<1>4. drill.cleanups = 0
  BY <1>2, <1>3 DEF Inv, StepInv
<1>5. d \in DrillRow /\ d.cleanups = 0
  <2>1. "failed" \in {"failed", "timed_out"} /\ 1 \in Int
    OBVIOUS
  <2>2. Failed(drill, "failed", 1) \in DrillRow /\ Failed(drill, "failed", 1).cleanups = drill.cleanups
    BY <1>3, <2>1, FailedFacts
  <2> QED BY <1>3, <1>4, <2>2
<1> HIDE DEF d
<1>6. drill'.cleanups = 1
  BY <1>2, <1>5 DEF DrillRow
<1>7. DeadlineBound' = Start(job, attempt) + Timeout(job) + (KillGrace + CleanupTimeout)
  BY <1>2, <1>6 DEF DeadlineBound
<1>8. now <= DeadlineBound + KillGrace + lag /\ attempt \in 1..MaxAttempts(job)
  BY <1>2 DEF TimeInv, Active
<1>9. /\ deadline' \in Nat /\ until' \in Nat /\ now' < deadline' /\ now' <= deadline'
      /\ deadline' <= DeadlineBound' + lag'
      /\ now' <= DeadlineBound' + KillGrace + lag' /\ until' <= DeadlineBound' + KillGrace + lag'
  BY <1>1, <1>2, <1>4, <1>7, <1>8
<1> QED BY <1>2, <1>8, <1>9 DEF TimeInv

\* The retry loop: the next attempt has its own share of the limit.
LEMMA TimeLoop ==
    ASSUME Inv, TimeInv, MaxRunDuration(job) # Forever, Judge \/ PauseEnds
    PROVE  TimeInv'
<1>1. /\ now \in Nat /\ lag \in Nat /\ deadline \in Nat /\ until \in Nat /\ attempt \in Nat \ {0}
      /\ Start(job, attempt) \in Nat /\ PerAttempt(job) \in Nat /\ Backoff(attempt) \in Nat
      /\ MaxRunDuration(job) \in Nat /\ job \in JobSet
      /\ Start(job, attempt) + PerAttempt(job) <= MaxRunDuration(job)
  BY Quantities DEF Inv, TypeInv
<1>2. attempt \in 1..MaxAttempts(job) /\ MaxAttempts(job) \in Nat
  BY <1>1, AttemptsNat DEF TimeInv
<1>3. attempt < MaxAttempts(job) =>
        /\ Start(job, attempt + 1) = Start(job, attempt) + PerAttempt(job) + Backoff(attempt)
        /\ Start(job, attempt + 1) <= MaxRunDuration(job)
  BY <1>1, <1>2, Shares
<1>4. CASE Judge /\ phase' = "done"
  <2>1. phase = "judge" /\ UNCHANGED <<job, now, lag, deadline, attempt, until>>
    BY <1>4 DEF Judge
  <2>2. now <= Start(job, attempt) + PerAttempt(job) + lag
    BY <2>1 DEF TimeInv
  <2>3. now <= MaxRunDuration(job) + lag
    BY <1>1, <2>2
  <2> QED BY <1>1, <1>2, <1>4, <2>1, <2>3 DEF TimeInv, Active
<1>5. CASE Judge /\ phase' = "pause"
  <2>1. /\ phase = "judge" /\ UNCHANGED <<job, now, lag, deadline, attempt>>
        /\ until' = now + Backoff(attempt) /\ ~(attempt >= MaxAttempts(job))
    BY <1>5 DEF Judge
  <2>2. now <= Start(job, attempt) + PerAttempt(job) + lag
    BY <2>1 DEF TimeInv
  <2>3. /\ until' \in Nat /\ now <= until' /\ attempt < MaxAttempts(job)
        /\ until' <= Start(job, attempt) + PerAttempt(job) + Backoff(attempt) + lag
    BY <1>1, <1>2, <2>1, <2>2
  <2> QED BY <1>1, <1>2, <1>5, <2>1, <2>3 DEF TimeInv, Active
<1>6. CASE PauseEnds
  <2>1. phase = "pause" /\ UNCHANGED <<job, now, lag, deadline, until>>
    BY <1>6 DEF PauseEnds
  <2>2. /\ attempt < MaxAttempts(job) /\ now <= until
        /\ until <= Start(job, attempt) + PerAttempt(job) + Backoff(attempt) + lag
    BY <2>1 DEF TimeInv
  <2>3. CASE phase' = "ready" /\ attempt' = attempt + 1
    <3>1. attempt' \in 1..MaxAttempts(job)
      BY <1>1, <1>2, <2>2, <2>3
    <3>2. now <= Start(job, attempt + 1) + lag
      BY <1>1, <1>3, <2>2
    <3> QED BY <1>1, <2>1, <2>3, <3>1, <3>2 DEF TimeInv, Active
  <2>4. CASE phase' = "done" /\ attempt' = attempt
    <3>1. now <= MaxRunDuration(job) + lag
      BY <1>1, <1>3, <2>2
    <3> QED BY <1>1, <1>2, <2>1, <2>4, <3>1 DEF TimeInv, Active
  <2> QED BY <1>6, <2>3, <2>4 DEF PauseEnds
<1>7. Judge => phase' \in {"done", "pause"}
  BY DEF Judge
<1> QED BY <1>4, <1>5, <1>6, <1>7

\* A step of a child or of a server, or of the drill: time stands still.
LEMMA TimeSteps ==
    ASSUME Inv, Inv', TimeInv, MaxRunDuration(job) # Forever,
           MakeScratch \/ RestoreEnds \/ NextCheck \/ CheckEnds \/ StartCleanup \/ CleanupEnds
             \/ RemoveScratch
    PROVE  TimeInv'
<1>0. PhaseInv /\ StepInv /\ StepInv' /\ job \in JobSet
  BY DEF Inv, TypeInv
<1>1. job.checks \in Nat /\ (job.type # "drill" => job.checks = 0) /\ job.cleanup \in BOOLEAN
  BY <1>0, ExecutorAssumption DEF JobSet
<1>2. CASE MakeScratch
  <2>1. phase = "scratch" /\ UNCHANGED <<job, now, lag, parent, attempt>> /\ phase \in Active
    BY <1>2 DEF MakeScratch, Active
  <2>2. CASE Result(NoAnswer)
    BY <2>1, <2>2, TimeResult DEF Result
  <2>3. CASE /\ phase' = "step" /\ drill' = [drill EXCEPT !.scratch = "made", !.began = now]
             /\ child' = Spawned(ctx) /\ until' = now /\ UNCHANGED <<ctx, deadline>>
    <3>1. drill = NoDrill
      BY <1>0, <2>1 DEF PhaseInv
    <3>2. drill'.cleanups = drill.cleanups
      BY <2>3, <3>1 DEF NoDrill
    <3>3. child' = "alive" => ctx = "live"
      BY <2>3 DEF Spawned
    <3> QED BY <2>1, <2>3, <3>2, <3>3, TimeMove
  <2> QED BY <1>2, <2>2, <2>3 DEF MakeScratch
<1>3. CASE RestoreEnds
  <2>1. /\ job.type = "drill" /\ drill.step = 0 /\ phase = "step" /\ phase' = "checks" /\ until' = 0
        /\ UNCHANGED <<job, now, lag, ctx, deadline, attempt>> /\ phase \in Active
    BY <1>3 DEF RestoreEnds, RunReturns, Active
  <2>2. drill.cleanups = 0 /\ drill'.cleanups = 0
    BY <1>0, <1>1, <2>1 DEF StepInv
  <2> QED BY <2>1, <2>2, TimeMove
<1>4. CASE NextCheck
  <2>1. /\ phase = "checks" /\ UNCHANGED <<job, now, lag, ctx, deadline, attempt>> /\ phase \in Active
        /\ \/ phase' = "step" /\ child' = Spawned(ctx) /\ until' = now /\ UNCHANGED drill
           \/ phase' = "checks" /\ UNCHANGED until
    BY <1>4 DEF NextCheck, Active
  <2>2. job.type = "drill" /\ drill.cleanups = 0
    BY <1>0, <2>1 DEF PhaseInv, StepInv
  <2>3. drill'.cleanups = drill.cleanups
    BY <1>0, <2>1, <2>2 DEF StepInv
  <2>4. phase' = "step" => until' = now /\ (child' = "alive" => ctx = "live")
    BY <2>1 DEF Spawned
  <2> QED BY <2>1, <2>3, <2>4, TimeMove
<1>5. CASE CheckEnds
  <2>1. /\ drill.step \in 1..job.checks /\ phase = "step" /\ phase' = "checks" /\ until' = 0
        /\ UNCHANGED <<job, now, lag, ctx, deadline, attempt>> /\ phase \in Active
    BY <1>5 DEF CheckEnds, RunReturns, Active
  <2>2. job.type = "drill"
    BY <1>1, <2>1
  <2>3. drill.cleanups = 0 /\ drill'.cleanups = 0
    BY <1>0, <1>1, <2>1, <2>2 DEF StepInv
  <2> QED BY <2>1, <2>3, TimeMove
<1>6. CASE StartCleanup
  <2>1. CASE job.cleanup
    BY <1>6, <2>1, TimeCleanup
  <2>2. CASE ~job.cleanup
    <3>1. /\ phase = "checks" /\ phase' = "remove" /\ phase \in Active
          /\ UNCHANGED <<job, now, lag, ctx, deadline, attempt, until>>
      BY <1>6, <2>2 DEF StartCleanup, Active
    <3>2. job.type = "drill"
      BY <1>0, <3>1 DEF PhaseInv
    <3>3. drill.cleanups = 0 /\ drill'.cleanups = 0
      BY <1>0, <2>2, <3>1, <3>2 DEF StepInv
    <3> QED BY <3>1, <3>3, TimeMove
  <2> QED BY <2>1, <2>2
<1>7. CASE CleanupEnds
  <2>1. /\ drill.step = job.checks + 2 /\ phase = "step" /\ phase' = "remove" /\ until' = 0
        /\ UNCHANGED <<job, now, lag, ctx, deadline, attempt>> /\ phase \in Active
    BY <1>7 DEF CleanupEnds, RunReturns, Active
  <2>2. job.type = "drill"
    BY <1>0, <1>1, <2>1 DEF PhaseInv, NoDrill
  <2>3. drill.cleanups = 1 /\ job.cleanup
    BY <1>0, <1>1, <2>1, <2>2 DEF StepInv
  <2>4. drill'.cleanups = 1
    BY <1>0, <2>1, <2>2, <2>3 DEF StepInv
  <2> QED BY <2>1, <2>3, <2>4, TimeMove
<1>8. CASE RemoveScratch
  <2>1. /\ phase = "remove" /\ phase \in Active /\ phase' = "judge" /\ deadline' = 0 /\ until' = 0
        /\ UNCHANGED <<job, now, lag, attempt>>
    BY <1>8 DEF RemoveScratch, Result, Active
  <2> QED BY <2>1, TimeResult
<1> QED BY <1>2, <1>3, <1>4, <1>5, <1>6, <1>7, <1>8

LEMMA TimeNext ==
    ASSUME Inv, Inv', TimeInv, MaxRunDuration(job) # Forever, [Next]_vars
    PROVE  TimeInv'
<1>1. CASE Tick
  BY <1>1, TimeTick
<1>2. CASE Cancel \/ PipesClose \/ RestoreReplacesScratch \/ UNCHANGED vars
  <2>1. /\ UNCHANGED <<job, now, lag, deadline, phase, attempt, until>>
        /\ ctx' = "live" => ctx = "live"
        /\ child' = "alive" => child = "alive"
    BY <1>2 DEF Cancel, PipesClose, RestoreReplacesScratch, vars
  <2>2. drill \in DrillRow
    BY DEF Inv, TypeInv
  <2>3. drill'.cleanups = drill.cleanups
    BY <1>2, <2>2 DEF Cancel, PipesClose, RestoreReplacesScratch, vars, DrillRow
  <2> QED BY <2>1, <2>3, TimeFrame
<1>3. CASE ShellExits
  <2>1. /\ UNCHANGED <<job, now, lag, deadline, ctx, phase, attempt, drill>>
        /\ phase = "step" /\ child = "alive" /\ child' # "alive"
        /\ UNCHANGED until \/ until' = now + KillGrace
    BY <1>3 DEF ShellExits
  <2> QED BY <2>1, TimeFrame, TimeCut
<1>4. CASE KillGroup
  BY <1>4, TimeCut DEF KillGroup
<1>5. CASE RunOnce
  BY <1>5, TimeRunOnce
<1>6. CASE RunOnceShell \/ HTTPBody \/ ProbeAnswers
  <2>1. /\ phase \in Active /\ phase' = "judge" /\ deadline' = 0 /\ until' = 0
        /\ UNCHANGED <<job, now, lag, attempt>>
    BY <1>6 DEF RunOnceShell, RunReturns, HTTPBody, ProbeAnswers, Result, Active
  <2> QED BY <2>1, TimeResult
<1>7. CASE HTTPDo
  <2>1. phase = "request" /\ phase \in Active /\ UNCHANGED <<job, now, lag, attempt, drill>>
    BY <1>7 DEF HTTPDo, Active
  <2>2. CASE Result(NoAnswer)
    BY <2>1, <2>2, TimeResult DEF Result
  <2>3. CASE ctx = "live" /\ phase' = "body" /\ UNCHANGED <<ctx, deadline, until>>
    BY <2>1, <2>3, TimeMove
  <2> QED BY <1>7, <2>2, <2>3 DEF HTTPDo
<1>8. CASE MakeScratch \/ RestoreEnds \/ NextCheck \/ CheckEnds \/ StartCleanup \/ CleanupEnds
             \/ RemoveScratch
  BY <1>8, TimeSteps
<1>9. CASE Judge \/ PauseEnds
  BY <1>9, TimeLoop
<1> QED BY <1>1, <1>2, <1>3, <1>4, <1>5, <1>6, <1>7, <1>8, <1>9 DEF Next, Act

LEMMA InitLimit ==
    ASSUME Init
    PROVE  LimitInv
<1> SUFFICES ASSUME MaxRunDuration(job) # Forever PROVE TimeInv
  BY DEF LimitInv
<1>1. job \in JobSet /\ phase = "ready" /\ now = 0 /\ lag = 0 /\ attempt = 1 /\ deadline = 0 /\ until = 0
  BY DEF Init, Fresh
<1>2. MaxAttempts(job) \in Nat \ {0}
  BY <1>1, AttemptsNat
<1>3. attempt \in 1..MaxAttempts(job)
  BY <1>1, <1>2
<1>4. Start(job, attempt) = 0
  BY <1>1 DEF Start
<1> QED BY <1>1, <1>3, <1>4 DEF TimeInv, Active

LEMMA NextLimit ==
    ASSUME Inv, Inv', LimitInv, [Next]_vars
    PROVE  LimitInv'
<1>1. job' = job
  BY DEF Next, Act, vars, Tick, Cancel, RestoreReplacesScratch, ShellExits, PipesClose, KillGroup,
         RunOnce, RunOnceShell, HTTPDo, HTTPBody, ProbeAnswers, MakeScratch, RestoreEnds, NextCheck,
         CheckEnds, StartCleanup, CleanupEnds, RemoveScratch, Judge, PauseEnds
<1>2. CASE MaxRunDuration(job) = Forever
  BY <1>1, <1>2 DEF LimitInv
<1>3. CASE MaxRunDuration(job) # Forever
  BY <1>3, TimeNext DEF LimitInv
<1> QED BY <1>2, <1>3

\* No run outlives the limit that the reaper judges it by, however its children,
\* servers, timeouts, pauses and drills behave: reapStale never takes a run from
\* a live executor, but for the lag that reapSlack covers.
THEOREM RunsStayWithinLimit == Spec => []WithinLimit
<1>1. Init => LimitInv
  BY InitLimit
<1>2. Inv /\ Inv' /\ LimitInv /\ [Next]_vars => LimitInv'
  BY NextLimit
<1>3. Inv /\ LimitInv => WithinLimit
  <2> SUFFICES ASSUME Inv, LimitInv, MaxRunDuration(job) # Forever
               PROVE  now <= MaxRunDuration(job) + lag
    BY DEF WithinLimit
  <2>1. TimeInv /\ phase \in Phases
    BY DEF LimitInv, Inv, TypeInv
  <2>2. /\ now \in Nat /\ lag \in Nat /\ until \in Nat /\ attempt \in Nat \ {0} /\ KillGrace \in Nat
        /\ Start(job, attempt) \in Nat /\ PerAttempt(job) \in Nat /\ DeadlineBound \in Nat
        /\ MaxRunDuration(job) \in Nat /\ Backoff(attempt) \in Nat
        /\ DeadlineBound + KillGrace <= Start(job, attempt) + PerAttempt(job)
        /\ Start(job, attempt) + PerAttempt(job) <= MaxRunDuration(job)
    BY <2>1, Quantities
  <2>3. CASE phase \in Active
    <3>1. now <= DeadlineBound + KillGrace + lag
      BY <2>1, <2>3 DEF TimeInv
    <3> QED BY <2>2, <3>1
  <2>4. CASE phase \in {"ready", "judge"}
    <3>1. now <= Start(job, attempt) + PerAttempt(job) + lag
      BY <2>1, <2>2, <2>4 DEF TimeInv
    <3> QED BY <2>2, <3>1
  <2>5. CASE phase = "pause"
    <3>1. /\ attempt \in 1..MaxAttempts(job) /\ attempt < MaxAttempts(job) /\ now <= until
          /\ until <= Start(job, attempt) + PerAttempt(job) + Backoff(attempt) + lag
      BY <2>1, <2>5 DEF TimeInv
    <3>2. Start(job, attempt) + PerAttempt(job) + Backoff(attempt) <= MaxRunDuration(job)
      BY <3>1, Shares DEF Inv, TypeInv
    <3> QED BY <2>2, <3>1, <3>2
  <2>6. CASE phase = "done"
    BY <2>1, <2>6 DEF TimeInv
  <2> QED BY <2>1, <2>3, <2>4, <2>5, <2>6 DEF Phases, Active
<1> QED BY <1>1, <1>2, <1>3, DrillInvariance, PTL DEF Spec
=============================================================================
