----------------------------- MODULE SyncProofs -----------------------------
(***************************************************************************)
(* How the configuration gets into the store (module Sync), for every set  *)
(* of files, names and commands: a sync that ends well leaves every row as *)
(* its file says, unless another command wrote it meanwhile; and after an  *)
(* import without failures the UUIDs of its checks are tokens of           *)
(* heartbeats, and importing again has nothing to do.                      *)
(*                                                                         *)
(* The invariant follows the sync through its sections: what it is done    *)
(* with is as the file says, what it read and has not used yet is still    *)
(* so, each up to what others touched; and a job's id is never another's,  *)
(* so that a rule written for an id that was looked up earlier is no other *)
(* job's rule.                                                             *)
(***************************************************************************)
EXTENDS Sync, WellFoundedInduction, TLAPS

-----------------------------------------------------------------------------
(* The invariant.                                                          *)

\* A sync is under way or has ended well; what it has got to.
Active == sync.pc \in {"jobs", "job", "prune", "channels", "channel", "rules", "rule", "heartbeats", "done"}
AtJobs == sync.pc \in {"jobs", "job"}
AtChannels == sync.pc \in {"channels", "channel"}
AtRules == sync.pc \in {"rules", "rule"}
PastJobs == sync.pc \notin {"jobs", "job", "prune"}
PastChannels == PastJobs /\ ~AtChannels
PastRules == sync.pc \in {"heartbeats", "done"}

\* The id rules of a job, or of all jobs, are stored under.
IdOf(m) == IF m = AllJobs THEN 0 ELSE jobs[m].id
JobTouched(m) == <<"job", m>> \in touched
RuleTouched(c, m) == <<"job", m>> \in touched \/ <<"rule", c, m>> \in touched
Present(m) == m # AllJobs => jobs[m] # Nil

\* What the store and the sync are.
StoreType ==
    /\ SyncAssumption
    /\ jobs \in [JobNames -> Rows \cup {Nil}]
    /\ lastId \in Nat /\ lastId >= 1
    /\ DOMAIN channels = ChannelNames
    /\ \A h \in hbs : h = [name |-> h.name, token |-> h.token, period |-> h.period]

SyncType ==
    /\ sync = [pc |-> sync.pc, file |-> sync.file, existing |-> sync.existing,
               todo |-> sync.todo, at |-> sync.at]
    /\ sync.pc \in {"idle", "failed"} \/ Active
    /\ Active => sync.file \in Files

\* Ids are given out once.
IdInv ==
    /\ \A n \in JobNames : jobs[n] # Nil => jobs[n].id \in 1..lastId
    /\ \A m, n \in JobNames : jobs[m] # Nil /\ jobs[n] # Nil /\ jobs[m].id = jobs[n].id => m = n

\* A command that goes by an id it read still has the row of that id.
OpInv ==
    op # Nil =>
        /\ op.cmd \in {"rm", "toggle", "rule", "hbrm"}
        /\ op.cmd \in {"rm", "toggle"} => op.name \in JobNames /\ op.row \in Rows
        /\ op.cmd = "rule" => /\ op.name \in JobNames \cup {AllJobs}
                              /\ Present(op.name) /\ op.id = IdOf(op.name)

\* The jobs of the file that are done with are as it says.
JobsInv ==
    /\ AtJobs => sync.todo \subseteq DOMAIN sync.file.jobs
    /\ sync.pc = "job" => sync.at.name \in JobNames /\ sync.at.name \in DOMAIN sync.file.jobs
                          /\ sync.at.id \in Nat
    /\ \A n \in JobNames : n \in DOMAIN sync.file.jobs =>
          \/ AtJobs /\ n \in sync.todo
          \/ sync.pc = "job" /\ n = sync.at.name
          \/ JobAgrees(sync.file, n)

\* The others are as they were listed, then disabled if the file prunes.
AbsentInv ==
    /\ \A n \in DOMAIN sync.existing : n \in JobNames /\ sync.existing[n] \in Rows
    /\ sync.pc = "prune" => sync.todo \subseteq DOMAIN sync.existing \ DOMAIN sync.file.jobs
    /\ \A n \in JobNames : n \notin DOMAIN sync.file.jobs =>
          IF AtJobs
          THEN JobTouched(n) \/ (Readable(n) => n \in DOMAIN sync.existing /\ sync.existing[n] = jobs[n])
          ELSE (sync.pc = "prune" /\ n \in sync.todo) \/ JobAgrees(sync.file, n)

\* The channels that are done with are as the file and the secret say.
ChannelsInv ==
    /\ AtChannels => sync.todo \subseteq DOMAIN sync.file.channels
    /\ sync.pc = "channel" =>
          /\ sync.at.name \in ChannelNames /\ sync.at.name \in DOMAIN sync.file.channels
          /\ IF sync.file.channels[sync.at.name] = "secret"
             THEN sync.at.config = secret \/ <<"secret">> \in touched
             ELSE sync.at.config = sync.file.channels[sync.at.name]
    /\ PastJobs => \A c \in DOMAIN sync.file.channels :
          \/ AtChannels /\ c \in sync.todo
          \/ sync.pc = "channel" /\ c = sync.at.name
          \/ ChannelAgrees(sync.file, c)

\* The rows of a rule that has been applied up to some events.
RuleWritten(r, events) ==
    \/ RuleTouched(r.channel, r.job)
    \/ Present(r.job) /\ \A e \in events : KeyAgrees(sync.file, <<r.channel, e, IdOf(r.job)>>, r.job)

\* The job a rule was looked up for keeps its id, or it was removed and no
\* other job has that id.
RulesInv ==
    /\ AtRules => sync.todo \subseteq sync.file.rules
    /\ sync.pc = "rule" =>
          /\ sync.at = [rule |-> sync.at.rule, events |-> sync.at.events, id |-> sync.at.id]
          /\ sync.at.rule \in sync.file.rules
          /\ sync.at.events \subseteq sync.at.rule.events
          /\ sync.at.id \in 0..lastId
          /\ sync.at.id = 0 <=> sync.at.rule.job = AllJobs
          /\ \A n \in JobNames : jobs[n] # Nil /\ jobs[n].id = sync.at.id => n = sync.at.rule.job
          /\ JobTouched(sync.at.rule.job) \/ (Present(sync.at.rule.job) /\ sync.at.id = IdOf(sync.at.rule.job))
          /\ RuleWritten(sync.at.rule, sync.at.rule.events \ sync.at.events)
    /\ PastChannels => \A r \in sync.file.rules :
          \/ AtRules /\ r \in sync.todo
          \/ sync.pc = "rule" /\ r = sync.at.rule
          \/ RuleWritten(r, r.events)

\* The heartbeats that are done with are as the file says.
HeartbeatsInv ==
    /\ sync.pc = "heartbeats" => sync.todo \subseteq DOMAIN sync.file.heartbeats
    /\ PastRules => \A name \in DOMAIN sync.file.heartbeats :
          (sync.pc = "heartbeats" /\ name \in sync.todo) \/ HeartbeatAgrees(sync.file, name)

ProgressInv == Active => JobsInv /\ AbsentInv /\ ChannelsInv /\ RulesInv /\ HeartbeatsInv

SyncInv == StoreType /\ SyncType /\ IdInv /\ OpInv /\ ProgressInv

-----------------------------------------------------------------------------
(* Steps of others.                                                        *)

\* What a step of another writer may change: rows it is recorded to have touched.
Frame ==
    /\ sync' = sync /\ touched \subseteq touched' /\ lastId <= lastId'
    /\ \A n \in JobNames : <<"job", n>> \in touched' \/ jobs'[n] = jobs[n]
    /\ \A n \in JobNames : jobs'[n] # Nil =>
          (jobs[n] # Nil /\ jobs'[n].id = jobs[n].id) \/ jobs'[n].id > lastId
    /\ \A c \in ChannelNames : <<"channel", c>> \in touched' \/ channels'[c] = channels[c]
    /\ <<"secret">> \in touched' \/ secret' = secret
    /\ \A c, e : \A m \in JobNames \cup {AllJobs} :
          \/ <<"job", m>> \in touched' \/ <<"rule", c, m>> \in touched'
          \/ Present(m) /\ <<c, e, IdOf(m)>> \in DOMAIN rules =>
                /\ <<c, e, IdOf(m)>> \in DOMAIN rules'
                /\ rules'[<<c, e, IdOf(m)>>] = rules[<<c, e, IdOf(m)>>]
    /\ \A name : <<"hb", name>> \in touched' \/ Named(name) \subseteq Named(name)'

\* The channels of the file are channels.
LEMMA FileChannels == ASSUME SyncInv, Active PROVE DOMAIN sync.file.channels \subseteq ChannelNames
BY DEF SyncInv, StoreType, SyncAssumption, SyncType

\* Another's step leaves the jobs as the sync left them, but for those it touched,
LEMMA FrameJobs ==
    ASSUME SyncInv, Active, Frame
    PROVE  JobsInv' /\ AbsentInv'
<1>1. JobsInv /\ AbsentInv
  BY DEF SyncInv, ProgressInv
<1>2. ASSUME NEW n \in JobNames, JobAgrees(sync.file, n) PROVE JobAgrees(sync.file, n)'
  BY <1>2 DEF JobAgrees, Frame, Readable
<1>3. JobsInv'
  BY <1>1, <1>2 DEF JobsInv, Frame, AtJobs
<1>4. AbsentInv'
  BY <1>1, <1>2 DEF AbsentInv, Frame, AtJobs, JobTouched, Readable
<1> QED BY <1>3, <1>4

\* and the channels, with the secret they refer to,
LEMMA FrameChannels ==
    ASSUME SyncInv, Active, Frame
    PROVE  ChannelsInv'
<1>1. ChannelsInv
  BY DEF SyncInv, ProgressInv
<1>2. ASSUME NEW c \in ChannelNames, ChannelAgrees(sync.file, c) PROVE ChannelAgrees(sync.file, c)'
  BY <1>2 DEF ChannelAgrees, Frame
<1>3. DOMAIN sync.file.channels \subseteq ChannelNames
  BY FileChannels
<1> QED BY <1>1, <1>2, <1>3 DEF ChannelsInv, Frame, AtChannels, PastJobs

\* and the rules: those of another job have another id,
LEMMA FrameRules ==
    ASSUME SyncInv, Active, Frame, IdInv', lastId' \in Nat
    PROVE  RulesInv'
<1>1. RulesInv
  BY DEF SyncInv, ProgressInv
<1>2. ASSUME NEW r, r.job \in JobNames \cup {AllJobs}, NEW es, RuleWritten(r, es)
      PROVE  RuleWritten(r, es)'
  BY <1>2 DEF RuleWritten, RuleTouched, Frame, Present, KeyAgrees, RepeatFor, IdOf
<1>3. \A r \in sync.file.rules : r.job \in JobNames \cup {AllJobs}
  BY DEF SyncInv, StoreType, SyncAssumption, SyncType
<1>4. PastChannels' => \A r \in sync'.file.rules :
          \/ AtRules' /\ r \in sync'.todo
          \/ sync'.pc = "rule" /\ r = sync'.at.rule
          \/ RuleWritten(r, r.events)'
  BY <1>1, <1>2, <1>3 DEF RulesInv, Frame, AtRules, PastChannels, PastJobs, AtChannels
<1>5. ASSUME sync.pc = "rule" PROVE 
          /\ sync'.at.id \in 0..lastId'
          /\ \A n \in JobNames : jobs'[n] # Nil /\ jobs'[n].id = sync'.at.id => n = sync'.at.rule.job
  BY <1>1, <1>5 DEF RulesInv, Frame, SyncInv, StoreType, IdInv
<1>6. ASSUME sync.pc = "rule" PROVE 
          (JobTouched(sync.at.rule.job) \/ (Present(sync.at.rule.job) /\ sync.at.id = IdOf(sync.at.rule.job)))'
  BY <1>1, <1>3, <1>6 DEF RulesInv, Frame, JobTouched, Present, IdOf
<1>7. ASSUME sync.pc = "rule" PROVE RuleWritten(sync.at.rule, sync.at.rule.events \ sync.at.events)'
  <2>1. sync.at.rule.job \in JobNames \cup {AllJobs} /\ RuleWritten(sync.at.rule, sync.at.rule.events \ sync.at.events)
    BY <1>1, <1>3, <1>7 DEF RulesInv
  <2>2. sync' = sync BY DEF Frame
  <2> QED BY <1>2, <2>1, <2>2
<1> QED BY <1>1, <1>4, <1>5, <1>6, <1>7 DEF RulesInv, Frame, AtRules

\* and the heartbeats.
LEMMA FrameHeartbeats ==
    ASSUME SyncInv, Active, Frame
    PROVE  HeartbeatsInv'
<1>1. HeartbeatsInv
  BY DEF SyncInv, ProgressInv
<1>2. ASSUME NEW name, HeartbeatAgrees(sync.file, name) PROVE HeartbeatAgrees(sync.file, name)'
  BY <1>2 DEF HeartbeatAgrees, Frame
<1> QED BY <1>1, <1>2 DEF HeartbeatsInv, Frame, PastRules

\* Another's step undoes nothing of the sync, unless it is recorded.
LEMMA FrameKeeps ==
    ASSUME SyncInv, Frame, StoreType', IdInv', OpInv'
    PROVE  SyncInv'
<1>1. SyncType'
  BY DEF SyncInv, SyncType, Frame, Active
<1>2. ProgressInv'
  BY FrameJobs, FrameChannels, FrameRules, FrameHeartbeats DEF ProgressInv, Active, Frame, StoreType
<1> QED BY <1>1, <1>2 DEF SyncInv

\* A step that leaves the store alone.
LEMMA StoreAlone ==
    ASSUME SyncInv, UNCHANGED <<store, sync>>, touched \subseteq touched', OpInv'
    PROVE  SyncInv'
<1>1. Frame
  BY DEF store, Frame, Named, SyncInv, StoreType
<1>2. StoreType' /\ IdInv'
  BY DEF store, SyncInv, StoreType, IdInv
<1> QED BY <1>1, <1>2, FrameKeeps

\* What CreateHeartbeat leaves.
LEMMA HeartbeatWritten ==
    ASSUME StoreType, NEW nm, NEW token, NEW period, CreateHeartbeat(nm, token, period)
    PROVE  /\ \A h \in hbs' : h = [name |-> h.name, token |-> h.token, period |-> h.period]
           /\ \E h \in hbs' : h.name = nm /\ h.period = period
           /\ \A x : x # nm => Named(x) \subseteq Named(x)'
<1>1. CASE Named(nm) = {}
  <2>1. hbs' = hbs \cup {[name |-> nm, token |-> token, period |-> period]}
    BY <1>1 DEF CreateHeartbeat
  <2> DEFINE new == [name |-> nm, token |-> token, period |-> period]
  <2>2. new.name = nm /\ new.period = period /\ new = [name |-> new.name, token |-> new.token, period |-> new.period]
    OBVIOUS
  <2>3. \A h \in hbs' : h = [name |-> h.name, token |-> h.token, period |-> h.period]
    BY <2>1, <2>2 DEF StoreType
  <2>4. \A x : Named(x) \subseteq Named(x)'
    BY <2>1 DEF Named
  <2>5. new \in hbs'
    BY <2>1
  <2> HIDE DEF new
  <2> QED BY <2>2, <2>3, <2>4, <2>5
<1>2. CASE Named(nm) # {}
  <2> DEFINE New(h) == IF h.name = nm THEN [h EXCEPT !.period = period] ELSE h
  <2>1. hbs' = {New(h) : h \in hbs}
    BY <1>2 DEF CreateHeartbeat
  <2>2. ASSUME NEW h \in hbs
        PROVE  /\ New(h) = [name |-> New(h).name, token |-> New(h).token, period |-> New(h).period]
               /\ New(h).name = h.name
               /\ h.name = nm => New(h).period = period
               /\ h.name # nm => New(h) = h
    <3>1. h = [name |-> h.name, token |-> h.token, period |-> h.period]
      BY DEF StoreType
    <3> QED BY <3>1
  <2>3. PICK g \in hbs : g.name = nm
    BY <1>2 DEF Named
  <2> HIDE DEF New
  <2> QED BY <2>1, <2>2, <2>3 DEF Named
<1> QED BY <1>1, <1>2

\* Someone other than the sync creates or updates a heartbeat.
LEMMA HeartbeatElsewhere ==
    ASSUME SyncInv, NEW nm, NEW token, NEW period, CreateHeartbeat(nm, token, period),
           sync' = sync, touched' = touched \cup {<<"hb", nm>>}, OpInv'
    PROVE  SyncInv'
<1>1. StoreType
  BY DEF SyncInv
<1>2. UNCHANGED <<jobs, lastId, secret, channels, rules>>
  BY DEF CreateHeartbeat
<1>3. StoreType' /\ IdInv'
  BY <1>1, <1>2, HeartbeatWritten DEF SyncInv, StoreType, IdInv
<1>4. Frame
  BY <1>1, <1>2, HeartbeatWritten DEF Frame, SyncInv, StoreType
<1> QED BY <1>3, <1>4, FrameKeeps

\* A step of the import, which writes only heartbeats.
LEMMA ImportKeeps == ASSUME SyncInv, Import PROVE SyncInv'
<1>1. sync' = sync /\ op' = op
  BY DEF Import, ImportFetch, ImportPlan, ImportWrite, ImportPass, ImportWriteFails, ImportEnds, ImportKilled, rest
<1>2. CASE ImportWrite
  <2>1. OpInv'
    BY <1>2 DEF SyncInv, OpInv, ImportWrite, rest, CreateHeartbeat, Present, IdOf
  <2> QED BY <1>1, <1>2, <2>1, HeartbeatElsewhere DEF ImportWrite
<1>3. CASE ~ImportWrite
  <2>1. UNCHANGED <<store, touched>>
    BY <1>3 DEF Import, ImportFetch, ImportPlan, ImportPass, ImportWriteFails, ImportEnds, ImportKilled
  <2>2. OpInv'
    BY <1>1, <2>1 DEF SyncInv, OpInv, store, Present, IdOf
  <2> QED BY <1>1, <2>1, <2>2, StoreAlone
<1> QED BY <1>2, <1>3

\* Adding a job takes an id that no job has had.
LEMMA JobAddKeeps ==
    ASSUME SyncInv, NEW n \in JobNames, NEW spec \in Specs, cmdJobAdd(n, spec)
    PROVE  SyncInv'
<1>1. /\ op = Nil /\ op' = op /\ sync' = sync /\ touched' = touched \cup {<<"job", n>>}
      /\ jobs[n] = Nil /\ jobs' = [jobs EXCEPT ![n] = Row(lastId + 1, spec)]
      /\ lastId' = lastId + 1 /\ UNCHANGED <<secret, channels, rules, hbs>>
  BY DEF cmdJobAdd, Alone, Touches, CreateJob
<1>2. Row(lastId + 1, spec) \in Rows /\ Row(lastId + 1, spec).id = lastId + 1 /\ lastId \in Nat
  <2>1. lastId \in Nat /\ lastId + 1 \in Nat
    BY DEF SyncInv, StoreType
  <2>2. spec.def = "added" /\ spec.enabled \in BOOLEAN
    BY DEF Specs
  <2>3. Row(lastId + 1, spec).id = lastId + 1
    BY DEF Row
  <2>4. Row(lastId + 1, spec) \in Rows
    BY <2>1, <2>2 DEF Row, Rows
  <2> QED BY <2>1, <2>3, <2>4
<1>3. StoreType'
  BY <1>1, <1>2 DEF SyncInv, StoreType
<1>4. IdInv'
  BY <1>1, <1>2 DEF SyncInv, StoreType, IdInv
<1>5. Frame
  BY <1>1, <1>2 DEF Frame, SyncInv, StoreType, Named, IdInv
<1>6. OpInv'
  BY <1>1 DEF OpInv
<1> QED BY <1>3, <1>4, <1>5, <1>6, FrameKeeps

\* A command that only reads.
LEMMA ReadKeeps ==
    ASSUME SyncInv, NEW what, Reads(what), OpInv'
    PROVE  SyncInv'
BY StoreAlone DEF Reads

\* Reading a job, to remove or to toggle it.
LEMMA JobReadKeeps ==
    ASSUME SyncInv, NEW n \in JobNames, NEW cmd \in {"rm", "toggle"}, JobRead(n, cmd)
    PROVE  SyncInv'
<1>1. op' = [cmd |-> cmd, name |-> n, row |-> jobs[n]] /\ jobs[n] # Nil
  BY DEF JobRead, Reads, Readable
<1>2. OpInv'
  BY <1>1 DEF OpInv, SyncInv, StoreType
<1> QED BY <1>2, ReadKeeps DEF JobRead

\* Removing a job removes only the rules of its id.
LEMMA JobRmKeeps == ASSUME SyncInv, cmdJobRm PROVE SyncInv'
<1> DEFINE n == op.name
           id == op.row.id
<1>1. /\ op # Nil /\ op.cmd = "rm" /\ op' = Nil /\ sync' = sync /\ touched' = touched \cup {<<"job", n>>}
      /\ jobs[n] # Nil /\ jobs[n].id = id /\ jobs' = [jobs EXCEPT ![n] = Nil]
      /\ rules' = [k \in {k \in DOMAIN rules : k[3] # id} |-> rules[k]]
      /\ UNCHANGED <<lastId, secret, channels, hbs>>
  BY DEF cmdJobRm, Writes, Touches, StoreDeleteJob, HasRow
<1>2. n \in JobNames
  BY <1>1 DEF SyncInv, OpInv
<1> HIDE DEF n, id
<1>3. StoreType'
  BY <1>1, <1>2 DEF SyncInv, StoreType
<1>4. IdInv'
  BY <1>1, <1>2 DEF SyncInv, StoreType, IdInv
<1>5. OpInv'
  BY <1>1 DEF OpInv
<1>6. \A m \in JobNames \cup {AllJobs} : m # n /\ Present(m) => IdOf(m) # id
  BY <1>1, <1>2 DEF SyncInv, IdInv, StoreType, Present, IdOf
<1>7. \A c, e : \A m \in JobNames \cup {AllJobs} :
          \/ <<"job", m>> \in touched' \/ <<"rule", c, m>> \in touched'
          \/ Present(m) /\ <<c, e, IdOf(m)>> \in DOMAIN rules =>
                /\ <<c, e, IdOf(m)>> \in DOMAIN rules'
                /\ rules'[<<c, e, IdOf(m)>>] = rules[<<c, e, IdOf(m)>>]
  BY <1>1, <1>6
<1>8. Frame
  BY <1>1, <1>2, <1>7 DEF Frame, SyncInv, StoreType, Named
<1> QED BY <1>3, <1>4, <1>5, <1>8, FrameKeeps

\* Enabling and disabling a job keeps its id.
LEMMA JobToggleKeeps == ASSUME SyncInv, cmdJobToggle PROVE SyncInv'
<1> DEFINE n == op.name
           row == [op.row EXCEPT !.enabled = ~@]
<1>1. /\ op # Nil /\ op.cmd = "toggle" /\ op' = Nil /\ sync' = sync /\ touched' = touched \cup {<<"job", n>>}
      /\ jobs[n] # Nil /\ jobs[n].id = row.id /\ jobs' = [jobs EXCEPT ![n] = row]
      /\ UNCHANGED <<lastId, secret, channels, rules, hbs>>
  BY DEF cmdJobToggle, Writes, Touches, UpdateJob, HasRow
<1>2. n \in JobNames /\ row \in Rows
  BY <1>1 DEF SyncInv, OpInv, Rows
<1> HIDE DEF n, row
<1>3. StoreType'
  BY <1>1, <1>2 DEF SyncInv, StoreType
<1>4. IdInv'
  BY <1>1, <1>2 DEF SyncInv, StoreType, IdInv
<1>5. OpInv'
  BY <1>1 DEF OpInv
<1>6. Frame
  BY <1>1, <1>2 DEF Frame, SyncInv, StoreType, Named, Present, IdOf
<1> QED BY <1>3, <1>4, <1>5, <1>6, FrameKeeps

\* Replacing a channel.
LEMMA ChannelAddKeeps ==
    ASSUME SyncInv, NEW c \in ChannelNames, cmdChannelAdd(c)
    PROVE  SyncInv'
<1>1. /\ op' = op /\ sync' = sync /\ touched' = touched \cup {<<"channel", c>>}
      /\ channels' = [channels EXCEPT ![c] = "added"]
      /\ UNCHANGED <<jobs, lastId, secret, rules, hbs>>
  BY DEF cmdChannelAdd, Alone, Touches, StoreCreateChannel
<1>2. StoreType' /\ IdInv' /\ OpInv'
  BY <1>1 DEF SyncInv, StoreType, IdInv, OpInv, Present, IdOf
<1>3. Frame
  BY <1>1 DEF Frame, SyncInv, StoreType, Named, Present, IdOf
<1> QED BY <1>2, <1>3, FrameKeeps

\* Setting the secret.
LEMMA SecretSetKeeps ==
    ASSUME SyncInv, NEW v, cmdSecretSet(v)
    PROVE  SyncInv'
<1>1. /\ op' = op /\ sync' = sync /\ touched' = touched \cup {<<"secret">>}
      /\ UNCHANGED <<jobs, lastId, channels, rules, hbs>>
  BY DEF cmdSecretSet, Alone, Touches
<1>2. StoreType' /\ IdInv' /\ OpInv'
  BY <1>1 DEF SyncInv, StoreType, IdInv, OpInv, Present, IdOf
<1>3. Frame
  BY <1>1 DEF Frame, SyncInv, StoreType, Named, Present, IdOf
<1> QED BY <1>2, <1>3, FrameKeeps

\* Looking up the channel and the job of a rule to add.
LEMMA RuleReadKeeps ==
    ASSUME SyncInv, NEW c \in ChannelNames, NEW n \in JobNames \cup {AllJobs}, RuleRead(c, n)
    PROVE  SyncInv'
<1>1. /\ op' = [cmd |-> "rule", channel |-> c, name |-> n, id |-> IdOf(n)]
      /\ jobs' = jobs /\ (n # AllJobs => jobs[n] # Nil)
  BY DEF RuleRead, Reads, Readable, store, IdOf
<1>2. OpInv'
  BY <1>1 DEF OpInv, Present, IdOf
<1> QED BY <1>2, ReadKeeps DEF RuleRead

\* Adding a rule writes only the row of its channel and job.
LEMMA RuleAddKeeps == ASSUME SyncInv, cmdRuleAdd PROVE SyncInv'
<1> DEFINE key == <<op.channel, "run.failed", op.id>>
<1>1. /\ op # Nil /\ op.cmd = "rule" /\ op' = Nil /\ sync' = sync
      /\ touched' = touched \cup {<<"rule", op.channel, op.name>>}
      /\ rules' = [k \in DOMAIN rules \cup {key} |-> IF k = key THEN Nil ELSE rules[k]]
      /\ UNCHANGED <<jobs, lastId, secret, channels, hbs>>
  BY DEF cmdRuleAdd, Writes, Touches, CreateRule
<1>2. op.name \in JobNames \cup {AllJobs} /\ Present(op.name) /\ op.id = IdOf(op.name)
  BY <1>1 DEF SyncInv, OpInv
<1>3. StoreType' /\ IdInv' /\ OpInv'
  BY <1>1 DEF SyncInv, StoreType, IdInv, OpInv
<1>4. \A m \in JobNames \cup {AllJobs} : Present(m) /\ IdOf(m) = op.id => m = op.name
  BY <1>2 DEF SyncInv, IdInv, StoreType, Present, IdOf
<1>5. \A c, e : \A m \in JobNames \cup {AllJobs} :
          \/ <<"job", m>> \in touched' \/ <<"rule", c, m>> \in touched'
          \/ Present(m) /\ <<c, e, IdOf(m)>> \in DOMAIN rules =>
                /\ <<c, e, IdOf(m)>> \in DOMAIN rules'
                /\ rules'[<<c, e, IdOf(m)>>] = rules[<<c, e, IdOf(m)>>]
  BY <1>1, <1>4
<1> HIDE DEF key
<1>6. lastId <= lastId' /\ (\A n \in JobNames : jobs'[n] = jobs[n]) /\ \A x : Named(x) \subseteq Named(x)'
  BY <1>1 DEF SyncInv, StoreType, Named
<1>7. Frame
  BY <1>1, <1>5, <1>6 DEF Frame
<1> QED BY <1>3, <1>7, FrameKeeps

\* The commands about heartbeats, and slug pings.
LEMMA HeartbeatCommandKeeps == ASSUME SyncInv, HeartbeatCommand PROVE SyncInv'
<1>1. ASSUME NEW nm, NEW period, Alone, CreateHeartbeat(nm, Random, period), Touches({<<"hb", nm>>}, {nm})
      PROVE  SyncInv'
  <2>1. sync' = sync /\ touched' = touched \cup {<<"hb", nm>>} /\ op' = op
    BY <1>1 DEF Alone, Touches
  <2>2. OpInv'
    BY <1>1, <2>1 DEF SyncInv, OpInv, CreateHeartbeat, Present, IdOf
  <2> QED BY <1>1, <2>1, <2>2, HeartbeatElsewhere
<1>2. ASSUME NEW nm \in Slugs, HeartbeatRead(nm) PROVE SyncInv'
  <2>1. op' = [cmd |-> "hbrm", name |-> nm] /\ Reads(op')
    BY <1>2 DEF HeartbeatRead, Reads
  <2>2. OpInv'
    BY <2>1 DEF OpInv
  <2>3. UNCHANGED <<store, sync>> /\ touched' = touched
    BY <1>2 DEF HeartbeatRead, Reads
  <2> QED BY <2>2, <2>3, StoreAlone
<1>3. CASE cmdHeartbeatRemove
  <2>1. /\ op' = Nil /\ sync' = sync /\ touched' = touched \cup {<<"hb", op.name>>}
        /\ hbs' = hbs \ Named(op.name) /\ UNCHANGED <<jobs, lastId, secret, channels, rules>>
    BY <1>3 DEF cmdHeartbeatRemove, Writes, Touches
  <2>2. StoreType' /\ IdInv' /\ OpInv'
    BY <2>1 DEF SyncInv, StoreType, IdInv, OpInv
  <2>3. Frame
    BY <2>1 DEF Frame, SyncInv, StoreType, Named
  <2> QED BY <2>2, <2>3, FrameKeeps
<1> QED BY <1>1, <1>2, <1>3 DEF HeartbeatCommand, cmdHeartbeatAdd, PingCreates

\* No command breaks the invariant.
LEMMA CommandKeeps == ASSUME SyncInv, Command PROVE SyncInv'
BY JobAddKeeps, JobReadKeeps, JobRmKeeps, JobToggleKeeps, ChannelAddKeeps, RuleReadKeeps,
   RuleAddKeeps, SecretSetKeeps, HeartbeatCommandKeeps DEF Command

-----------------------------------------------------------------------------
(* The sync's own steps.                                                   *)

\* A step of the sync that writes nothing.
LEMMA StoreSame ==
    ASSUME SyncInv, UNCHANGED <<store, op>>
    PROVE  StoreType' /\ IdInv' /\ OpInv'
BY DEF SyncInv, StoreType, IdInv, OpInv, store, Present, IdOf

\* A sync that gives up leaves what it wrote.
LEMMA FailsKeeps ==
    ASSUME SyncInv, UNCHANGED <<store, op>>, sync' = [NoSync EXCEPT !.pc = "failed"]
    PROVE  SyncInv'
<1>1. /\ sync' = [pc |-> "failed", file |-> Nil, existing |-> <<>>, todo |-> {}, at |-> Nil]
      /\ sync'.pc = "failed"
  BY DEF NoSync
<1>2. SyncType' /\ ~Active'
  BY <1>1 DEF SyncType, Active
<1> QED BY <1>2, StoreSame DEF SyncInv, ProgressInv

\* A sync begins with nothing done and the jobs listed.
LEMMA SyncBeginKeeps ==
    ASSUME SyncInv, NEW f \in Files, SyncBegin(f)
    PROVE  SyncInv'
<1> DEFINE listed == [n \in {n \in JobNames : Readable(n)} |-> jobs[n]]
<1>1. /\ sync' = [pc |-> "jobs", file |-> f, todo |-> DOMAIN f.jobs, at |-> Nil, existing |-> listed]
      /\ UNCHANGED <<store, op>>
  BY DEF SyncBegin
<1>2. sync'.pc = "jobs" /\ sync'.file = f /\ sync'.todo = DOMAIN f.jobs /\ sync'.existing = listed
  BY <1>1
<1>3. SyncType'
  BY <1>1, <1>2 DEF SyncType, Active
<1>4. JobsInv'
  BY <1>2 DEF JobsInv, AtJobs
<1>5. AbsentInv'
  <2>1. \A n \in DOMAIN listed : n \in JobNames /\ listed[n] \in Rows
    BY DEF Readable, SyncInv, StoreType
  <2>2. \A n \in JobNames : Readable(n)' => n \in DOMAIN listed /\ listed[n] = jobs'[n]
    BY <1>1 DEF Readable, store
  <2> HIDE DEF listed
  <2> QED BY <1>2, <2>1, <2>2 DEF AbsentInv, AtJobs
<1>6. ChannelsInv' /\ RulesInv' /\ HeartbeatsInv'
  BY <1>2 DEF ChannelsInv, RulesInv, HeartbeatsInv, AtChannels, AtRules, PastJobs, PastChannels, PastRules
<1> QED BY <1>1, <1>3, <1>4, <1>5, <1>6, StoreSame DEF SyncInv, ProgressInv

\* A job is looked up.
LEMMA SyncLookupKeeps ==
    ASSUME SyncInv, NEW n \in JobNames, SyncLookup(n)
    PROVE  SyncInv'
<1> DEFINE id == IF jobs[n] = Nil THEN 0 ELSE jobs[n].id
<1>1. /\ sync.pc = "jobs" /\ n \in sync.todo /\ UNCHANGED <<store, op, touched>>
      /\ sync' = [sync EXCEPT !.pc = "job", !.todo = @ \ {n}, !.at = [name |-> n, id |-> id]]
  BY DEF SyncLookup, others
<1>2. id \in Nat
  BY DEF SyncInv, StoreType, IdInv
<1>3. Active /\ SyncType /\ JobsInv /\ AbsentInv
  BY <1>1 DEF SyncInv, ProgressInv, Active
<1> HIDE DEF id
<1>4. /\ sync' = [pc |-> "job", file |-> sync.file, existing |-> sync.existing,
                  todo |-> sync.todo \ {n}, at |-> [name |-> n, id |-> id]]
  BY <1>1, <1>3 DEF SyncType
<1>5. /\ sync'.pc = "job" /\ sync'.file = sync.file /\ sync'.existing = sync.existing
      /\ sync'.todo = sync.todo \ {n} /\ sync'.at.name = n /\ sync'.at.id = id
  BY <1>4
<1>6. SyncType'
  <2>1. Active' /\ sync'.file \in Files
    BY <1>3, <1>5 DEF SyncType, Active
  <2> QED BY <1>4, <1>5, <2>1 DEF SyncType
<1>7. JobsInv'
  BY <1>1, <1>2, <1>3, <1>5 DEF JobsInv, AtJobs, JobAgrees, Readable, store
<1>8. AbsentInv'
  BY <1>1, <1>3, <1>5 DEF AbsentInv, AtJobs, JobTouched, Readable, store
<1>9. ChannelsInv' /\ RulesInv' /\ HeartbeatsInv'
  BY <1>5 DEF ChannelsInv, RulesInv, HeartbeatsInv, AtChannels, AtRules, PastJobs, PastChannels, PastRules
<1> QED BY <1>1, <1>6, <1>7, <1>8, <1>9, StoreSame DEF SyncInv, ProgressInv

\* Writing the row of one job leaves the others and their ids alone.
LEMMA RowWritten ==
    ASSUME SyncInv, NEW n \in JobNames, NEW row \in Rows, jobs' = [jobs EXCEPT ![n] = row],
           UNCHANGED <<secret, channels, rules, hbs, op>>,
           \/ jobs[n] = Nil /\ row.id = lastId + 1 /\ lastId' = lastId + 1
           \/ jobs[n] # Nil /\ row.id = jobs[n].id /\ lastId' = lastId
    PROVE  StoreType' /\ IdInv' /\ OpInv' /\ jobs'[n] = row /\ row # Nil
<1>1. row # Nil
  BY DEF SyncInv, StoreType, SyncAssumption
<1>2. StoreType' /\ jobs'[n] = row
  BY DEF SyncInv, StoreType
<1>3. IdInv'
  BY <1>1 DEF SyncInv, StoreType, IdInv
<1>4. OpInv'
  BY <1>1 DEF SyncInv, StoreType, OpInv, Present, IdOf
<1> QED BY <1>1, <1>2, <1>3, <1>4

\* The job is created or overwritten.
LEMMA SyncJobKeeps == ASSUME SyncInv, SyncJob PROVE SyncInv'
<1>0. PICK n, id, spec : n = sync.at.name /\ id = sync.at.id /\ spec = sync.file.jobs[n]
  OBVIOUS
<1>1. sync.pc = "job"
  BY DEF SyncJob
<1>2. Active /\ SyncType /\ JobsInv /\ AbsentInv
  BY <1>1 DEF SyncInv, ProgressInv, Active
<1>3. n \in JobNames /\ n \in DOMAIN sync.file.jobs /\ id \in Nat /\ sync.file \in Files
  BY <1>0, <1>1, <1>2 DEF JobsInv, SyncType
<1>4. ASSUME NEW i \in Nat PROVE Row(i, spec) \in Rows /\ Row(i, spec).id = i /\ Row(i, spec) = Row(Row(i, spec).id, spec)
  <2>1. spec.enabled \in BOOLEAN
    BY <1>0, <1>3 DEF SyncInv, StoreType, SyncAssumption
  <2>2. spec.def \in UNION {{f.jobs[m].def : m \in DOMAIN f.jobs} : f \in Files}
    BY <1>0, <1>3
  <2>3. Row(i, spec).id = i
    BY DEF Row
  <2> QED BY <2>1, <2>2, <2>3 DEF Row, Rows
<1>5. CASE /\ IF id = 0 THEN CreateJob(n, spec) ELSE UpdateJob(n, Row(id, spec))
           /\ sync' = [sync EXCEPT !.pc = "jobs", !.at = Nil]
           /\ UNCHANGED <<others, syncFaults>>
  <2>1. \E i \in Nat : /\ jobs' = [jobs EXCEPT ![n] = Row(i, spec)]
                       /\ UNCHANGED <<secret, channels, rules, hbs, op, touched>>
                       /\ \/ jobs[n] = Nil /\ i = lastId + 1 /\ lastId' = lastId + 1
                          \/ jobs[n] # Nil /\ i = jobs[n].id /\ lastId' = lastId
    <3>1. lastId + 1 \in Nat
      BY DEF SyncInv, StoreType
    <3>2. CASE id = 0
      BY <1>5, <3>1, <3>2 DEF CreateJob, others
    <3>3. CASE id # 0
      <4>1. Row(id, spec).id = id
        BY <1>3, <1>4
      <4> QED BY <1>3, <1>5, <3>3, <4>1 DEF UpdateJob, HasRow, others
    <3> QED BY <3>2, <3>3
  <2>2. PICK i \in Nat : /\ jobs' = [jobs EXCEPT ![n] = Row(i, spec)]
                         /\ UNCHANGED <<secret, channels, rules, hbs, op, touched>>
                         /\ \/ jobs[n] = Nil /\ i = lastId + 1 /\ lastId' = lastId + 1
                            \/ jobs[n] # Nil /\ i = jobs[n].id /\ lastId' = lastId
    BY <2>1
  <2>3. PICK row \in Rows : row = Row(i, spec) /\ row.id = i /\ row = Row(row.id, spec)
    BY <1>4
  <2>4. StoreType' /\ IdInv' /\ OpInv' /\ jobs'[n] = row /\ row # Nil
    BY <1>3, <2>2, <2>3, RowWritten
  <2>5. sync' = [pc |-> "jobs", file |-> sync.file, existing |-> sync.existing,
                 todo |-> sync.todo, at |-> Nil]
    BY <1>2, <1>5 DEF SyncType
  <2>6. /\ sync'.pc = "jobs" /\ sync'.file = sync.file /\ sync'.existing = sync.existing
        /\ sync'.todo = sync.todo
    BY <2>5
  <2>7. SyncType'
    <3>1. Active'
      BY <2>6 DEF Active
    <3> QED BY <1>3, <2>5, <2>6, <3>1 DEF SyncType
  <2>8. \A m \in JobNames : m # n => jobs'[m] = jobs[m]
    BY <2>2 DEF SyncInv, StoreType
  <2>9. JobsInv'
    <3>1. JobAgrees(sync.file, n)'
      BY <1>0, <1>3, <2>3, <2>4, <2>6 DEF JobAgrees
    <3>2. ASSUME NEW m \in JobNames, m # n, JobAgrees(sync.file, m) PROVE JobAgrees(sync.file, m)'
      BY <2>2, <2>6, <2>8, <3>2 DEF JobAgrees, Readable
    <3> QED BY <1>0, <1>1, <1>2, <2>6, <3>1, <3>2 DEF JobsInv, AtJobs
  <2>10. AbsentInv'
    BY <1>1, <1>2, <1>3, <2>2, <2>6, <2>8 DEF AbsentInv, AtJobs, JobTouched, Readable
  <2>11. ChannelsInv' /\ RulesInv' /\ HeartbeatsInv'
    BY <2>6 DEF ChannelsInv, RulesInv, HeartbeatsInv, AtChannels, AtRules, PastJobs, PastChannels, PastRules
  <2> QED BY <2>4, <2>7, <2>9, <2>10, <2>11 DEF SyncInv, ProgressInv
<1>6. CASE Fails
  BY <1>6, FailsKeeps DEF Fails, others
<1> QED BY <1>0, <1>5, <1>6 DEF SyncJob

\* A job the file does not have is disabled.
LEMMA SyncPruneKeeps ==
    ASSUME SyncInv, NEW n \in JobNames, SyncPrune(n)
    PROVE  SyncInv'
<1>1. sync.pc = "prune" /\ n \in sync.todo
  BY DEF SyncPrune
<1>2. Active /\ SyncType /\ JobsInv /\ AbsentInv
  BY <1>1 DEF SyncInv, ProgressInv, Active
<1> DEFINE row == [sync.existing[n] EXCEPT !.enabled = FALSE]
<1>3. CASE /\ UpdateJob(n, row)
           /\ sync' = [sync EXCEPT !.todo = @ \ {n}]
           /\ UNCHANGED <<others, syncFaults>>
  <2>1. row \in Rows /\ n \notin DOMAIN sync.file.jobs /\ row.enabled = FALSE
    BY <1>1, <1>2 DEF AbsentInv, Rows
  <2>2. /\ jobs' = [jobs EXCEPT ![n] = row] /\ UNCHANGED <<lastId, secret, channels, rules, hbs, op, touched>>
        /\ jobs[n] # Nil /\ row.id = jobs[n].id
    BY <1>3 DEF UpdateJob, HasRow, others
  <2> HIDE DEF row
  <2>3. StoreType' /\ IdInv' /\ OpInv' /\ jobs'[n] = row /\ row # Nil
    BY <2>1, <2>2, RowWritten
  <2>4. sync' = [pc |-> "prune", file |-> sync.file, existing |-> sync.existing,
                 todo |-> sync.todo \ {n}, at |-> sync.at]
    BY <1>1, <1>2, <1>3 DEF SyncType
  <2>5. /\ sync'.pc = "prune" /\ sync'.file = sync.file /\ sync'.existing = sync.existing
        /\ sync'.todo = sync.todo \ {n}
    BY <2>4
  <2>6. SyncType'
    <3>1. Active' /\ sync.file \in Files
      BY <1>2, <2>5 DEF Active, SyncType
    <3> QED BY <2>4, <2>5, <3>1 DEF SyncType
  <2>7. ASSUME NEW m \in JobNames, m # n, JobAgrees(sync.file, m) PROVE JobAgrees(sync.file, m)'
    BY <2>2, <2>5, <2>7 DEF JobAgrees, Readable, SyncInv, StoreType
  <2>8. JobAgrees(sync.file, n)'
    BY <2>1, <2>3, <2>5 DEF JobAgrees
  <2>9. JobsInv' /\ AbsentInv'
    BY <1>1, <1>2, <2>1, <2>5, <2>7, <2>8 DEF JobsInv, AbsentInv, AtJobs
  <2>10. ChannelsInv' /\ RulesInv' /\ HeartbeatsInv'
    BY <2>5 DEF ChannelsInv, RulesInv, HeartbeatsInv, AtChannels, AtRules, PastJobs, PastChannels, PastRules
  <2> QED BY <2>3, <2>6, <2>9, <2>10 DEF SyncInv, ProgressInv
<1>4. CASE Fails
  BY <1>4, FailsKeeps DEF Fails, others
<1> QED BY <1>3, <1>4 DEF SyncPrune

\* What a step that writes no job leaves of the jobs of the file and the others.
LEMMA JobsStay ==
    ASSUME SyncInv, Active, PastJobs, PastJobs', jobs' = jobs, touched' = touched,
           sync'.file = sync.file, sync'.existing = sync.existing
    PROVE  JobsInv' /\ AbsentInv'
<1>1. JobsInv /\ AbsentInv
  BY DEF SyncInv, ProgressInv
<1>2. ASSUME NEW n \in JobNames, JobAgrees(sync.file, n) PROVE JobAgrees(sync.file, n)'
  BY <1>2 DEF JobAgrees, Readable
<1> QED BY <1>1, <1>2 DEF JobsInv, AbsentInv, AtJobs, PastJobs

\* And one that writes no channel, of the channels.
LEMMA ChannelsStay ==
    ASSUME SyncInv, Active, PastChannels, PastChannels', UNCHANGED <<channels, secret, touched>>,
           sync'.file = sync.file
    PROVE  ChannelsInv'
<1>1. ChannelsInv
  BY DEF SyncInv, ProgressInv
<1>2. ASSUME NEW c, ChannelAgrees(sync.file, c) PROVE ChannelAgrees(sync.file, c)'
  BY <1>2 DEF ChannelAgrees
<1> QED BY <1>1, <1>2 DEF ChannelsInv, AtChannels, PastChannels, PastJobs

\* The reference of a channel is resolved.
LEMMA SyncSecretKeeps ==
    ASSUME SyncInv, NEW c \in ChannelNames, SyncSecret(c)
    PROVE  SyncInv'
<1>1. sync.pc = "channels" /\ c \in sync.todo
  BY DEF SyncSecret
<1>2. Active /\ SyncType /\ ChannelsInv /\ PastJobs
  BY <1>1 DEF SyncInv, ProgressInv, Active, PastJobs
<1>3. CASE Fails
  BY <1>3, FailsKeeps DEF Fails, others
<1>4. CASE ~Fails
  <2>1. PICK config : config = IF sync.file.channels[c] = "secret" THEN secret ELSE sync.file.channels[c]
    OBVIOUS
  <2>2. /\ sync' = [sync EXCEPT !.pc = "channel", !.todo = @ \ {c}, !.at = [name |-> c, config |-> config]]
        /\ UNCHANGED <<store, op, touched>>
    BY <1>4, <2>1 DEF SyncSecret, others
  <2>3. sync' = [pc |-> "channel", file |-> sync.file, existing |-> sync.existing,
                 todo |-> sync.todo \ {c}, at |-> [name |-> c, config |-> config]]
    BY <1>2, <2>2 DEF SyncType
  <2>4. /\ sync'.pc = "channel" /\ sync'.file = sync.file /\ sync'.existing = sync.existing
        /\ sync'.todo = sync.todo \ {c} /\ sync'.at.name = c /\ sync'.at.config = config
    BY <2>3
  <2>5. SyncType'
    <3>1. Active' /\ sync.file \in Files
      BY <1>2, <2>4 DEF Active, SyncType
    <3> QED BY <2>3, <2>4, <3>1 DEF SyncType
  <2>6. ASSUME NEW d \in ChannelNames, ChannelAgrees(sync.file, d) PROVE ChannelAgrees(sync.file, d)'
    BY <2>2, <2>4, <2>6 DEF ChannelAgrees, store
  <2>7. ChannelsInv'
    <3>1. sync'.todo \subseteq DOMAIN sync.file.channels /\ c \in DOMAIN sync.file.channels
      BY <1>1, <1>2, <2>4 DEF ChannelsInv, AtChannels
    <3>2. IF sync.file.channels[c] = "secret" THEN config = secret' ELSE config = sync.file.channels[c]
      BY <2>1, <2>2 DEF store
    <3> QED BY <1>1, <1>2, <2>4, <2>6, <3>1, <3>2, FileChannels DEF ChannelsInv, AtChannels, PastJobs
  <2>8. JobsInv' /\ AbsentInv'
    <3>1. PastJobs'
      BY <2>4 DEF PastJobs
    <3> QED BY <1>2, <2>2, <2>4, <3>1, JobsStay DEF store
  <2>9. RulesInv' /\ HeartbeatsInv'
    BY <2>4 DEF RulesInv, HeartbeatsInv, AtChannels, AtRules, PastJobs, PastChannels, PastRules
  <2> QED BY <2>2, <2>5, <2>7, <2>8, <2>9, StoreSame DEF SyncInv, ProgressInv
<1> QED BY <1>3, <1>4

\* The channel is written, with the value that was read.
LEMMA SyncChannelKeeps == ASSUME SyncInv, SyncChannel PROVE SyncInv'
<1>1. PICK c, config : c = sync.at.name /\ config = sync.at.config
  OBVIOUS
<1>2. /\ sync.pc = "channel" /\ channels' = [channels EXCEPT ![c] = config]
      /\ UNCHANGED <<jobs, lastId, secret, rules, hbs, op, touched>>
      /\ sync' = [sync EXCEPT !.pc = "channels", !.at = Nil]
  BY <1>1 DEF SyncChannel, StoreCreateChannel, others
<1>3. Active /\ SyncType /\ ChannelsInv /\ PastJobs
  BY <1>2 DEF SyncInv, ProgressInv, Active, PastJobs
<1>4. sync' = [pc |-> "channels", file |-> sync.file, existing |-> sync.existing,
               todo |-> sync.todo, at |-> Nil]
  BY <1>2, <1>3 DEF SyncType
<1>5. /\ sync'.pc = "channels" /\ sync'.file = sync.file /\ sync'.existing = sync.existing
      /\ sync'.todo = sync.todo
  BY <1>4
<1>6. SyncType'
  <2>1. Active' /\ sync.file \in Files
    BY <1>3, <1>5 DEF Active, SyncType
  <2> QED BY <1>4, <1>5, <2>1 DEF SyncType
<1>7. StoreType' /\ IdInv' /\ OpInv'
  BY <1>2 DEF SyncInv, StoreType, IdInv, OpInv, Present, IdOf
<1>8. /\ c \in ChannelNames /\ c \in DOMAIN sync.file.channels
      /\ IF sync.file.channels[c] = "secret" THEN config = secret \/ <<"secret">> \in touched
         ELSE config = sync.file.channels[c]
  BY <1>1, <1>2, <1>3 DEF ChannelsInv
<1>9. DOMAIN channels = ChannelNames
  BY DEF SyncInv, StoreType
<1>10. ChannelAgrees(sync.file, c)'
  BY <1>2, <1>5, <1>8, <1>9 DEF ChannelAgrees
<1>11. ASSUME NEW d \in ChannelNames, d # c, ChannelAgrees(sync.file, d) PROVE ChannelAgrees(sync.file, d)'
  <2>1. channels'[d] = channels[d]
    BY <1>2, <1>9, <1>11
  <2> QED BY <1>2, <1>5, <1>11, <2>1 DEF ChannelAgrees
<1>12. ChannelsInv'
  BY <1>1, <1>2, <1>3, <1>5, <1>10, <1>11, FileChannels DEF ChannelsInv, AtChannels, PastJobs
<1>13. JobsInv' /\ AbsentInv'
  <2>1. PastJobs'
    BY <1>5 DEF PastJobs
  <2> QED BY <1>2, <1>3, <1>5, <2>1, JobsStay
<1>14. RulesInv' /\ HeartbeatsInv'
  BY <1>5 DEF RulesInv, HeartbeatsInv, AtChannels, AtRules, PastJobs, PastChannels, PastRules
<1> QED BY <1>6, <1>7, <1>12, <1>13, <1>14 DEF SyncInv, ProgressInv

\* The job of a rule is looked up.
LEMMA SyncRuleLookupKeeps ==
    ASSUME SyncInv, sync.pc = "rules", NEW r \in sync.todo, SyncRuleLookup(r)
    PROVE  SyncInv'
<1>1. Active /\ SyncType /\ RulesInv /\ PastJobs /\ PastChannels
  BY DEF SyncInv, ProgressInv, Active, PastJobs, PastChannels, AtChannels
<1>2. CASE Fails
  BY <1>2, FailsKeeps DEF Fails, others
<1>3. CASE ~Fails
  <2>1. PICK id : id = IdOf(r.job)
    OBVIOUS
  <2>2. /\ sync' = [sync EXCEPT !.pc = "rule", !.todo = @ \ {r},
                                !.at = [rule |-> r, events |-> r.events, id |-> id]]
        /\ UNCHANGED <<store, op, touched>>
        /\ Present(r.job)
    BY <1>3, <2>1 DEF SyncRuleLookup, others, IdOf, Present, Readable
  <2>3. sync' = [pc |-> "rule", file |-> sync.file, existing |-> sync.existing,
                 todo |-> sync.todo \ {r}, at |-> [rule |-> r, events |-> r.events, id |-> id]]
    BY <1>1, <2>2 DEF SyncType
  <2>4. /\ sync'.pc = "rule" /\ sync'.file = sync.file /\ sync'.existing = sync.existing
        /\ sync'.todo = sync.todo \ {r} /\ sync'.at = [rule |-> r, events |-> r.events, id |-> id]
        /\ sync'.at.rule = r /\ sync'.at.events = r.events /\ sync'.at.id = id
    BY <2>3
  <2>5. SyncType'
    <3>1. Active' /\ sync.file \in Files
      BY <1>1, <2>4 DEF Active, SyncType
    <3> QED BY <2>3, <2>4, <3>1 DEF SyncType
  <2>6. r \in sync.file.rules /\ sync.todo \subseteq sync.file.rules
    BY <1>1 DEF RulesInv, AtRules
  <2>7. r.job \in JobNames \cup {AllJobs}
    BY <1>1, <2>6 DEF SyncInv, StoreType, SyncAssumption, SyncType
  <2>8. /\ id \in 0..lastId /\ (id = 0 <=> r.job = AllJobs)
        /\ \A n \in JobNames : jobs[n] # Nil /\ jobs[n].id = id => n = r.job
    BY <2>1, <2>2, <2>7 DEF SyncInv, IdInv, StoreType, Present, IdOf
  <2>9. ASSUME NEW q, NEW es, RuleWritten(q, es) PROVE RuleWritten(q, es)'
    BY <2>2, <2>4, <2>9 DEF RuleWritten, RuleTouched, Present, KeyAgrees, IdOf, store
  <2>10. RuleWritten(r, {})
    BY <2>2 DEF RuleWritten
  <2>11. RulesInv'
    <3>1. RuleWritten(r, r.events \ r.events)'
      <4>1. r.events \ r.events = {}
        OBVIOUS
      <4> QED BY <2>9, <2>10, <4>1
    <3>2. (Present(r.job) /\ id = IdOf(r.job))'
      BY <2>1, <2>2 DEF Present, IdOf, store
    <3>3. lastId' = lastId /\ jobs' = jobs
      BY <2>2 DEF store
    <3>4. PastChannels' => \A q \in sync'.file.rules :
              \/ AtRules' /\ q \in sync'.todo
              \/ sync'.pc = "rule" /\ q = sync'.at.rule
              \/ RuleWritten(q, q.events)'
      BY <1>1, <2>4, <2>9 DEF RulesInv, AtRules
    <3> QED BY <2>4, <2>6, <2>8, <3>1, <3>2, <3>3, <3>4 DEF RulesInv, AtRules
  <2>12. PastJobs' /\ PastChannels'
    BY <2>4 DEF PastJobs, PastChannels, AtChannels
  <2>13. JobsInv' /\ AbsentInv' /\ ChannelsInv'
    BY <1>1, <2>2, <2>4, <2>12, JobsStay, ChannelsStay DEF store
  <2>14. HeartbeatsInv'
    BY <2>4 DEF HeartbeatsInv, PastRules
  <2> QED BY <2>2, <2>5, <2>11, <2>13, <2>14, StoreSame DEF SyncInv, ProgressInv
<1> QED BY <1>2, <1>3

\* One event of the rule is written.
LEMMA SyncRuleKeeps ==
    ASSUME SyncInv, sync.pc = "rule", NEW e \in sync.at.events, SyncRule(e)
    PROVE  SyncInv'
<1>1. PICK r, id, es, f : r = sync.at.rule /\ id = sync.at.id /\ es = sync.at.events /\ f = sync.file
  OBVIOUS
<1> DEFINE key == <<r.channel, e, id>>
           repeat == RepeatFor(r, e)
<1>2. /\ rules' = [k \in DOMAIN rules \cup {key} |-> IF k = key THEN repeat ELSE rules[k]]
      /\ UNCHANGED <<jobs, lastId, secret, channels, hbs, op, touched>>
      /\ sync' = IF es = {e} THEN [sync EXCEPT !.pc = "rules", !.at = Nil]
                 ELSE [sync EXCEPT !.at.events = @ \ {e}]
  BY <1>1 DEF SyncRule, CreateRule, others
<1>3. Active /\ SyncType /\ RulesInv /\ PastJobs /\ PastChannels
  BY DEF SyncInv, ProgressInv, Active, PastJobs, PastChannels, AtChannels
<1>4. /\ sync.at = [rule |-> r, events |-> es, id |-> id]
      /\ r \in f.rules /\ es \subseteq r.events /\ e \in es
      /\ id \in 0..lastId /\ (id = 0 <=> r.job = AllJobs)
      /\ \A n \in JobNames : jobs[n] # Nil /\ jobs[n].id = id => n = r.job
      /\ JobTouched(r.job) \/ (Present(r.job) /\ id = IdOf(r.job))
      /\ RuleWritten(r, r.events \ es)
  BY <1>1, <1>3 DEF RulesInv
<1>5. \A q \in f.rules : q.job \in JobNames \cup {AllJobs}
  BY <1>1, <1>3 DEF SyncInv, StoreType, SyncAssumption, SyncType
<1>6. sync' = IF es = {e}
              THEN [pc |-> "rules", file |-> f, existing |-> sync.existing, todo |-> sync.todo, at |-> Nil]
              ELSE [pc |-> "rule", file |-> f, existing |-> sync.existing, todo |-> sync.todo,
                    at |-> [rule |-> r, events |-> es \ {e}, id |-> id]]
  <2>1. sync = [pc |-> "rule", file |-> f, existing |-> sync.existing, todo |-> sync.todo,
                at |-> [rule |-> r, events |-> es, id |-> id]]
    BY <1>1, <1>3, <1>4 DEF SyncType
  <2>2. CASE es = {e}
    <3>1. sync' = [sync EXCEPT !.pc = "rules", !.at = Nil]
      BY <1>2, <2>2
    <3>2. sync' = [pc |-> "rules", file |-> f, existing |-> sync.existing, todo |-> sync.todo, at |-> Nil]
      BY <1>1, <1>3, <3>1 DEF SyncType
    <3> QED BY <2>2, <3>2
  <2>3. CASE es # {e}
    <3>1. sync' = [sync EXCEPT !.at.events = @ \ {e}]
      BY <1>2, <2>3
    <3> QED BY <2>1, <2>3, <3>1
  <2> QED BY <2>2, <2>3
<1>7. sync'.file = f /\ sync'.existing = sync.existing /\ sync'.todo = sync.todo
  BY <1>6
<1>8. es = {e} => sync'.pc = "rules"
  BY <1>6
<1>9. es # {e} => /\ sync'.pc = "rule" /\ sync'.at = [rule |-> r, events |-> es \ {e}, id |-> id]
                  /\ sync'.at.rule = r /\ sync'.at.events = es \ {e} /\ sync'.at.id = id
  BY <1>6
<1> HIDE DEF key, repeat
<1>10. SyncType'
  <2>1. Active' /\ f \in Files
    BY <1>1, <1>3, <1>8, <1>9 DEF Active, SyncType
  <2>2. CASE es = {e}
    BY <1>6, <1>7, <1>8, <2>1, <2>2 DEF SyncType
  <2>3. CASE es # {e}
    BY <1>6, <1>7, <1>9, <2>1, <2>3 DEF SyncType
  <2> QED BY <2>2, <2>3
<1>11. StoreType' /\ IdInv' /\ OpInv'
  BY <1>2 DEF SyncInv, StoreType, IdInv, OpInv, Present, IdOf
\* The row that is written is this rule's, and no row of another job.
<1>12. ASSUME NEW q \in f.rules, NEW ev, Present(q.job),
              KeyAgrees(f, <<q.channel, ev, IdOf(q.job)>>, q.job)
       PROVE  KeyAgrees(f, <<q.channel, ev, IdOf(q.job)>>, q.job)'
  <2>0. PICK k : k = <<q.channel, ev, IdOf(q.job)>>
    OBVIOUS
  <2>1. k = <<q.channel, ev, IdOf(q.job)>> /\ k[1] = q.channel /\ k[2] = ev /\ k[3] = IdOf(q.job)
    BY <2>0
  <2>2. <<q.channel, ev, IdOf(q.job)>>' = k
    BY <1>2, <2>1 DEF IdOf
  <2>3. k \in DOMAIN rules'
    BY <1>2, <1>12, <2>1 DEF KeyAgrees
  <2>4. CASE k # key
    <3>1. rules'[k] = rules[k]
      BY <1>2, <1>12, <2>1, <2>4 DEF KeyAgrees
    <3>2. PICK p \in f.rules : /\ p.channel = k[1] /\ p.job = q.job /\ k[2] \in p.events
                               /\ rules[k] = RepeatFor(p, k[2])
      BY <1>12, <2>1 DEF KeyAgrees
    <3> QED BY <2>2, <2>3, <3>1, <3>2 DEF KeyAgrees
  <2>5. CASE k = key
    <3>1. k[1] = r.channel /\ k[2] = e /\ IdOf(q.job) = id
      BY <2>1, <2>5 DEF key
    <3>2. q.job = r.job
      <4>1. q.job \in JobNames \cup {AllJobs}
        BY <1>5
      <4>2. CASE q.job = AllJobs
        BY <1>4, <3>1, <4>2 DEF IdOf
      <4>3. CASE q.job # AllJobs
        BY <1>4, <1>12, <3>1, <4>1, <4>3 DEF IdOf, Present
      <4> QED BY <4>2, <4>3
    <3>3. rules'[k] = RepeatFor(r, k[2]) /\ k[2] \in r.events
      BY <1>2, <1>4, <2>5, <3>1 DEF repeat
    <3> QED BY <1>4, <2>2, <2>3, <3>1, <3>2, <3>3 DEF KeyAgrees
  <2> QED BY <2>4, <2>5
<1>13. ASSUME NEW q \in f.rules, NEW evs, RuleWritten(q, evs) PROVE RuleWritten(q, evs)'
  <2>1. CASE RuleTouched(q.channel, q.job)
    BY <1>2, <2>1 DEF RuleWritten, RuleTouched
  <2>2. CASE ~RuleTouched(q.channel, q.job)
    <3>1. Present(q.job) /\ \A ev \in evs : KeyAgrees(f, <<q.channel, ev, IdOf(q.job)>>, q.job)
      BY <1>1, <1>13, <2>2 DEF RuleWritten
    <3>2. \A ev \in evs : KeyAgrees(f, <<q.channel, ev, IdOf(q.job)>>, q.job)'
      BY <1>12, <3>1
    <3>3. Present(q.job)'
      BY <1>2, <3>1 DEF Present
    <3> QED BY <1>7, <3>2, <3>3 DEF RuleWritten
  <2> QED BY <2>1, <2>2
<1>14. RuleWritten(r, r.events \ (es \ {e}))'
  <2>1. RuleWritten(r, r.events \ es)'
    BY <1>4, <1>13
  <2>2. CASE RuleTouched(r.channel, r.job)'
    BY <2>2 DEF RuleWritten
  <2>3. CASE ~RuleTouched(r.channel, r.job)'
    <3>1. /\ Present(r.job)'
          /\ \A ev \in r.events \ es : KeyAgrees(f, <<r.channel, ev, IdOf(r.job)>>, r.job)'
      BY <1>7, <2>1, <2>3 DEF RuleWritten
    <3>2. id = IdOf(r.job)'
      BY <1>2, <1>4, <2>3 DEF RuleTouched, JobTouched, IdOf
    <3>3. KeyAgrees(f, <<r.channel, e, IdOf(r.job)>>, r.job)'
      <4>1. <<r.channel, e, IdOf(r.job)>>' = key
        BY <3>2 DEF key
      <4>2. key \in DOMAIN rules' /\ rules'[key] = repeat /\ key[1] = r.channel /\ key[2] = e
        BY <1>2 DEF key
      <4>3. r \in f.rules /\ e \in r.events
        BY <1>4
      <4> QED BY <4>1, <4>2, <4>3 DEF KeyAgrees, repeat
    <3>4. \A ev \in r.events \ (es \ {e}) : ev \in r.events \ es \/ ev = e
      OBVIOUS
    <3>5. \A ev \in r.events \ (es \ {e}) : KeyAgrees(f, <<r.channel, ev, IdOf(r.job)>>, r.job)'
      BY <3>1, <3>3, <3>4
    <3> QED BY <1>7, <3>1, <3>5 DEF RuleWritten
  <2> QED BY <2>2, <2>3
<1>15. RulesInv'
  <2>1. \A q \in f.rules : q # r => (sync.todo # {} /\ q \in sync.todo) \/ RuleWritten(q, q.events)'
    BY <1>1, <1>3, <1>13 DEF RulesInv, AtRules
  <2>2. sync.todo \subseteq f.rules
    BY <1>1, <1>3 DEF RulesInv, AtRules
  <2>3. CASE es = {e}
    <3>1. r.events \ (es \ {e}) = r.events
      BY <2>3
    <3>2. RuleWritten(r, r.events)'
      BY <1>14, <3>1
    <3> QED BY <1>7, <1>8, <2>1, <2>2, <2>3, <3>2 DEF RulesInv, AtRules
  <2>4. CASE es # {e}
    <3>1. JobTouched(r.job)' \/ (Present(r.job) /\ id = IdOf(r.job))'
      BY <1>2, <1>4 DEF JobTouched, Present, IdOf
    <3>2. lastId' = lastId /\ jobs' = jobs
      BY <1>2
    <3> QED BY <1>4, <1>7, <1>9, <1>14, <2>1, <2>2, <2>4, <3>1, <3>2 DEF RulesInv, AtRules
  <2> QED BY <2>3, <2>4
<1>16. PastJobs' /\ PastChannels'
  BY <1>8, <1>9 DEF PastJobs, PastChannels, AtChannels
<1>17. JobsInv' /\ AbsentInv' /\ ChannelsInv'
  BY <1>1, <1>2, <1>3, <1>7, <1>16, JobsStay, ChannelsStay
<1>18. HeartbeatsInv'
  BY <1>8, <1>9 DEF HeartbeatsInv, PastRules
<1> QED BY <1>10, <1>11, <1>15, <1>17, <1>18 DEF SyncInv, ProgressInv

\* And a step that writes no rule and no job, of the rules.
LEMMA RulesStay ==
    ASSUME SyncInv, Active, PastRules, PastRules', UNCHANGED <<jobs, lastId, rules, touched>>,
           sync'.file = sync.file
    PROVE  RulesInv'
<1>1. RulesInv
  BY DEF SyncInv, ProgressInv
<1>2. ASSUME NEW q, NEW es, RuleWritten(q, es) PROVE RuleWritten(q, es)'
  BY <1>2 DEF RuleWritten, RuleTouched, Present, KeyAgrees, IdOf
<1>3. \A r \in sync.file.rules : RuleWritten(r, r.events)
  BY <1>1 DEF RulesInv, PastRules, PastChannels, PastJobs, AtChannels, AtRules
<1> QED BY <1>2, <1>3 DEF RulesInv, AtRules, PastRules

\* A heartbeat of the file is written.
LEMMA SyncHeartbeatKeeps ==
    ASSUME SyncInv, sync.pc = "heartbeats", NEW nm \in sync.todo, SyncHeartbeat(nm)
    PROVE  SyncInv'
<1>1. PICK period : period = sync.file.heartbeats[nm]
  OBVIOUS
<1>2. /\ CreateHeartbeat(nm, Random, period) /\ sync' = [sync EXCEPT !.todo = @ \ {nm}]
      /\ UNCHANGED <<jobs, lastId, secret, channels, rules, op, touched>>
  BY <1>1 DEF SyncHeartbeat, CreateHeartbeat
<1>3. Active /\ SyncType /\ StoreType /\ HeartbeatsInv /\ PastJobs /\ PastChannels /\ PastRules
  BY DEF SyncInv, ProgressInv, Active, PastJobs, PastChannels, PastRules, AtChannels
<1>4. sync' = [pc |-> "heartbeats", file |-> sync.file, existing |-> sync.existing,
               todo |-> sync.todo \ {nm}, at |-> sync.at]
  BY <1>2, <1>3 DEF SyncType
<1>5. /\ sync'.pc = "heartbeats" /\ sync'.file = sync.file /\ sync'.existing = sync.existing
      /\ sync'.todo = sync.todo \ {nm}
  BY <1>4
<1>6. SyncType'
  <2>1. Active' /\ sync.file \in Files
    BY <1>3, <1>5 DEF Active, SyncType
  <2> QED BY <1>4, <1>5, <2>1 DEF SyncType
<1>7. /\ \A h \in hbs' : h = [name |-> h.name, token |-> h.token, period |-> h.period]
      /\ \E h \in hbs' : h.name = nm /\ h.period = period
      /\ \A x : x # nm => Named(x) \subseteq Named(x)'
  BY <1>2, <1>3, HeartbeatWritten
<1>8. StoreType' /\ IdInv' /\ OpInv'
  BY <1>2, <1>7 DEF SyncInv, StoreType, IdInv, OpInv, Present, IdOf
<1>9. HeartbeatAgrees(sync.file, nm)'
  BY <1>1, <1>5, <1>7 DEF HeartbeatAgrees, Named
<1>10. ASSUME NEW x, x # nm, HeartbeatAgrees(sync.file, x) PROVE HeartbeatAgrees(sync.file, x)'
  BY <1>2, <1>5, <1>7, <1>10 DEF HeartbeatAgrees
<1>11. HeartbeatsInv'
  BY <1>3, <1>5, <1>9, <1>10 DEF HeartbeatsInv, PastRules
<1>12. PastJobs' /\ PastChannels' /\ PastRules'
  BY <1>5 DEF PastJobs, PastChannels, PastRules, AtChannels
<1>13. JobsInv' /\ AbsentInv' /\ ChannelsInv' /\ RulesInv'
  BY <1>2, <1>3, <1>5, <1>12, JobsStay, ChannelsStay, RulesStay
<1> QED BY <1>6, <1>8, <1>11, <1>13 DEF SyncInv, ProgressInv

\* A section is over when nothing of it is left; the next one begins.
LEMMA SyncGoesOnKeeps == ASSUME SyncInv, SyncGoesOn PROVE SyncInv'
<1>1. sync.todo = {} /\ UNCHANGED <<store, op, touched>>
  BY DEF SyncGoesOn, others
<1>2. sync.pc \in {"jobs", "prune", "channels", "rules", "heartbeats"}
  BY DEF SyncGoesOn
<1>3. Active /\ SyncType /\ JobsInv /\ AbsentInv /\ ChannelsInv /\ RulesInv /\ HeartbeatsInv
  BY <1>2 DEF SyncInv, ProgressInv, Active
<1>4. sync'.file = sync.file /\ sync'.existing = sync.existing /\ SyncType' /\ Active'
      /\ sync'.pc = CASE sync.pc = "jobs" -> "prune" [] sync.pc = "prune" -> "channels"
                      [] sync.pc = "channels" -> "rules" [] sync.pc = "rules" -> "heartbeats"
                      [] sync.pc = "heartbeats" -> "done"
  <2>1. PICK pc, todo : sync' = [pc |-> pc, file |-> sync.file, existing |-> sync.existing,
                                 todo |-> todo, at |-> sync.at]
                        /\ pc = CASE sync.pc = "jobs" -> "prune" [] sync.pc = "prune" -> "channels"
                                  [] sync.pc = "channels" -> "rules" [] sync.pc = "rules" -> "heartbeats"
                                  [] sync.pc = "heartbeats" -> "done"
    <3>1. sync = [pc |-> sync.pc, file |-> sync.file, existing |-> sync.existing,
                  todo |-> sync.todo, at |-> sync.at]
      BY <1>3 DEF SyncType
    <3>2. \E pc, todo : sync' = [pc |-> pc, file |-> sync.file, existing |-> sync.existing,
                                 todo |-> todo, at |-> sync.at]
                        /\ pc = CASE sync.pc = "jobs" -> "prune" [] sync.pc = "prune" -> "channels"
                                  [] sync.pc = "channels" -> "rules" [] sync.pc = "rules" -> "heartbeats"
                                  [] sync.pc = "heartbeats" -> "done"
      <4>1. CASE sync.pc = "jobs" BY <3>1, <4>1 DEF SyncGoesOn
      <4>2. CASE sync.pc = "prune" BY <3>1, <4>2 DEF SyncGoesOn
      <4>3. CASE sync.pc = "channels" BY <3>1, <4>3 DEF SyncGoesOn
      <4>4. CASE sync.pc = "rules" BY <3>1, <4>4 DEF SyncGoesOn
      <4>5. CASE sync.pc = "heartbeats" BY <3>1, <4>5 DEF SyncGoesOn
      <4> QED BY <1>2, <4>1, <4>2, <4>3, <4>4, <4>5
    <3> QED BY <3>2
  <2>2. pc \in {"prune", "channels", "rules", "heartbeats", "done"}
    BY <1>2, <2>1
  <2>3. sync'.pc = pc /\ sync'.file = sync.file /\ sync'.existing = sync.existing
    BY <2>1
  <2>4. Active' /\ sync.file \in Files
    BY <1>3, <2>2, <2>3 DEF Active, SyncType
  <2>5. SyncType'
    BY <2>1, <2>3, <2>4 DEF SyncType
  <2> QED BY <2>1, <2>3, <2>4, <2>5
<1>5. ASSUME NEW n \in JobNames, JobAgrees(sync.file, n) PROVE JobAgrees(sync.file, n)'
  BY <1>1, <1>4, <1>5 DEF JobAgrees, Readable, store
<1>6. ASSUME NEW c \in ChannelNames, ChannelAgrees(sync.file, c) PROVE ChannelAgrees(sync.file, c)'
  BY <1>1, <1>4, <1>6 DEF ChannelAgrees, store
<1>7. ASSUME NEW q, NEW es, RuleWritten(q, es) PROVE RuleWritten(q, es)'
  BY <1>1, <1>4, <1>7 DEF RuleWritten, RuleTouched, Present, KeyAgrees, IdOf, store
<1>8. ASSUME NEW x, HeartbeatAgrees(sync.file, x) PROVE HeartbeatAgrees(sync.file, x)'
  BY <1>1, <1>4, <1>8 DEF HeartbeatAgrees, Named, store
<1>9. CASE sync.pc = "jobs"
  <2>1. sync'.pc = "prune" /\ sync'.todo = Absent
    BY <1>3, <1>4, <1>9 DEF SyncGoesOn, SyncType
  <2>2. JobsInv'
    BY <1>1, <1>3, <1>4, <1>5, <1>9, <2>1 DEF JobsInv, AtJobs
  <2>3. AbsentInv'
    <3>1. Absent \subseteq DOMAIN sync.existing \ DOMAIN sync.file.jobs
      BY DEF Absent
    <3>2. ASSUME NEW n \in JobNames, n \notin DOMAIN sync.file.jobs, n \notin Absent
          PROVE  JobAgrees(sync.file, n)
      BY <1>3, <1>9, <3>2 DEF AbsentInv, AtJobs, JobTouched, JobAgrees, Absent
    <3> QED BY <1>3, <1>4, <1>5, <2>1, <3>1, <3>2 DEF AbsentInv, AtJobs
  <2>4. ChannelsInv' /\ RulesInv' /\ HeartbeatsInv'
    BY <2>1 DEF ChannelsInv, RulesInv, HeartbeatsInv, AtChannels, AtRules, PastJobs, PastChannels, PastRules
  <2> QED BY <1>1, <1>4, <2>2, <2>3, <2>4, StoreSame DEF SyncInv, ProgressInv
<1>10. CASE sync.pc # "jobs"
  <2>1. PastJobs' /\ sync'.pc # "channel" /\ sync'.pc # "rule"
    BY <1>2, <1>4, <1>10 DEF PastJobs
  <2>2. JobsInv' /\ AbsentInv'
    BY <1>1, <1>2, <1>3, <1>4, <1>5, <1>10, <2>1 DEF JobsInv, AbsentInv, AtJobs, PastJobs
  <2>3. ChannelsInv'
    <3>1. CASE sync.pc = "prune"
      <4>1. sync'.pc = "channels" /\ sync'.todo = DOMAIN sync.file.channels
        BY <1>3, <1>4, <3>1 DEF SyncGoesOn, SyncType
      <4> QED BY <1>4, <4>1 DEF ChannelsInv, AtChannels
    <3>2. CASE sync.pc # "prune"
      <4>1. \A c \in DOMAIN sync.file.channels : ChannelAgrees(sync.file, c)
        BY <1>1, <1>2, <1>3, <1>10, <3>2 DEF ChannelsInv, AtChannels, PastJobs
      <4>2. ~AtChannels'
        BY <1>2, <1>4, <1>10, <3>2 DEF AtChannels
      <4> QED BY <1>3, <1>4, <1>6, <2>1, <4>1, <4>2, FileChannels DEF ChannelsInv
    <3> QED BY <3>1, <3>2
  <2>4. RulesInv'
    <3>1. CASE sync.pc = "prune"
      <4>1. sync'.pc = "channels"
        BY <1>4, <3>1
      <4> QED BY <4>1 DEF RulesInv, AtRules, PastChannels, AtChannels
    <3>2. CASE sync.pc = "channels"
      <4>1. sync'.pc = "rules" /\ sync'.todo = sync.file.rules
        BY <1>3, <1>4, <3>2 DEF SyncGoesOn, SyncType
      <4> QED BY <1>4, <4>1 DEF RulesInv, AtRules
    <3>3. CASE sync.pc \in {"rules", "heartbeats"}
      <4>1. \A r \in sync.file.rules : RuleWritten(r, r.events)
        BY <1>1, <1>3, <3>3 DEF RulesInv, AtRules, PastChannels, AtChannels, PastJobs
      <4>2. ~AtRules'
        BY <1>4, <3>3 DEF AtRules
      <4> QED BY <1>4, <1>7, <2>1, <4>1, <4>2 DEF RulesInv
    <3> QED BY <1>2, <1>10, <3>1, <3>2, <3>3
  <2>5. HeartbeatsInv'
    <3>1. CASE sync.pc \in {"prune", "channels"}
      <4>1. sync'.pc \in {"channels", "rules"}
        BY <1>4, <3>1
      <4> QED BY <4>1 DEF HeartbeatsInv, PastRules
    <3>2. CASE sync.pc = "rules"
      <4>1. sync'.pc = "heartbeats" /\ sync'.todo = DOMAIN sync.file.heartbeats
        BY <1>3, <1>4, <3>2 DEF SyncGoesOn, SyncType
      <4> QED BY <1>4, <4>1 DEF HeartbeatsInv
    <3>3. CASE sync.pc = "heartbeats"
      <4>1. sync'.pc = "done"
        BY <1>4, <3>3
      <4> QED BY <1>1, <1>3, <1>4, <1>8, <3>3, <4>1 DEF HeartbeatsInv, PastRules
    <3> QED BY <1>2, <1>10, <3>1, <3>2, <3>3
  <2> QED BY <1>1, <1>4, <2>2, <2>3, <2>4, <2>5, StoreSame DEF SyncInv, ProgressInv
<1> QED BY <1>9, <1>10

\* No step of the sync breaks the invariant.
LEMMA ReconcileKeeps == ASSUME SyncInv, Reconcile PROVE SyncInv'
<1>1. CASE SyncFails
  BY <1>1, FailsKeeps DEF SyncFails, others
<1> QED BY <1>1, SyncBeginKeeps, SyncLookupKeeps, SyncPruneKeeps, SyncJobKeeps, SyncSecretKeeps,
           SyncChannelKeeps, SyncRuleLookupKeeps, SyncRuleKeeps, SyncHeartbeatKeeps, SyncGoesOnKeeps DEF Reconcile

\* The store a sync finds may hold a job that cannot be read.
LEMMA SyncStarts == SyncAssumption /\ SyncInit => SyncInv
<1> SUFFICES ASSUME SyncAssumption, SyncInit PROVE SyncInv
  OBVIOUS
<1>1. sync.pc = "idle" /\ sync = NoSync
  BY DEF SyncInit, NoSync
<1>2. StoreType
  <2>1. [id |-> 1, def |-> Damaged, enabled |-> TRUE] \in Rows
    BY DEF Rows
  <2>2. jobs \in [JobNames -> Rows \cup {Nil}]
    BY <2>1 DEF SyncInit
  <2>3. DOMAIN channels = ChannelNames /\ lastId = 1 /\ hbs = {}
    BY DEF SyncInit
  <2> QED BY <2>2, <2>3 DEF StoreType
<1>3. SyncType /\ ~Active
  BY <1>1 DEF SyncType, NoSync, Active
<1>4. IdInv
  BY DEF SyncInit, IdInv
<1>5. OpInv
  BY DEF SyncInit, OpInv
<1> QED BY <1>2, <1>3, <1>4, <1>5 DEF SyncInv, ProgressInv

\* Every step keeps the invariant.
LEMMA SyncStep == SyncInv /\ [SyncNext]_syncVars => SyncInv'
<1> SUFFICES ASSUME SyncInv, [SyncNext]_syncVars PROVE SyncInv'
  OBVIOUS
<1>1. CASE UNCHANGED syncVars
  <2>1. UNCHANGED <<store, sync, touched, op>>
    BY <1>1 DEF syncVars
  <2>2. OpInv'
    BY <2>1, StoreSame
  <2> QED BY <2>1, <2>2, StoreAlone
<1> QED BY <1>1, ReconcileKeeps, CommandKeeps, ImportKeeps DEF SyncNext

\* At the end of the last section nothing is left to do.
LEMMA InvConverges == SyncInv => SyncConverges
<1> SUFFICES ASSUME SyncInv, sync.pc = "done"
             PROVE  /\ \A n \in JobNames : JobAgrees(sync.file, n)
                    /\ \A c \in DOMAIN sync.file.channels : ChannelAgrees(sync.file, c)
                    /\ \A r \in sync.file.rules : RuleAgrees(sync.file, r)
                    /\ \A name \in DOMAIN sync.file.heartbeats : HeartbeatAgrees(sync.file, name)
  BY DEF SyncConverges
<1>1. Active /\ JobsInv /\ AbsentInv /\ ChannelsInv /\ RulesInv /\ HeartbeatsInv
  BY DEF SyncInv, ProgressInv, Active
<1>2. \A n \in JobNames : JobAgrees(sync.file, n)
  BY <1>1 DEF JobsInv, AbsentInv, AtJobs
<1>3. \A c \in DOMAIN sync.file.channels : ChannelAgrees(sync.file, c)
  BY <1>1 DEF ChannelsInv, AtChannels, PastJobs
<1>4. \A r \in sync.file.rules : RuleWritten(r, r.events)
  BY <1>1 DEF RulesInv, AtRules, PastChannels, PastJobs, AtChannels
<1>5. \A r \in sync.file.rules : RuleAgrees(sync.file, r)
  BY <1>4 DEF RuleWritten, RuleAgrees, RuleTouched, IdOf
<1>6. \A name \in DOMAIN sync.file.heartbeats : HeartbeatAgrees(sync.file, name)
  BY <1>1 DEF HeartbeatsInv, PastRules
<1> QED BY <1>2, <1>3, <1>5, <1>6

\* "Re-running it converges the store to match": when Reconcile returns without
\* an error, whatever the file, what earlier syncs left half done and the
\* commands and imports that ran meanwhile, every row is as the file says unless
\* one of those wrote it since the sync began.
THEOREM SyncReachesFile == SyncAssumption /\ SyncSpec => []SyncConverges
BY SyncStarts, SyncStep, InvConverges, PTL DEF SyncSpec

-----------------------------------------------------------------------------
(* What Plan computes: a sequence, each entry decided after those before   *)
(* it.  Plan is a recursive function; that it has a solution is shown by   *)
(* extending one, the rest by a least place where it fails.                *)

\* A set of naturals that is not empty has a least element.
LEMMA LeastNatural ==
    ASSUME NEW T \in SUBSET Nat, T # {}
    PROVE  \E x \in T : \A y \in T : x <= y
<1> DEFINE R == {ss \in Nat \X Nat : ss[1] < ss[2]}
<1>1. IsWellFoundedOn(R, Nat)
  BY NatLessThanWellFounded DEF OpToRel
<1>2. \A x, y \in Nat : <<y, x>> \in R <=> y < x
  OBVIOUS
<1> HIDE DEF R
<1>3. PICK x \in T : \A y \in T : ~ (<<y, x>> \in R)
  BY <1>1, WFMin
<1>4. ASSUME NEW y \in T
      PROVE  x <= y
  <2>1. x \in Nat /\ y \in Nat
    OBVIOUS
  <2>2. ~(y < x)
    BY <1>2, <1>3, <2>1
  <2> QED BY <2>1, <2>2
<1> QED BY <1>4

\* The equation the plans of the first i checks solve.
PlanEq(checks, existing, p, f, i) ==
    f[i] = IF i = 0 THEN <<>>
           ELSE Append(f[i - 1], Decide(checks[i], existing, f[i - 1], p))
\* f is such a function.
Plans(checks, existing, p, f) ==
    f = [i \in 0..Len(checks) |->
            IF i = 0 THEN <<>> ELSE Append(f[i - 1], Decide(checks[i], existing, f[i - 1], p))]

\* Plan is the last value of the function its definition chooses.
LEMMA PlanIsPlans ==
    ASSUME NEW checks, NEW existing, NEW p
    PROVE  Plan(checks, existing, p) = (CHOOSE f : Plans(checks, existing, p, f))[Len(checks)]
BY DEF Plan, Plans

\* f solves the equation up to n.
PlansTo(checks, existing, p, n, f) ==
    f = [i \in 0..n |-> f[i]] /\ \A i \in 0..n : PlanEq(checks, existing, p, f, i)

\* A solution up to k - 1 is extended to k, so there is one up to any n.
LEMMA PlansToAll ==
    ASSUME NEW checks, NEW existing, NEW p, NEW n \in Nat
    PROVE  \E f : PlansTo(checks, existing, p, n, f)
<1> SUFFICES ASSUME ~ \E f : PlansTo(checks, existing, p, n, f) PROVE FALSE
  OBVIOUS
<1> DEFINE T == {k \in Nat : ~ \E f : PlansTo(checks, existing, p, k, f)}
<1>1. T \in SUBSET Nat /\ T # {}
  OBVIOUS
<1>2. PICK k \in T : \A y \in T : k <= y
  <2> HIDE DEF T
  <2> QED BY <1>1, LeastNatural
<1>3. k \in Nat /\ \A f : ~ PlansTo(checks, existing, p, k, f)
  BY <1>2
<1>4. CASE k = 0
  <2> DEFINE f == [i \in 0..0 |-> <<>>]
  <2>1. PlansTo(checks, existing, p, 0, f)
    BY DEF PlansTo, PlanEq
  <2> QED BY <1>3, <1>4, <2>1
<1>5. CASE k # 0
  <2>1. k - 1 \in Nat /\ k - 1 \notin T
    BY <1>2, <1>3, <1>5
  <2>2. PICK g : PlansTo(checks, existing, p, k - 1, g)
    BY <2>1
  <2>3. PICK new : new = Append(g[k - 1], Decide(checks[k], existing, g[k - 1], p))
    OBVIOUS
  <2> DEFINE f == [i \in 0..k |-> IF i = k THEN new ELSE g[i]]
  <2>4. f[k] = new /\ \A i \in 0..(k - 1) : f[i] = g[i]
    BY <1>3, <1>5
  <2>5. f = [i \in 0..k |-> f[i]]
    OBVIOUS
  <2> HIDE DEF f
  <2>6. PlanEq(checks, existing, p, f, k)
    <3>1. f[k - 1] = g[k - 1]
      BY <1>3, <1>5, <2>4
    <3> QED BY <1>5, <2>3, <2>4, <3>1 DEF PlanEq
  <2>7. ASSUME NEW i \in 0..(k - 1) PROVE PlanEq(checks, existing, p, f, i)
    <3>1. PlanEq(checks, existing, p, g, i)
      BY <2>2 DEF PlansTo
    <3>2. i # 0 => i - 1 \in 0..(k - 1)
      BY <1>3
    <3> QED BY <2>4, <3>1, <3>2 DEF PlanEq
  <2>8. PlansTo(checks, existing, p, k, f)
    <3>1. \A i \in 0..k : i = k \/ i \in 0..(k - 1)
      BY <1>3
    <3> QED BY <2>5, <2>6, <2>7, <3>1 DEF PlansTo
  <2> QED BY <1>3, <2>8
<1> QED BY <1>4, <1>5

\* The plans of the first checks: the last of them is Plan's.
LEMMA PlanSolved ==
    ASSUME NEW checks, Len(checks) \in Nat, NEW existing, NEW p
    PROVE  \E f : /\ Plan(checks, existing, p) = f[Len(checks)]
                  /\ \A i \in 0..Len(checks) : PlanEq(checks, existing, p, f, i)
<1>1. PICK g : PlansTo(checks, existing, p, Len(checks), g)
  BY PlansToAll
<1>2. Plans(checks, existing, p, g)
  BY <1>1 DEF PlansTo, PlanEq, Plans
<1>3. PICK f : f = CHOOSE h : Plans(checks, existing, p, h)
  OBVIOUS
<1>4. Plans(checks, existing, p, f)
  BY <1>2, <1>3
<1>5. \A i \in 0..Len(checks) : PlanEq(checks, existing, p, f, i)
  BY <1>4 DEF Plans, PlanEq
<1>6. Plan(checks, existing, p) = f[Len(checks)]
  BY <1>3, PlanIsPlans
<1> QED BY <1>5, <1>6

\* The entries of a plan before entry i.
Before(plan, i) == [j \in 1..(i - 1) |-> plan[j]]

\* One entry for each check, decided after the entries before it.
LEMMA PlanEntries ==
    ASSUME NEW checks, Len(checks) \in Nat, NEW existing, NEW p, NEW plan, plan = Plan(checks, existing, p)
    PROVE  /\ Len(plan) = Len(checks) /\ DOMAIN plan = 1..Len(checks)
           /\ \A i \in 1..Len(checks) : plan[i] = Decide(checks[i], existing, Before(plan, i), p)
<1>1. PICK n \in Nat : n = Len(checks)
  OBVIOUS
<1>2. PICK f : plan = f[n] /\ \A i \in 0..n : PlanEq(checks, existing, p, f, i)
  BY <1>1, PlanSolved
<1> DEFINE D(i) == Decide(checks[i], existing, f[i - 1], p)
           S == {D(i) : i \in 1..n}
           Good(k) == /\ f[k] \in Seq(S) /\ Len(f[k]) = k
                      /\ \A j \in 1..k : f[k][j] = D(j)
           T == {k \in 0..n : ~Good(k)}
<1>3. T = {}
  <2> SUFFICES ASSUME T # {} PROVE FALSE
    OBVIOUS
  <2>1. T \in SUBSET Nat
    OBVIOUS
  <2>2. PICK k \in T : \A y \in T : k <= y
    <3> HIDE DEF T
    <3> QED BY <2>1, LeastNatural
  <2>3. k \in 0..n /\ ~Good(k)
    BY <2>2
  <2>4. CASE k = 0
    <3>1. f[0] = <<>>
      BY <1>2 DEF PlanEq
    <3>2. Good(0)
      BY <3>1
    <3> QED BY <2>3, <2>4, <3>2
  <2>5. CASE k # 0
    <3>1. k - 1 \in 0..n /\ k \in 1..n /\ k - 1 \in Nat
      BY <2>3, <2>5
    <3>2. Good(k - 1)
      <4>1. k - 1 \notin T
        <5> HIDE DEF T
        <5> QED BY <2>2, <2>3, <3>1
      <4> QED BY <3>1, <4>1
    <3>3. D(k) \in S
      BY <3>1
    <3>4. f[k] = Append(f[k - 1], D(k))
      BY <1>2, <2>3, <2>5 DEF PlanEq
    <3>5. f[k - 1] \in Seq(S) /\ Len(f[k - 1]) = k - 1 /\ \A j \in 1..(k - 1) : f[k - 1][j] = D(j)
      BY <3>2
    <3>6. PICK s, d : s = f[k - 1] /\ d = D(k)
      OBVIOUS
    <3> HIDE DEF S, D
    <3>7. /\ Append(s, d) \in Seq(S) /\ Len(Append(s, d)) = k
          /\ Append(s, d)[k] = d /\ \A j \in 1..(k - 1) : Append(s, d)[j] = s[j]
      BY <3>1, <3>3, <3>5, <3>6
    <3>8. \A j \in 1..k : f[k][j] = D(j)
      BY <3>1, <3>4, <3>5, <3>6, <3>7
    <3>9. Good(k)
      BY <3>4, <3>6, <3>7, <3>8
    <3> QED BY <2>3, <3>9
  <2> QED BY <2>4, <2>5
<1>4. \A k \in 0..n : Good(k)
  BY <1>3
<1>5. plan \in Seq(S) /\ Len(plan) = n /\ \A j \in 1..n : plan[j] = D(j)
  <2>1. n \in 0..n
    OBVIOUS
  <2>2. Good(n)
    BY <1>4, <2>1
  <2> HIDE DEF S, D
  <2> QED BY <1>2, <2>2
<1>6. ASSUME NEW i \in 1..n PROVE f[i - 1] = Before(plan, i)
  <2>1. i - 1 \in 0..n
    OBVIOUS
  <2>2. Good(i - 1)
    BY <1>4, <2>1
  <2>3. f[i - 1] = [j \in 1..(i - 1) |-> D(j)]
    <3> HIDE DEF S, D
    <3> QED BY <2>1, <2>2
  <2>4. \A j \in 1..(i - 1) : plan[j] = D(j)
    BY <1>5
  <2> HIDE DEF D
  <2> QED BY <2>3, <2>4 DEF Before
<1>7. \A i \in 1..n : plan[i] = Decide(checks[i], existing, Before(plan, i), p)
  BY <1>5, <1>6
<1>8. DOMAIN plan = 1..n
  <2> HIDE DEF S
  <2> QED BY <1>5
<1> QED BY <1>1, <1>5, <1>7, <1>8

\* What Decide looks at: the names planned before, the names that are taken, and
\* whether the check is left out whatever they are.
Planned(before) == {before[i].name : i \in {i \in DOMAIN before : before[i].op # "skip"}}
Taken(E) == {h.name : h \in E}
Passed(c, p) == c.uuid = Nil \/ (c.paused /\ ~p)
Renamed(c) == NameOf(c) \o <<c.uuid>>
NewName(c, E, before) == IF NameOf(c) \in Planned(before) \ Taken(E) THEN Renamed(c) ELSE NameOf(c)

\* The four things Decide may say of a check.
LEMMA DecideCases ==
    ASSUME NEW c, NEW E, NEW before, NEW p, NEW a, a = Decide(c, E, before, p)
    PROVE  \/ a.op = "skip" /\ Passed(c, p)
           \/ /\ a.op \in {"unchanged", "update"} /\ ~Passed(c, p)
              /\ a.token = c.uuid /\ a.period = MapTiming(c)
              /\ \E h \in E : /\ h.token = c.uuid /\ h.name = a.name
                              /\ a.op = "unchanged" <=> h.period = a.period
           \/ /\ a.op = "skip" /\ ~Passed(c, p)
              /\ \A h \in E : h.token # c.uuid
              /\ NewName(c, E, before) \in Taken(E)
           \/ /\ a.op = "create" /\ ~Passed(c, p)
              /\ a.token = c.uuid /\ a.period = MapTiming(c)
              /\ \A h \in E : h.token # c.uuid
              /\ a.name = NewName(c, E, before) /\ a.name \notin Taken(E)
<1> DEFINE had == {h \in E : h.token = c.uuid}
           name == NewName(c, E, before)
           period == MapTiming(c)
           action == [op |-> "create", name |-> name, token |-> c.uuid, period |-> period]
           h0 == CHOOSE h \in had : TRUE
<1>1. a = IF Passed(c, p) THEN Skip(c, NameOf(c))
          ELSE IF had # {}
          THEN [action EXCEPT !.name = h0.name, !.op = IF h0.period = period THEN "unchanged" ELSE "update"]
          ELSE IF name \in Taken(E) THEN Skip(c, name) ELSE action
  BY DEF Decide, Passed, NewName, Renamed, Planned, Taken
<1>2. \A x : Skip(c, x).op = "skip"
  BY DEF Skip
<1>3. had # {} => h0 \in had
  OBVIOUS
<1>4. PICK nm, per, h : nm = name /\ per = period /\ h = h0
  OBVIOUS
<1> HIDE DEF h0, name, period
<1>5. CASE Passed(c, p)
  BY <1>1, <1>2, <1>5
<1>6. CASE ~Passed(c, p) /\ had # {}
  <2>1. PICK what : what = IF h.period = per THEN "unchanged" ELSE "update"
    OBVIOUS
  <2>2. a = [op |-> what, name |-> h.name, token |-> c.uuid, period |-> per]
    BY <1>1, <1>4, <1>6, <2>1
  <2>3. a.op = what /\ a.name = h.name /\ a.token = c.uuid /\ a.period = per
    BY <2>2
  <2>4. h \in E /\ h.token = c.uuid
    BY <1>3, <1>4, <1>6
  <2> QED BY <1>4, <1>6, <2>1, <2>3, <2>4 DEF period
<1>7. CASE ~Passed(c, p) /\ had = {}
  <2>1. \A g \in E : g.token # c.uuid
    BY <1>7
  <2>2. CASE name \in Taken(E)
    <3>1. a.op = "skip"
      BY <1>1, <1>2, <1>7, <2>2
    <3> QED BY <1>7, <2>1, <2>2, <3>1 DEF name
  <2>3. CASE name \notin Taken(E)
    <3>1. a = action
      BY <1>1, <1>7, <2>3
    <3>2. a.op = "create" /\ a.name = name /\ a.token = c.uuid /\ a.period = period
      BY <3>1
    <3> QED BY <1>7, <2>1, <2>3, <3>2 DEF name, period
  <2> QED BY <2>2, <2>3
<1> QED BY <1>5, <1>6, <1>7

\* No two heartbeats have a name, or a token that was not drawn, in common.
HbSet(E) ==
    /\ \A h \in E : h = [name |-> h.name, token |-> h.token, period |-> h.period]
    /\ \A g, h \in E : g.name = h.name => g = h
    /\ \A g, h \in E : g.token = h.token /\ g.token # Random => g = h

\* The checks of an answer have names and UUIDs of their own.
LEMMA CheckFacts ==
    ASSUME ImportAssumption, NEW checks \in CheckLists
    PROVE  /\ Len(checks) \in Nat /\ DOMAIN checks = 1..Len(checks)
           /\ \A i \in 1..Len(checks) : /\ NameOf(checks[i]) \in Seq(STRING \cup {Nil})
                                         /\ checks[i].uuid \in STRING \cup {Nil} /\ checks[i].uuid # Random
           /\ \A i, j \in 1..Len(checks) : checks[i].uuid = checks[j].uuid /\ checks[i].uuid # Nil => i = j
<1>1. checks \in Seq(Check)
  BY DEF ImportAssumption
<1>2. Len(checks) \in Nat /\ DOMAIN checks = 1..Len(checks) /\ \A i \in 1..Len(checks) : checks[i] \in Check
  BY <1>1
<1>3. ASSUME NEW c \in Check PROVE NameOf(c) \in Seq(STRING \cup {Nil}) /\ c.uuid \in STRING \cup {Nil}
  <2>1. c.slug \in Seq(STRING) /\ c.name \in Seq(STRING) /\ c.uuid \in STRING \cup {Nil}
    BY DEF Check
  <2>2. <<c.uuid>> \in Seq(STRING \cup {Nil})
    BY <2>1
  <2>3. \A s \in Seq(STRING) : s \in Seq(STRING \cup {Nil})
    OBVIOUS
  <2> QED BY <2>1, <2>2, <2>3 DEF NameOf
<1> QED BY <1>2, <1>3 DEF ImportAssumption

\* What is appended to two names is the same if the results are.
LEMMA LastSame ==
    ASSUME NEW S, NEW s \in Seq(S), NEW t \in Seq(S), NEW u \in S, NEW v \in S, s \o <<u>> = t \o <<v>>
    PROVE  u = v
<1>1. Len(s \o <<u>>) = Len(s) + 1 /\ Len(t \o <<v>>) = Len(t) + 1
  OBVIOUS
<1>2. (s \o <<u>>)[Len(s) + 1] = u /\ (t \o <<v>>)[Len(t) + 1] = v
  OBVIOUS
<1> QED BY <1>1, <1>2

\* The names of the entries are their own: no import writes a heartbeat twice.
LEMMA PlanDistinct ==
    ASSUME ImportAssumption, NEW checks \in CheckLists, ~Ambiguous(checks), NEW E, HbSet(E), NEW p,
           NEW plan, plan = Plan(checks, E, p), NEW i \in DOMAIN plan, NEW j \in DOMAIN plan, i < j,
           plan[i].op # "skip", plan[j].op # "skip"
    PROVE  plan[i].name # plan[j].name
<1>1. /\ Len(plan) = Len(checks) /\ DOMAIN plan = 1..Len(checks) /\ Len(checks) \in Nat
      /\ \A k \in 1..Len(checks) : plan[k] = Decide(checks[k], E, Before(plan, k), p)
  BY CheckFacts, PlanEntries
<1>2. i \in 1..Len(checks) /\ j \in 1..Len(checks) /\ i \in 1..(j - 1)
  BY <1>1
<1>3. PICK a, b, c, d : a = plan[i] /\ b = plan[j] /\ c = checks[i] /\ d = checks[j]
  OBVIOUS
<1>4. ~Passed(c, p) /\ ~Passed(d, p) => c.uuid # Nil /\ d.uuid # Nil /\ c.uuid # d.uuid
  BY <1>2, <1>3, CheckFacts DEF Passed
<1>5. a.name \in Planned(Before(plan, j))
  BY <1>2, <1>3 DEF Planned, Before
<1> DEFINE Had(x, y) == \E h \in E : h.token = y.uuid /\ h.name = x.name
           New(x, y, k) == x.name = NewName(y, E, Before(plan, k)) /\ x.name \notin Taken(E)
<1>6. ~Passed(c, p) /\ (Had(a, c) \/ New(a, c, i))
  BY <1>1, <1>2, <1>3, DecideCases
<1>7. ~Passed(d, p) /\ (Had(b, d) \/ New(b, d, j))
  BY <1>1, <1>2, <1>3, DecideCases
<1> SUFFICES ASSUME a.name = b.name PROVE FALSE
  BY <1>3
<1>8. CASE Had(a, c) /\ Had(b, d)
  BY <1>4, <1>6, <1>7, <1>8 DEF HbSet
<1>9. CASE Had(a, c) /\ New(b, d, j)
  BY <1>9 DEF Taken
<1>10. CASE New(a, c, i) /\ Had(b, d)
  BY <1>10 DEF Taken
<1>11. CASE New(a, c, i) /\ New(b, d, j)
  <2>1. b.name = Renamed(d)
    \* NameOf(d) would be the name planned for entry i, which is not taken.
    BY <1>5, <1>11 DEF NewName
  <2>2. a.name = Renamed(c) \/ a.name = NameOf(c)
    BY <1>11 DEF NewName
  <2>3. a.name # NameOf(c)
    <3>1. i \in DOMAIN checks /\ j \in DOMAIN checks
      BY <1>2, CheckFacts
    <3>2. NameOf(c) # NameOf(d) \o <<d.uuid>>
      BY <1>3, <1>4, <1>6, <1>7, <3>1 DEF Ambiguous
    <3> QED BY <2>1, <3>2 DEF Renamed
  <2>4. PICK s, t, u, v : s = NameOf(c) /\ t = NameOf(d) /\ u = c.uuid /\ v = d.uuid
    OBVIOUS
  <2>5. s \in Seq(STRING \cup {Nil}) /\ t \in Seq(STRING \cup {Nil}) /\ s \o <<u>> = t \o <<v>>
    BY <1>2, <1>3, <2>1, <2>2, <2>3, <2>4, CheckFacts DEF Renamed
  <2>6. u \in STRING \cup {Nil} /\ v \in STRING \cup {Nil}
    BY <1>2, <1>3, <2>4, CheckFacts
  <2>7. u = v
    BY <2>5, <2>6, LastSame
  <2> QED BY <1>4, <1>6, <1>7, <2>4, <2>7
<1> QED BY <1>6, <1>7, <1>8, <1>9, <1>10, <1>11

-----------------------------------------------------------------------------
(* The import.  Its plan is the one for some set of heartbeats (those it   *)
(* listed); what others have not written since is as it was in that set,   *)
(* or as an entry that is behind wrote it.                                 *)

\* The heartbeat an entry of the plan stands for, and whether one that is
\* behind wrote a heartbeat of name x.
Rec(a) == [name |-> a.name, token |-> a.token, period |-> a.period]
Behind(x) == \E i \in DOMAIN imp.plan : /\ i < imp.at /\ imp.plan[i].name = x
                                        /\ imp.plan[i].op \in {"create", "update"}

Followed(E) ==
    /\ HbSet(E) /\ imp.plan = Plan(imp.checks, E, imp.paused)
    /\ \A i \in DOMAIN imp.plan :
          i < imp.at /\ imp.plan[i].op # "skip" /\ imp.plan[i].name \notin moved => Rec(imp.plan[i]) \in hbs
    /\ \A x : x \notin moved /\ ~Behind(x) => Named(x) = {h \in E : h.name = x}

ImportType ==
    /\ imp = [pc |-> imp.pc, checks |-> imp.checks, paused |-> imp.paused, plan |-> imp.plan,
              at |-> imp.at, failed |-> imp.failed]
    /\ imp.pc \in {"idle", "fetched", "writing", "done"}
    /\ imp.pc # "idle" => imp.checks \in CheckLists
    /\ imp.at \in Nat /\ imp.at >= 1
    /\ imp.pc = "fetched" => imp.at = 1
    /\ imp.pc = "done" => imp.at > Len(imp.plan)

Clean == imp.pc \in {"writing", "done"} /\ ~imp.failed /\ ~Ambiguous(imp.checks)

ImportInv ==
    /\ ImportAssumption /\ HbSet(hbs) /\ ImportType
    /\ Clean => \E E : Followed(E)

\* What a step of another writer leaves to the import: the names it is not
\* recorded to have written.
Apart ==
    /\ imp' = imp /\ moved \subseteq moved' /\ HbSet(hbs)'
    /\ \A x : x \notin moved' => Named(x)' = Named(x)

\* Such a step keeps the invariant.
LEMMA ApartKeeps == ASSUME ImportInv, Apart PROVE ImportInv'
<1>1. ASSUME NEW E, Followed(E), Clean PROVE Followed(E)'
  <2>1. imp' = imp /\ moved \subseteq moved' /\ \A x : x \notin moved' => Named(x)' = Named(x)
    BY DEF Apart
  <2>2. ASSUME NEW i \in DOMAIN imp.plan, i < imp.at, imp.plan[i].op # "skip", imp.plan[i].name \notin moved'
        PROVE  Rec(imp.plan[i]) \in hbs'
    <3>1. Rec(imp.plan[i]) \in hbs
      BY <1>1, <2>1, <2>2 DEF Followed
    <3>2. Rec(imp.plan[i]).name = imp.plan[i].name
      BY DEF Rec
    <3> HIDE DEF Rec
    <3>3. Rec(imp.plan[i]) \in Named(imp.plan[i].name)
      BY <3>1, <3>2 DEF Named
    <3> QED BY <2>1, <2>2, <3>3 DEF Named
  <2>3. ASSUME NEW x, x \notin moved', ~Behind(x)' PROVE Named(x)' = {h \in E : h.name = x}
    BY <1>1, <2>1, <2>3 DEF Followed, Behind
  <2>4. HbSet(E) /\ imp.plan = Plan(imp.checks, E, imp.paused)
    BY <1>1 DEF Followed
  <2> QED BY <2>1, <2>2, <2>3, <2>4 DEF Followed, HbSet, Rec
<1>2. Clean' => Clean
  BY DEF Apart, Clean, Ambiguous, NameOf
<1>3. ImportType'
  BY DEF ImportInv, ImportType, Apart
<1>4. HbSet(hbs)' /\ ImportAssumption'
  BY DEF Apart, ImportInv
<1> QED BY <1>1, <1>2, <1>3, <1>4 DEF ImportInv

\* What CreateHeartbeat leaves: names and tokens stay unique, and a heartbeat
\* that was there keeps its token.
LEMMA HeartbeatCreated ==
    ASSUME HbSet(hbs), NEW nm, NEW token, NEW period, CreateHeartbeat(nm, token, period)
    PROVE  /\ HbSet(hbs)'
           /\ \A x : x # nm => Named(x)' = Named(x)
           /\ Named(nm) = {} => [name |-> nm, token |-> token, period |-> period] \in hbs'
           /\ \A h \in Named(nm) : [name |-> nm, token |-> h.token, period |-> period] \in hbs'
<1>1. CASE Named(nm) = {}
  <2> DEFINE new == [name |-> nm, token |-> token, period |-> period]
  <2>1. hbs' = hbs \cup {new}
    BY <1>1 DEF CreateHeartbeat
  <2>2. new.name = nm /\ new.token = token /\ new = [name |-> new.name, token |-> new.token, period |-> new.period]
    OBVIOUS
  <2>3. \A h \in hbs : h.name # nm /\ (h.token # token \/ token = Random)
    BY <1>1 DEF CreateHeartbeat, CanCreateHeartbeat, Named
  <2> HIDE DEF new
  <2>4. HbSet(hbs)'
    BY <2>1, <2>2, <2>3 DEF HbSet
  <2>5. \A x : x # nm => Named(x)' = Named(x)
    BY <2>1, <2>2 DEF Named
  <2>6. new \in hbs'
    BY <2>1
  <2> QED BY <1>1, <2>4, <2>5, <2>6 DEF new
<1>2. CASE Named(nm) # {}
  <2> DEFINE New(h) == IF h.name = nm THEN [h EXCEPT !.period = period] ELSE h
  <2>1. hbs' = {New(h) : h \in hbs}
    BY <1>2 DEF CreateHeartbeat
  <2>2. ASSUME NEW h \in hbs
        PROVE  /\ New(h) = [name |-> New(h).name, token |-> New(h).token, period |-> New(h).period]
               /\ New(h).name = h.name /\ New(h).token = h.token
               /\ h.name = nm => New(h) = [name |-> nm, token |-> h.token, period |-> period]
               /\ h.name # nm => New(h) = h
    <3>1. h = [name |-> h.name, token |-> h.token, period |-> h.period]
      BY DEF HbSet
    <3> QED BY <3>1
  <2> HIDE DEF New
  <2>3. HbSet(hbs)'
    BY <2>1, <2>2 DEF HbSet
  <2>4. \A x : x # nm => Named(x)' = Named(x)
    BY <2>1, <2>2 DEF Named
  <2>5. \A h \in Named(nm) : [name |-> nm, token |-> h.token, period |-> period] \in hbs'
    BY <2>1, <2>2 DEF Named
  <2> QED BY <1>2, <2>3, <2>4, <2>5
<1> QED BY <1>1, <1>2

\* The sync and the commands keep apart.
LEMMA OthersApart == ASSUME ImportInv, Reconcile \/ Command PROVE Apart
<1>0. HbSet(hbs)
  BY DEF ImportInv
<1>1. ASSUME NEW nm, NEW token, NEW period, CreateHeartbeat(nm, token, period),
             imp' = imp, moved' = moved \cup {nm}
      PROVE  Apart
  BY <1>0, <1>1, HeartbeatCreated DEF Apart
<1>2. ASSUME imp' = imp, moved \subseteq moved', hbs' = hbs PROVE Apart
  BY <1>0, <1>2 DEF Apart, HbSet, Named
<1>3. ASSUME NEW nm, SyncHeartbeat(nm) PROVE Apart
  BY <1>1, <1>3 DEF SyncHeartbeat
<1>4. ASSUME NEW nm, NEW period, cmdHeartbeatAdd(nm, period) PROVE Apart
  BY <1>1, <1>4 DEF cmdHeartbeatAdd, Touches
<1>5. ASSUME NEW nm, PingCreates(nm) PROVE Apart
  BY <1>1, <1>5 DEF PingCreates, Touches
<1>6. CASE cmdHeartbeatRemove
  <2>1. imp' = imp /\ moved' = moved \cup {op.name} /\ hbs' = hbs \ Named(op.name)
    BY <1>6 DEF cmdHeartbeatRemove, Touches
  <2>2. HbSet(hbs)'
    BY <1>0, <2>1 DEF HbSet
  <2>3. \A x : x # op.name => Named(x)' = Named(x)
    BY <2>1 DEF Named
  <2> QED BY <2>1, <2>2, <2>3 DEF Apart
<1>7. CASE Reconcile
  <2>1. \/ \E nm : SyncHeartbeat(nm)
        \/ imp' = imp /\ moved' = moved /\ hbs' = hbs
    <3>1. ASSUME NEW f, SyncBegin(f) PROVE imp' = imp /\ moved' = moved /\ hbs' = hbs
      BY <3>1 DEF SyncBegin, store
    <3>2. ASSUME NEW n, SyncLookup(n) PROVE imp' = imp /\ moved' = moved /\ hbs' = hbs
      BY <3>2 DEF SyncLookup, store, others
    <3>3. Fails => imp' = imp /\ moved' = moved /\ hbs' = hbs
      BY DEF Fails, store, others
    <3>4. ASSUME NEW n, SyncPrune(n) PROVE imp' = imp /\ moved' = moved /\ hbs' = hbs
      BY <3>3, <3>4 DEF SyncPrune, UpdateJob, others
    <3>5. SyncJob => imp' = imp /\ moved' = moved /\ hbs' = hbs
      BY <3>3 DEF SyncJob, CreateJob, UpdateJob, others
    <3>6. ASSUME NEW c, SyncSecret(c) PROVE imp' = imp /\ moved' = moved /\ hbs' = hbs
      BY <3>3, <3>6 DEF SyncSecret, store, others
    <3>7. SyncChannel => imp' = imp /\ moved' = moved /\ hbs' = hbs
      BY DEF SyncChannel, StoreCreateChannel, others
    <3>8. ASSUME NEW r, SyncRuleLookup(r) PROVE imp' = imp /\ moved' = moved /\ hbs' = hbs
      BY <3>3, <3>8 DEF SyncRuleLookup, store, others
    <3>9. ASSUME NEW e, SyncRule(e) PROVE imp' = imp /\ moved' = moved /\ hbs' = hbs
      BY <3>9 DEF SyncRule, CreateRule, others
    <3>10. SyncGoesOn \/ SyncFails => imp' = imp /\ moved' = moved /\ hbs' = hbs
      BY DEF SyncGoesOn, SyncFails, store, others
    <3> QED BY <1>7, <3>1, <3>2, <3>4, <3>5, <3>6, <3>7, <3>8, <3>9, <3>10 DEF Reconcile
  <2> QED BY <1>2, <1>3, <2>1
<1>8. CASE Command
  <2>1. CASE HeartbeatCommand
    <3>1. ASSUME NEW nm, HeartbeatRead(nm) PROVE Apart
      BY <1>2, <3>1 DEF HeartbeatRead, Reads, store
    <3> QED BY <1>4, <1>5, <1>6, <2>1, <3>1 DEF HeartbeatCommand
  <2>2. CASE ~HeartbeatCommand
    <3>1. imp' = imp /\ moved \subseteq moved' /\ hbs' = hbs
      BY <1>8, <2>2 DEF Command, cmdJobAdd, CreateJob, JobRead, Reads, cmdJobRm, StoreDeleteJob, cmdJobToggle,
         UpdateJob, cmdChannelAdd, StoreCreateChannel, RuleRead, cmdRuleAdd, CreateRule, cmdSecretSet, Touches, store
    <3> QED BY <1>2, <3>1
  <2> QED BY <2>1, <2>2
<1> QED BY <1>7, <1>8

\* The plan an import follows, and the entry it is at.
LEMMA AtEntry ==
    ASSUME ImportInv, Clean, Importing, NEW E, Followed(E)
    PROVE  /\ DOMAIN imp.plan = 1..Len(imp.plan) /\ Len(imp.plan) \in Nat
           /\ imp.at \in DOMAIN imp.plan /\ imp.checks \in CheckLists
           /\ Len(imp.plan) = Len(imp.checks)
           /\ imp.plan = Plan(imp.checks, E, imp.paused) /\ HbSet(E)
           /\ Action = Decide(imp.checks[imp.at], E, Before(imp.plan, imp.at), imp.paused)
<1>1. imp.checks \in CheckLists /\ imp.at \in Nat /\ imp.at >= 1 /\ imp.at <= Len(imp.plan)
  BY DEF ImportInv, ImportType, Clean, Importing
<1>2. Len(imp.checks) \in Nat
  BY <1>1, CheckFacts DEF ImportInv
<1>3. imp.plan = Plan(imp.checks, E, imp.paused) /\ HbSet(E)
  BY DEF Followed
<1>4. /\ Len(imp.plan) = Len(imp.checks) /\ DOMAIN imp.plan = 1..Len(imp.checks)
      /\ \A i \in 1..Len(imp.checks) :
            imp.plan[i] = Decide(imp.checks[i], E, Before(imp.plan, i), imp.paused)
  BY <1>2, <1>3, PlanEntries
<1> QED BY <1>1, <1>2, <1>3, <1>4 DEF Action

\* The import gets past an entry: what it leaves is what the entry stands for, and
\* the entries before it are of other heartbeats.
LEMMA Advance ==
    ASSUME ImportInv, Clean, Importing, NEW E, Followed(E), Step, moved' = moved,
           \A x : x # Action.name \/ Action.op \notin {"create", "update"} => Named(x)' = Named(x),
           Action.op # "skip" /\ Action.name \notin moved => Rec(Action) \in hbs'
    PROVE  Followed(E)'
<1>1. /\ DOMAIN imp.plan = 1..Len(imp.plan) /\ Len(imp.plan) \in Nat
      /\ imp.at \in DOMAIN imp.plan /\ imp.checks \in CheckLists
      /\ imp.plan = Plan(imp.checks, E, imp.paused) /\ HbSet(E)
  BY AtEntry
<1>2. /\ imp'.pc = imp.pc /\ imp'.checks = imp.checks /\ imp'.paused = imp.paused /\ imp'.plan = imp.plan
      /\ imp'.at = imp.at + 1 /\ imp'.failed = imp.failed
  <2>1. imp' = [pc |-> imp.pc, checks |-> imp.checks, paused |-> imp.paused, plan |-> imp.plan,
                at |-> imp.at + 1, failed |-> imp.failed]
    BY DEF Step, ImportInv, ImportType
  <2> QED BY <2>1
<1>3. \A i \in DOMAIN imp.plan : i < imp.at + 1 <=> (i < imp.at \/ i = imp.at)
  BY <1>1
<1>4. ASSUME NEW i \in DOMAIN imp.plan, i < imp.at, imp.plan[i].op # "skip", imp.plan[i].name \notin moved
      PROVE  Rec(imp.plan[i]) \in hbs'
  <2>1. Rec(imp.plan[i]) \in hbs /\ Rec(imp.plan[i]).name = imp.plan[i].name
    BY <1>4 DEF Followed, Rec
  <2>2. Action.op \notin {"create", "update"} \/ imp.plan[i].name # Action.name
    <3>1. ~Ambiguous(imp.checks) /\ ImportAssumption
      BY DEF Clean, ImportInv
    <3> QED BY <1>1, <1>4, <3>1, PlanDistinct DEF Action
  <2> HIDE DEF Rec
  <2>3. Rec(imp.plan[i]) \in Named(imp.plan[i].name)
    BY <2>1 DEF Named
  <2> QED BY <2>2, <2>3 DEF Named
<1>5. ASSUME NEW i \in DOMAIN imp.plan, i = imp.at, imp.plan[i].op # "skip", imp.plan[i].name \notin moved
      PROVE  Rec(imp.plan[i]) \in hbs'
  BY <1>5 DEF Action
<1>6. ASSUME NEW x, x \notin moved, ~Behind(x)' PROVE Named(x)' = {h \in E : h.name = x}
  <2>1. ~Behind(x)
    BY <1>2, <1>3, <1>6 DEF Behind
  <2>2. x # Action.name \/ Action.op \notin {"create", "update"}
    BY <1>1, <1>2, <1>3, <1>6 DEF Behind, Action
  <2> QED BY <1>6, <2>1, <2>2 DEF Followed
<1>7. ASSUME NEW i \in DOMAIN imp'.plan, i < imp'.at, imp'.plan[i].op # "skip", imp'.plan[i].name \notin moved'
      PROVE  Rec(imp'.plan[i]) \in hbs'
  BY <1>2, <1>3, <1>4, <1>5, <1>7
<1>8. HbSet(E)' /\ imp'.plan = Plan(imp'.checks, E, imp'.paused)
  BY <1>1, <1>2 DEF HbSet
<1> QED BY <1>6, <1>7, <1>8 DEF Followed, Rec

\* The import gets past an entry: the rest of the invariant.
LEMMA StepType ==
    ASSUME ImportInv, Importing, NEW fl,
           imp' = [pc |-> imp.pc, checks |-> imp.checks, paused |-> imp.paused, plan |-> imp.plan,
                   at |-> imp.at + 1, failed |-> fl]
    PROVE  ImportType' /\ imp'.failed = fl /\ imp'.pc = imp.pc /\ imp'.checks = imp.checks
<1>1. /\ imp'.pc = imp.pc /\ imp'.checks = imp.checks /\ imp'.paused = imp.paused /\ imp'.plan = imp.plan
      /\ imp'.at = imp.at + 1 /\ imp'.failed = fl
  OBVIOUS
<1>2. imp.pc = "writing" /\ imp.at \in Nat /\ imp.checks \in CheckLists
  BY DEF ImportInv, ImportType, Importing
<1>3. imp' = [pc |-> imp'.pc, checks |-> imp'.checks, paused |-> imp'.paused, plan |-> imp'.plan,
              at |-> imp'.at, failed |-> imp'.failed]
  BY <1>1
<1> QED BY <1>1, <1>2, <1>3 DEF ImportType

\* A step that ends well keeps the failure flag.
LEMMA StepIs ==
    ASSUME ImportInv, Importing, Step
    PROVE  ImportType' /\ (Clean' => Clean)
<1>1. imp' = [pc |-> imp.pc, checks |-> imp.checks, paused |-> imp.paused, plan |-> imp.plan,
              at |-> imp.at + 1, failed |-> imp.failed]
  BY DEF ImportInv, ImportType, Step
<1>2. ImportType' /\ imp'.failed = imp.failed /\ imp'.pc = imp.pc /\ imp'.checks = imp.checks
  BY <1>1, StepType
<1>3. Clean' => Clean
  BY <1>2, Zenon DEF Clean
<1> QED BY <1>2, <1>3

\* An entry that writes: nothing was there, or the heartbeat with its token.
LEMMA ImportWriteKeeps == ASSUME ImportInv, ImportWrite PROVE ImportInv'
<1>1. /\ Importing /\ Step /\ moved' = moved /\ Action.op \in {"create", "update"}
      /\ CreateHeartbeat(Action.name, Action.token, Action.period)
  BY DEF ImportWrite
<1>2. ImportType' /\ (Clean' => Clean)
  BY <1>1, StepIs
<1>3. /\ HbSet(hbs)'
      /\ \A x : x # Action.name => Named(x)' = Named(x)
      /\ Named(Action.name) = {} => Rec(Action) \in hbs'
      /\ \A h \in Named(Action.name) : [name |-> Action.name, token |-> h.token, period |-> Action.period] \in hbs'
  BY <1>1, HeartbeatCreated DEF ImportInv, Rec
<1>4. ASSUME NEW E, Followed(E), Clean PROVE Followed(E)'
  <2>1. ASSUME Action.name \notin moved PROVE Rec(Action) \in hbs'
    <3>1. ~Behind(Action.name)
      <4>1. ~Ambiguous(imp.checks) /\ ImportAssumption
        BY <1>4 DEF Clean, ImportInv
      <4>2. \A i \in DOMAIN imp.plan : i < imp.at /\ imp.plan[i].op # "skip" => imp.plan[i].name # Action.name
        BY <1>1, <1>4, <4>1, AtEntry, PlanDistinct DEF Action
      <4> QED BY <4>2 DEF Behind
    <3>2. Named(Action.name) = {h \in E : h.name = Action.name}
      BY <1>4, <2>1, <3>1 DEF Followed
    <3>3. \/ Action.op = "create" /\ Action.name \notin Taken(E)
          \/ \E h \in E : h.token = Action.token /\ h.name = Action.name
      BY <1>1, <1>4, AtEntry, DecideCases
    <3>4. CASE Action.name \notin Taken(E)
      BY <1>3, <3>2, <3>4 DEF Taken
    <3>5. ASSUME NEW h \in E, h.token = Action.token, h.name = Action.name PROVE Rec(Action) \in hbs'
      <4>1. h \in Named(Action.name)
        BY <3>2, <3>5
      <4> QED BY <1>3, <3>5, <4>1 DEF Rec
    <3> QED BY <3>3, <3>4, <3>5
  <2> QED BY <1>1, <1>3, <1>4, <2>1, Advance
<1> QED BY <1>2, <1>3, <1>4 DEF ImportInv

\* An entry that has nothing to write: the heartbeat is as the check says.
LEMMA ImportPassKeeps == ASSUME ImportInv, ImportPass PROVE ImportInv'
<1>1. Importing /\ Step /\ moved' = moved /\ hbs' = hbs /\ Action.op \in {"skip", "unchanged"}
  BY DEF ImportPass, store
<1>2. ImportType' /\ (Clean' => Clean)
  BY <1>1, StepIs
<1>3. HbSet(hbs)' /\ \A x : Named(x)' = Named(x)
  BY <1>1 DEF ImportInv, HbSet, Named
<1>4. ASSUME NEW E, Followed(E), Clean PROVE Followed(E)'
  <2>1. ASSUME Action.op # "skip", Action.name \notin moved PROVE Rec(Action) \in hbs'
    <3>1. ~Behind(Action.name)
      <4>1. ~Ambiguous(imp.checks) /\ ImportAssumption
        BY <1>4 DEF Clean, ImportInv
      <4>2. \A i \in DOMAIN imp.plan : i < imp.at /\ imp.plan[i].op # "skip" => imp.plan[i].name # Action.name
        BY <1>1, <1>4, <2>1, <4>1, AtEntry, PlanDistinct DEF Action
      <4> QED BY <4>2 DEF Behind
    <3>2. Named(Action.name) = {h \in E : h.name = Action.name}
      BY <1>4, <2>1, <3>1 DEF Followed
    <3>3. PICK h \in E : h.token = Action.token /\ h.name = Action.name /\ h.period = Action.period
      BY <1>1, <1>4, <2>1, AtEntry, DecideCases
    <3>4. h = Rec(Action)
      BY <1>4, <3>3 DEF Followed, HbSet, Rec
    <3> QED BY <1>1, <3>2, <3>3, <3>4 DEF Named
  <2> QED BY <1>1, <1>3, <1>4, <2>1, Advance
<1> QED BY <1>2, <1>3, <1>4 DEF ImportInv

\* A write that fails: the property asks nothing any more.
LEMMA ImportWriteFailsKeeps == ASSUME ImportInv, ImportWriteFails PROVE ImportInv'
<1>1. Importing /\ hbs' = hbs /\ imp' = [imp EXCEPT !.at = @ + 1, !.failed = TRUE]
  BY DEF ImportWriteFails, store
<1>2. imp' = [pc |-> imp.pc, checks |-> imp.checks, paused |-> imp.paused, plan |-> imp.plan,
              at |-> imp.at + 1, failed |-> TRUE]
  BY <1>1 DEF ImportInv, ImportType
<1>3. ImportType' /\ imp'.failed = TRUE
  BY <1>1, <1>2, StepType
<1>4. ~Clean'
  BY <1>3, Zenon DEF Clean
<1> QED BY <1>1, <1>3, <1>4 DEF ImportInv, HbSet

\* The answer of the API.
LEMMA ImportFetchKeeps ==
    ASSUME ImportInv, NEW checks \in CheckLists, NEW p, ImportFetch(checks, p)
    PROVE  ImportInv'
<1>1. /\ imp' = [pc |-> "fetched", checks |-> checks, paused |-> p, plan |-> <<>>, at |-> 1, failed |-> FALSE]
      /\ hbs' = hbs
  BY DEF ImportFetch, NoImport, store
<1>2. /\ imp'.pc = "fetched" /\ imp'.checks = checks /\ imp'.paused = p /\ imp'.plan = <<>>
      /\ imp'.at = 1 /\ imp'.failed = FALSE
  BY <1>1
<1>3. ImportType'
  BY <1>1, <1>2 DEF ImportType
<1>4. ~Clean'
  BY <1>2 DEF Clean
<1> QED BY <1>1, <1>3, <1>4 DEF ImportInv, HbSet

\* No import, or one that is killed.
LEMMA NoImportKeeps ==
    ASSUME ImportAssumption, imp = NoImport, HbSet(hbs)
    PROVE  ImportInv
<1>1. imp.pc = "idle" /\ imp.at = 1
  BY DEF NoImport
<1>2. ImportType
  BY <1>1 DEF ImportType, NoImport
<1>3. ~Clean
  BY <1>1 DEF Clean
<1> QED BY <1>2, <1>3 DEF ImportInv

\* The plan is for the heartbeats of the moment.
LEMMA ImportPlanKeeps == ASSUME ImportInv, ImportPlan PROVE ImportInv'
<1>1. hbs' = hbs /\ moved' = {} /\ imp.pc = "fetched"
  BY DEF ImportPlan, store
<1>2. HbSet(hbs) /\ HbSet(hbs)' /\ ImportAssumption
  BY <1>1 DEF ImportInv, HbSet
<1>3. CASE imp' = NoImport
  <2>1. imp'.pc = "idle" /\ imp'.at = 1
    BY <1>3 DEF NoImport
  <2>2. ImportType'
    BY <1>3, <2>1 DEF ImportType, NoImport
  <2>3. ~Clean'
    BY <2>1 DEF Clean
  <2> QED BY <1>2, <2>2, <2>3 DEF ImportInv
<1>4. CASE imp' = [imp EXCEPT !.pc = "writing", !.plan = Plan(imp.checks, hbs, imp.paused)]
  <2>1. PICK plan : plan = Plan(imp.checks, hbs, imp.paused)
    OBVIOUS
  <2>2. imp' = [pc |-> "writing", checks |-> imp.checks, paused |-> imp.paused, plan |-> plan,
                at |-> imp.at, failed |-> imp.failed]
    BY <1>4, <2>1 DEF ImportInv, ImportType
  <2>3. /\ imp'.pc = "writing" /\ imp'.checks = imp.checks /\ imp'.paused = imp.paused /\ imp'.plan = plan
        /\ imp'.at = imp.at /\ imp'.failed = imp.failed
    BY <2>2
  <2>4. imp.at = 1 /\ imp.checks \in CheckLists
    BY <1>1 DEF ImportInv, ImportType
  <2>5. ImportType'
    <3>1. imp' = [pc |-> imp'.pc, checks |-> imp'.checks, paused |-> imp'.paused, plan |-> imp'.plan,
                  at |-> imp'.at, failed |-> imp'.failed]
      BY <2>2, <2>3
    <3> QED BY <2>3, <2>4, <3>1 DEF ImportType
  <2>6. \A i \in DOMAIN plan : ~(i < 1)
    <3>1. Len(imp.checks) \in Nat
      BY <1>2, <2>4, CheckFacts
    <3> QED BY <2>1, <3>1, PlanEntries
  <2>7. Followed(hbs)'
    <3>1. \A x : Named(x)' = {h \in hbs' : h.name = x}
      BY DEF Named
    <3>2. imp'.plan = Plan(imp'.checks, hbs', imp'.paused)
      BY <1>1, <2>1, <2>3
    <3> QED BY <1>2, <2>3, <2>4, <2>6, <3>1, <3>2 DEF Followed
  <2>8. Clean' => \E E : Followed(E)'
    BY <2>7
  <2> QED BY <1>2, <2>5, <2>8 DEF ImportInv
<1> QED BY <1>3, <1>4 DEF ImportPlan

\* The end of the plan.
LEMMA ImportEndsKeeps == ASSUME ImportInv, ImportEnds PROVE ImportInv'
<1>1. /\ imp.pc = "writing" /\ imp.at > Len(imp.plan) /\ hbs' = hbs /\ moved' = moved
      /\ imp' = [imp EXCEPT !.pc = "done"]
  BY DEF ImportEnds, store
<1>2. imp' = [pc |-> "done", checks |-> imp.checks, paused |-> imp.paused, plan |-> imp.plan,
              at |-> imp.at, failed |-> imp.failed]
  BY <1>1 DEF ImportInv, ImportType
<1>3. /\ imp'.pc = "done" /\ imp'.checks = imp.checks /\ imp'.paused = imp.paused /\ imp'.plan = imp.plan
      /\ imp'.at = imp.at /\ imp'.failed = imp.failed
  BY <1>2
<1>4. ImportType'
  <2>1. imp' = [pc |-> imp'.pc, checks |-> imp'.checks, paused |-> imp'.paused, plan |-> imp'.plan,
                at |-> imp'.at, failed |-> imp'.failed]
    BY <1>2, <1>3
  <2> QED BY <1>1, <1>3, <2>1 DEF ImportInv, ImportType
<1>5. Clean' => Clean
  BY <1>1, <1>3, Zenon DEF Clean
<1>6. ASSUME NEW E, Followed(E) PROVE Followed(E)'
  BY <1>1, <1>3, <1>6 DEF Followed, Behind, Named, HbSet, Rec
<1>7. HbSet(hbs)'
  BY <1>1 DEF ImportInv, HbSet
<1> QED BY <1>4, <1>5, <1>6, <1>7 DEF ImportInv

\* A kill.
LEMMA ImportKilledKeeps == ASSUME ImportInv, ImportKilled PROVE ImportInv'
<1>1. hbs' = hbs /\ imp' = NoImport
  BY DEF ImportKilled, store
<1>2. imp'.pc = "idle" /\ imp'.at = 1
  BY <1>1 DEF NoImport
<1>3. ImportType'
  BY <1>1, <1>2 DEF ImportType, NoImport
<1>4. ~Clean'
  BY <1>2 DEF Clean
<1> QED BY <1>1, <1>3, <1>4 DEF ImportInv, HbSet

\* No heartbeats and no import, to begin with.
LEMMA ImportStarts == ImportAssumption /\ SyncInit => ImportInv
BY NoImportKeeps DEF SyncInit, HbSet

\* Every step keeps the invariant.
LEMMA ImportStep == ImportInv /\ [SyncNext]_syncVars => ImportInv'
<1> SUFFICES ASSUME ImportInv, [SyncNext]_syncVars PROVE ImportInv'
  OBVIOUS
<1>1. CASE UNCHANGED syncVars
  <2>1. imp' = imp /\ moved' = moved /\ hbs' = hbs
    BY <1>1 DEF syncVars, store
  <2>2. Apart
    BY <2>1 DEF Apart, ImportInv, HbSet, Named
  <2> QED BY <2>2, ApartKeeps
<1>2. CASE Reconcile \/ Command
  BY <1>2, OthersApart, ApartKeeps
<1>3. CASE Import
  BY <1>3, ImportFetchKeeps, ImportPlanKeeps, ImportWriteKeeps, ImportPassKeeps, ImportWriteFailsKeeps,
     ImportEndsKeeps, ImportKilledKeeps DEF Import
<1> QED BY <1>1, <1>2, <1>3 DEF SyncNext

\* What an entry that is not skipped says: its check's UUID and period.
LEMMA EntryFacts ==
    ASSUME ImportAssumption, NEW checks \in CheckLists, NEW E, NEW p, NEW plan, plan = Plan(checks, E, p),
           NEW i \in 1..Len(checks), plan[i].op # "skip"
    PROVE  plan[i].token = checks[i].uuid /\ plan[i].period = MapTiming(checks[i]) /\ checks[i].uuid # Nil
<1>1. plan[i] = Decide(checks[i], E, Before(plan, i), p)
  BY CheckFacts, PlanEntries
<1> QED BY <1>1, DecideCases DEF Passed

\* Importing again, when nobody wrote a heartbeat meanwhile: the first entry with
\* something to do would be for a check that the import has written already, or
\* for a name that is still taken.
LEMMA AgainNothing ==
    ASSUME ImportInv, Clean, imp.pc = "done", moved = {}, NEW E, Followed(E),
           NEW again, again = Plan(imp.checks, hbs, imp.paused)
    PROVE  \A i \in DOMAIN again : again[i].op \in {"unchanged", "skip"}
<1>0. PICK p, plan : p = imp.paused /\ plan = imp.plan
  OBVIOUS
<1>1. PICK checks \in CheckLists, n \in Nat :
          /\ checks = imp.checks /\ p = imp.paused /\ plan = imp.plan /\ n = Len(checks)
  <2>1. imp.checks \in CheckLists
    BY DEF ImportInv, ImportType
  <2>2. Len(imp.checks) \in Nat
    BY <2>1, CheckFacts DEF ImportInv
  <2> QED BY <1>0, <2>1, <2>2
<1>2. ImportAssumption /\ HbSet(hbs) /\ HbSet(E) /\ plan = Plan(checks, E, p) /\ again = Plan(checks, hbs, p)
  BY <1>1 DEF ImportInv, Followed
<1>3. /\ Len(plan) = n /\ DOMAIN plan = 1..n
      /\ \A i \in 1..n : plan[i] = Decide(checks[i], E, Before(plan, i), p)
  BY <1>1, <1>2, PlanEntries
<1>4. /\ DOMAIN again = 1..n
      /\ \A i \in 1..n : again[i] = Decide(checks[i], hbs, Before(again, i), p)
  BY <1>1, <1>2, PlanEntries
<1>5. \A i \in 1..n : i < imp.at
  BY <1>1, <1>3 DEF ImportInv, ImportType
<1>6. ASSUME NEW i \in 1..n, plan[i].op # "skip"
      PROVE  \E h \in hbs : h.name = plan[i].name /\ h.token = checks[i].uuid /\ h.period = MapTiming(checks[i])
  <2>1. Rec(plan[i]) \in hbs
    BY <1>1, <1>3, <1>5, <1>6 DEF Followed
  <2>2. plan[i].token = checks[i].uuid /\ plan[i].period = MapTiming(checks[i])
    BY <1>1, <1>2, <1>6, EntryFacts
  <2>3. /\ Rec(plan[i]).name = plan[i].name /\ Rec(plan[i]).token = plan[i].token
        /\ Rec(plan[i]).period = plan[i].period
    BY DEF Rec
  <2> QED BY <2>1, <2>2, <2>3
<1>7. ASSUME NEW h \in hbs PROVE h \in E \/ \E i \in 1..n : plan[i].op # "skip" /\ h.token = checks[i].uuid
  <2>1. CASE Behind(h.name)
    <3>1. PICK i \in 1..n : plan[i].op # "skip" /\ plan[i].name = h.name
      BY <1>1, <1>3, <2>1 DEF Behind
    <3>2. PICK g \in hbs : g.name = h.name /\ g.token = checks[i].uuid
      BY <1>6, <3>1
    <3>3. g = h
      BY <1>2, <3>2 DEF HbSet
    <3> QED BY <3>1, <3>2, <3>3
  <2>2. CASE ~Behind(h.name)
    <3>1. Named(h.name) = {g \in E : g.name = h.name}
      BY <2>2 DEF Followed
    <3> QED BY <3>1 DEF Named
  <2> QED BY <2>1, <2>2
<1>8. Taken(E) \subseteq Taken(hbs)
  <2> SUFFICES ASSUME NEW h \in E PROVE h.name \in Taken(hbs)
    BY DEF Taken
  <2>1. CASE Behind(h.name)
    <3>1. PICK i \in 1..n : plan[i].op # "skip" /\ plan[i].name = h.name
      BY <1>1, <1>3, <2>1 DEF Behind
    <3> QED BY <1>6, <3>1 DEF Taken
  <2>2. CASE ~Behind(h.name)
    <3>1. Named(h.name) = {g \in E : g.name = h.name}
      BY <2>2 DEF Followed
    <3> QED BY <3>1 DEF Named, Taken
  <2> QED BY <2>1, <2>2
<1> DEFINE T == {i \in 1..n : again[i].op \notin {"unchanged", "skip"}}
<1>9. T = {}
  <2> SUFFICES ASSUME T # {} PROVE FALSE
    OBVIOUS
  <2>1. T \in SUBSET Nat
    OBVIOUS
  <2>2. PICK i \in T : \A j \in T : i <= j
    <3> HIDE DEF T
    <3> QED BY <2>1, LeastNatural
  <2>3. i \in 1..n /\ again[i].op \notin {"unchanged", "skip"}
    BY <2>2
  <2>4. \A j \in 1..(i - 1) : j \in 1..n /\ again[j].op \in {"unchanged", "skip"}
    <3> SUFFICES ASSUME NEW j \in 1..(i - 1) PROVE j \in 1..n /\ again[j].op \in {"unchanged", "skip"}
      OBVIOUS
    <3>1. j \in 1..n /\ ~(i <= j)
      BY <2>3
    <3>2. j \notin T
      BY <2>2, <3>1
    <3> QED BY <3>1, <3>2
  <2> HIDE DEF T
  <2>5. PICK c, a, b : c = checks[i] /\ a = again[i] /\ b = plan[i]
    OBVIOUS
  <2>6. Planned(Before(again, i)) \subseteq Taken(hbs)
    <3> SUFFICES ASSUME NEW j \in 1..(i - 1), again[j].op # "skip" PROVE again[j].name \in Taken(hbs)
      BY DEF Planned, Before
    <3>1. j \in 1..n /\ again[j].op = "unchanged"
      BY <2>4
    <3>2. \E h \in hbs : h.name = again[j].name
      BY <1>4, <3>1, DecideCases
    <3> QED BY <3>2 DEF Taken
  <2>7. NewName(c, hbs, Before(again, i)) = NameOf(c)
    BY <2>6 DEF NewName
  <2>8. /\ ~Passed(c, p)
        /\ \/ a.op = "update" /\ a.period = MapTiming(c)
              /\ \E h \in hbs : h.token = c.uuid /\ h.period # MapTiming(c)
           \/ (\A h \in hbs : h.token # c.uuid) /\ NameOf(c) \notin Taken(hbs)
    BY <1>4, <2>3, <2>5, <2>7, DecideCases
  <2>9. c.uuid # Random /\ c.uuid # Nil
    BY <1>1, <1>2, <2>3, <2>5, <2>8, CheckFacts DEF Passed
  <2>10. CASE b.op # "skip"
    <3>1. PICK h \in hbs : h.token = c.uuid /\ h.period = MapTiming(c)
      BY <1>6, <2>3, <2>5, <2>10
    <3>2. \A g \in hbs : g.token = c.uuid => g = h
      BY <1>2, <2>9, <3>1 DEF HbSet
    <3> QED BY <2>8, <3>1, <3>2
  <2>11. CASE b.op = "skip"
    <3>1. (\A h \in E : h.token # c.uuid) /\ NewName(c, E, Before(plan, i)) \in Taken(E)
      BY <1>3, <2>3, <2>5, <2>8, <2>11, DecideCases
    <3>2. ASSUME NEW h \in hbs, h.token = c.uuid PROVE FALSE
      <4>1. PICK j \in 1..n : plan[j].op # "skip" /\ h.token = checks[j].uuid
        BY <1>7, <3>1, <3>2
      <4>2. i = j
        BY <1>1, <1>2, <2>3, <2>5, <2>9, <3>2, <4>1, CheckFacts
      <4> QED BY <2>5, <2>11, <4>1, <4>2
    <3>3. NameOf(c) \in Taken(hbs)
      <4>1. CASE NameOf(c) \in Planned(Before(plan, i)) \ Taken(E)
        <5>1. PICK j \in 1..(i - 1) : plan[j].op # "skip" /\ plan[j].name = NameOf(c)
          BY <4>1 DEF Planned, Before
        <5>2. j \in 1..n
          BY <2>3
        <5> QED BY <1>6, <5>1, <5>2 DEF Taken
      <4>2. CASE NameOf(c) \notin Planned(Before(plan, i)) \ Taken(E)
        BY <1>8, <3>1, <4>2 DEF NewName
      <4> QED BY <4>1, <4>2
    <3> QED BY <2>8, <3>2, <3>3
  <2> QED BY <2>10, <2>11
<1> QED BY <1>4, <1>9

\* At the end every entry is behind.
LEMMA InvReaches == ImportInv => ImportReaches
<1> SUFFICES ASSUME ImportInv, imp.pc = "done", ~imp.failed, ~Ambiguous(imp.checks)
             PROVE  /\ \A i \in DOMAIN imp.plan :
                          imp.plan[i].op # "skip" /\ imp.plan[i].name \notin moved => Rec(imp.plan[i]) \in hbs
                    /\ moved = {} => \A i \in DOMAIN Plan(imp.checks, hbs, imp.paused) :
                                        Plan(imp.checks, hbs, imp.paused)[i].op \in {"unchanged", "skip"}
  BY DEF ImportReaches, Rec
<1>1. Clean
  BY DEF Clean
<1>2. PICK E : Followed(E)
  BY <1>1 DEF ImportInv
<1>3. \A i \in DOMAIN imp.plan : i < imp.at
  <2>1. Len(imp.checks) \in Nat
    BY CheckFacts DEF ImportInv, ImportType
  <2>2. DOMAIN imp.plan = 1..Len(imp.plan) /\ Len(imp.plan) \in Nat
    BY <1>2, <2>1, PlanEntries DEF Followed
  <2> QED BY <2>2 DEF ImportInv, ImportType
<1>4. \A i \in DOMAIN imp.plan :
          imp.plan[i].op # "skip" /\ imp.plan[i].name \notin moved => Rec(imp.plan[i]) \in hbs
  BY <1>2, <1>3 DEF Followed
<1>5. PICK again : again = Plan(imp.checks, hbs, imp.paused)
  OBVIOUS
<1>6. moved = {} => \A i \in DOMAIN again : again[i].op \in {"unchanged", "skip"}
  BY <1>1, <1>2, <1>5, AgainNothing
<1> QED BY <1>4, <1>5, <1>6

\* "Clients move over by changing only the base of their ping URL": after an
\* import without failures, whatever the checks, the heartbeats there were and the
\* syncs and commands that ran meanwhile, the UUID of every check it did not skip
\* is the token of a heartbeat with the check's period, unless someone wrote that
\* heartbeat; and if nobody wrote one, importing again has nothing to do.
THEOREM ImportKeepsURLs == ImportAssumption /\ SyncSpec => []ImportReaches
BY ImportStarts, ImportStep, InvReaches, PTL DEF SyncSpec
=============================================================================
