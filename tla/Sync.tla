-------------------------------- MODULE Sync --------------------------------
(***************************************************************************)
(* How the configuration gets into the store: `tend sync` (Reconcile),     *)
(* `tend import healthchecks`, and the commands an operator runs           *)
(* meanwhile.  None is a transaction: each store call is a step of its     *)
(* own, what was read in one is used in a later one, and any of them may   *)
(* fail or be killed between two and be run again.                         *)
(*                                                                         *)
(* A job is its name, its id and its definition; when it is next due is    *)
(* the subject of module Runner.  Channels are never removed, so a         *)
(* channel's name stands for its id.  Names of heartbeats are sequences:   *)
(* <<s>> is a slug, <<s, u>> the slug with (the start of) UUID u appended, *)
(* <<>> no name.                                                           *)
(***************************************************************************)
EXTENDS Integers, Sequences, FiniteSets, FiniteSetsExt

CONSTANTS
    JobNames,      \* names of jobs
    ChannelNames,  \* names of channels
    Values,        \* values of the secret the channels refer to
    Files,         \* the configuration files `tend sync` may be given
    CheckLists,    \* the answers of the Healthchecks API: sequences of checks
    Slugs,         \* names an operator or a slug ping gives heartbeats
    DefaultPeriod, \* period of a check whose schedule cannot be read
    MaxSyncs,      \* bound: syncs started
    MaxImports,    \* bound: imports started
    MaxOps,        \* bound: commands run meanwhile
    MaxSyncFaults, \* bound: failing calls and kills
    Random,        \* a token drawn at random: no UUID of a check
    Damaged,       \* a definition that cannot be read
    Nil            \* no row, no value, no command

VARIABLES
    jobs,      \* [JobNames -> [id, def, enabled], or Nil]
    lastId,    \* the last job id given out
    secret,    \* the secret's value, or Nil
    channels,  \* [ChannelNames -> its decrypted config, or Nil]
    rules,     \* notification_rules: a function from <<channel, event, job id>> to its repeat
    hbs,       \* heartbeats: a set of [name, token, period]
    sync,      \* the sync: [pc, file, existing, todo, at]
    imp,       \* the import: [pc, checks, paused, plan, failed]
    op,        \* what the command that is running read, or Nil
    touched,   \* history: what others wrote since the sync began
    moved,     \* history: heartbeats others wrote since the import read them
    syncs, imports, ops, syncFaults   \* counted against their bounds

store == <<jobs, lastId, secret, channels, rules, hbs>>
syncVars == <<store, sync, imp, op, touched, moved, syncs, imports, ops, syncFaults>>

AllJobs == ""   \* the scope of a rule without a job

(* A row of table jobs, whoever wrote it. *)
Rows == [id : Nat,
         def : {"added", Damaged} \cup UNION {{f.jobs[n].def : n \in DOMAIN f.jobs} : f \in Files},
         enabled : BOOLEAN]

(* What the parser of the configuration file sees to. *)
SyncAssumption ==
    /\ Nil \notin Rows
    /\ \A f \in Files : /\ \A n \in DOMAIN f.jobs : f.jobs[n].enabled \in BOOLEAN
                        /\ DOMAIN f.channels \subseteq ChannelNames
                        /\ \A r \in f.rules : r.job \in JobNames \cup {AllJobs}

-----------------------------------------------------------------------------
(* Store calls *)

Readable(n) == jobs[n] # Nil /\ jobs[n].def # Damaged

Row(id, spec) == [id |-> id, def |-> spec.def, enabled |-> spec.enabled]

CreateJob(n, spec) ==
    /\ jobs[n] = Nil
    /\ jobs' = [jobs EXCEPT ![n] = Row(lastId + 1, spec)]
    /\ lastId' = lastId + 1
    /\ UNCHANGED <<secret, channels, rules, hbs>>

HasRow(n, id) == jobs[n] # Nil /\ jobs[n].id = id

UpdateJob(n, row) ==
    /\ HasRow(n, row.id)
    /\ jobs' = [jobs EXCEPT ![n] = row]
    /\ UNCHANGED <<lastId, secret, channels, rules, hbs>>

(* The job goes with the rules scoped to it. *)
StoreDeleteJob(n, id) ==
    /\ HasRow(n, id)
    /\ jobs' = [jobs EXCEPT ![n] = Nil]
    /\ rules' = [k \in {k \in DOMAIN rules : k[3] # id} |-> rules[k]]
    /\ UNCHANGED <<lastId, secret, channels, hbs>>

StoreCreateChannel(c, config) ==
    /\ channels' = [channels EXCEPT ![c] = config]
    /\ UNCHANGED <<jobs, lastId, secret, rules, hbs>>

(* Not part of the specification: a conflict leaves the rule as it is. *)
CreateRuleIfAbsent(key, repeat) ==
    /\ rules' = IF key \in DOMAIN rules THEN rules
                ELSE [k \in DOMAIN rules \cup {key} |-> IF k = key THEN repeat ELSE rules[k]]
    /\ UNCHANGED <<jobs, lastId, secret, channels, hbs>>

(* ON CONFLICT DO UPDATE: the rule as given replaces the one with its key. *)
CreateRule(key, repeat) ==
    /\ rules' = [k \in DOMAIN rules \cup {key} |-> IF k = key THEN repeat ELSE rules[k]]
    /\ UNCHANGED <<jobs, lastId, secret, channels, hbs>>

Named(name) == {h \in hbs : h.name = name}

(* A name that is taken keeps its token; a token that is taken is refused. *)
CanCreateHeartbeat(name, token) ==
    Named(name) # {} \/ token = Random \/ \A h \in hbs : h.token # token

CreateHeartbeat(name, token, period) ==
    /\ CanCreateHeartbeat(name, token)
    /\ hbs' = IF Named(name) = {} THEN hbs \cup {[name |-> name, token |-> token, period |-> period]}
              ELSE {IF h.name = name THEN [h EXCEPT !.period = period] ELSE h : h \in hbs}
    /\ UNCHANGED <<jobs, lastId, secret, channels, rules>>

-----------------------------------------------------------------------------
(* tend sync *)

NoSync == [pc |-> "idle", file |-> Nil, existing |-> <<>>, todo |-> {}, at |-> Nil]
Syncing == sync.pc \notin {"idle", "done", "failed"}

others == <<imp, op, touched, moved, syncs, imports, ops>>

(* cmdSync and the ListJobs of reconcileJobs: rows that cannot be read are   *)
(* not listed.                                                               *)
SyncBegin(f) ==
    /\ ~Syncing
    /\ syncs < MaxSyncs
    /\ sync' = [pc |-> "jobs", file |-> f, todo |-> DOMAIN f.jobs, at |-> Nil,
                existing |-> [n \in {n \in JobNames : Readable(n)} |-> jobs[n]]]
    /\ syncs' = syncs + 1
    /\ touched' = {}
    /\ UNCHANGED <<store, imp, op, moved, imports, ops, syncFaults>>

Fails == sync' = [NoSync EXCEPT !.pc = "failed"] /\ UNCHANGED <<store, others, syncFaults>>

(* GetJobByName: a row that cannot be read still has its id. *)
SyncLookup(n) ==
    /\ sync.pc = "jobs" /\ n \in sync.todo
    /\ sync' = [sync EXCEPT !.pc = "job", !.todo = @ \ {n},
                            !.at = [name |-> n, id |-> IF jobs[n] = Nil THEN 0 ELSE jobs[n].id]]
    /\ UNCHANGED <<store, others, syncFaults>>

(* The entry creates its job, or overwrites the row (repairing it). *)
SyncJob ==
    /\ sync.pc = "job"
    /\ LET n == sync.at.name
           id == sync.at.id
           spec == sync.file.jobs[n]
       IN \/ /\ IF id = 0 THEN CreateJob(n, spec) ELSE UpdateJob(n, Row(id, spec))
             /\ sync' = [sync EXCEPT !.pc = "jobs", !.at = Nil]
             /\ UNCHANGED <<others, syncFaults>>
          \/ /\ IF id = 0 THEN jobs[n] # Nil ELSE ~HasRow(n, id)
             /\ Fails

(* Jobs that the sync listed and that are not in the file. *)
Absent ==
    IF sync.file.prune
    THEN {n \in DOMAIN sync.existing \ DOMAIN sync.file.jobs : sync.existing[n].enabled}
    ELSE {}

(* Absent jobs are disabled, with the row as it was listed. *)
SyncPrune(n) ==
    /\ sync.pc = "prune" /\ n \in sync.todo
    /\ \/ /\ UpdateJob(n, [sync.existing[n] EXCEPT !.enabled = FALSE])
          /\ sync' = [sync EXCEPT !.todo = @ \ {n}]
          /\ UNCHANGED <<others, syncFaults>>
       \/ ~HasRow(n, sync.existing[n].id) /\ Fails

(* resolveSecretRefs: a config with a reference takes the secret's value. *)
SyncSecret(c) ==
    /\ sync.pc = "channels" /\ c \in sync.todo
    /\ IF sync.file.channels[c] = "secret" /\ secret = Nil THEN Fails
       ELSE /\ sync' = [sync EXCEPT !.pc = "channel", !.todo = @ \ {c},
                           !.at = [name |-> c, config |-> IF sync.file.channels[c] = "secret" THEN secret
                                                          ELSE sync.file.channels[c]]]
            /\ UNCHANGED <<store, others, syncFaults>>

SyncChannel ==
    /\ sync.pc = "channel"
    /\ StoreCreateChannel(sync.at.name, sync.at.config)
    /\ sync' = [sync EXCEPT !.pc = "channels", !.at = Nil]
    /\ UNCHANGED <<others, syncFaults>>

(* A rule is expanded to one row per event; its job is looked up once. *)
SyncRuleLookup(r) ==
    /\ sync.pc = "rules" /\ r \in sync.todo
    /\ IF r.job # AllJobs /\ ~Readable(r.job) THEN Fails
       ELSE /\ sync' = [sync EXCEPT !.pc = "rule", !.todo = @ \ {r},
                           !.at = [rule |-> r, events |-> r.events,
                                   id |-> IF r.job = AllJobs THEN 0 ELSE jobs[r.job].id]]
            /\ UNCHANGED <<store, others, syncFaults>>

RepeatFor(r, e) == IF e = "run.failed" THEN r.repeat ELSE Nil

SyncRule(e) ==
    /\ sync.pc = "rule" /\ e \in sync.at.events
    /\ CreateRule(<<sync.at.rule.channel, e, sync.at.id>>, RepeatFor(sync.at.rule, e))
    /\ sync' = IF sync.at.events = {e} THEN [sync EXCEPT !.pc = "rules", !.at = Nil]
               ELSE [sync EXCEPT !.at.events = @ \ {e}]
    /\ UNCHANGED <<others, syncFaults>>

SyncHeartbeat(name) ==
    /\ sync.pc = "heartbeats" /\ name \in sync.todo
    /\ CreateHeartbeat(name, Random, sync.file.heartbeats[name])
    /\ sync' = [sync EXCEPT !.todo = @ \ {name}]
    /\ moved' = moved \cup {name}
    /\ UNCHANGED <<imp, op, touched, syncs, imports, ops, syncFaults>>

(* Reconcile's dependency order: jobs, channels, rules, heartbeats. *)
SyncGoesOn ==
    /\ sync.todo = {}
    /\ sync' = CASE sync.pc = "jobs" -> [sync EXCEPT !.pc = "prune", !.todo = Absent]
                 [] sync.pc = "prune" -> [sync EXCEPT !.pc = "channels", !.todo = DOMAIN sync.file.channels]
                 [] sync.pc = "channels" -> [sync EXCEPT !.pc = "rules", !.todo = sync.file.rules]
                 [] sync.pc = "rules" -> [sync EXCEPT !.pc = "heartbeats", !.todo = DOMAIN sync.file.heartbeats]
                 [] sync.pc = "heartbeats" -> [sync EXCEPT !.pc = "done"]
                 [] OTHER -> sync
    /\ sync.pc \in {"jobs", "prune", "channels", "rules", "heartbeats"}
    /\ UNCHANGED <<store, others, syncFaults>>

(* A call fails, no master key is set for the channels, or it is killed. *)
SyncFails ==
    /\ Syncing /\ syncFaults < MaxSyncFaults
    /\ syncFaults' = syncFaults + 1
    /\ sync' = [NoSync EXCEPT !.pc = "failed"]
    /\ UNCHANGED <<store, others>>

Reconcile ==
    \/ \E f \in Files : SyncBegin(f)
    \/ \E n \in JobNames : SyncLookup(n) \/ SyncPrune(n)
    \/ SyncJob
    \/ \E c \in ChannelNames : SyncSecret(c)
    \/ SyncChannel
    \/ sync.pc = "rules" /\ \E r \in sync.todo : SyncRuleLookup(r)
    \/ sync.pc = "rule" /\ \E e \in sync.at.events : SyncRule(e)
    \/ sync.pc = "heartbeats" /\ \E name \in sync.todo : SyncHeartbeat(name)
    \/ SyncGoesOn
    \/ SyncFails

-----------------------------------------------------------------------------
(* Commands, the dashboard and slug pings *)

Touches(items, names) ==
    /\ touched' = touched \cup items
    /\ moved' = moved \cup names
    /\ UNCHANGED <<sync, imp, syncs, imports, syncFaults>>

Counted == ops < MaxOps /\ ops' = ops + 1

(* A command that is over in one call. *)
Alone == op = Nil /\ Counted /\ UNCHANGED op

(* A command that reads now and writes in a later call what it read. *)
Reads(what) ==
    /\ op = Nil /\ Counted
    /\ op' = what
    /\ UNCHANGED <<store, sync, imp, touched, moved, syncs, imports, syncFaults>>

Writes == op' = Nil /\ UNCHANGED ops

cmdJobAdd(n, spec) == Alone /\ CreateJob(n, spec) /\ Touches({<<"job", n>>}, {})

(* Removing a job and enabling or disabling it go by the id that was read. *)
JobRead(n, cmd) ==
    /\ IF cmd = "rm" THEN jobs[n] # Nil ELSE Readable(n)
    /\ Reads([cmd |-> cmd, name |-> n, row |-> jobs[n]])

(* Commands follow each other, and only they remove rows: it is still there. *)
cmdJobRm ==
    /\ op # Nil /\ op.cmd = "rm" /\ Writes
    /\ StoreDeleteJob(op.name, op.row.id)
    /\ Touches({<<"job", op.name>>}, {})

cmdJobToggle ==
    /\ op # Nil /\ op.cmd = "toggle" /\ Writes
    /\ UpdateJob(op.name, [op.row EXCEPT !.enabled = ~@])
    /\ Touches({<<"job", op.name>>}, {})

cmdChannelAdd(c) == Alone /\ StoreCreateChannel(c, "added") /\ Touches({<<"channel", c>>}, {})

cmdSecretSet(v) ==
    /\ Alone /\ secret' = v
    /\ UNCHANGED <<jobs, lastId, channels, rules, hbs>>
    /\ Touches({<<"secret">>}, {})

RuleRead(c, n) ==
    /\ channels[c] # Nil
    /\ n # AllJobs => Readable(n)
    /\ Reads([cmd |-> "rule", channel |-> c, name |-> n, id |-> IF n = AllJobs THEN 0 ELSE jobs[n].id])

cmdRuleAdd ==
    /\ op # Nil /\ op.cmd = "rule" /\ Writes
    /\ CreateRule(<<op.channel, "run.failed", op.id>>, Nil)
    /\ Touches({<<"rule", op.channel, op.name>>}, {})

cmdHeartbeatAdd(name, p) ==
    Alone /\ CreateHeartbeat(name, Random, p) /\ Touches({<<"hb", name>>}, {name})

(* A slug ping: createHeartbeatIfAbsent. *)
PingCreates(name) ==
    /\ Alone /\ Named(name) = {}
    /\ CreateHeartbeat(name, Random, DefaultPeriod)
    /\ Touches({<<"hb", name>>}, {name})

HeartbeatRead(name) == Named(name) # {} /\ Reads([cmd |-> "hbrm", name |-> name])

cmdHeartbeatRemove ==
    /\ op # Nil /\ op.cmd = "hbrm" /\ Writes
    /\ hbs' = hbs \ Named(op.name)
    /\ Touches({<<"hb", op.name>>}, {op.name})
    /\ UNCHANGED <<jobs, lastId, secret, channels, rules>>

Specs == [def : {"added"}, enabled : {TRUE}]

HeartbeatCommand ==
    \/ \E name \in Slugs : cmdHeartbeatAdd(name, DefaultPeriod) \/ PingCreates(name) \/ HeartbeatRead(name)
    \/ cmdHeartbeatRemove

Command ==
    \/ \E n \in JobNames : \/ \E spec \in Specs : cmdJobAdd(n, spec)
                           \/ \E cmd \in {"rm", "toggle"} : JobRead(n, cmd)
    \/ cmdJobRm
    \/ cmdJobToggle
    \/ \E c \in ChannelNames : cmdChannelAdd(c) \/ \E n \in JobNames \cup {AllJobs} : RuleRead(c, n)
    \/ cmdRuleAdd
    \/ \E v \in Values : cmdSecretSet(v)
    \/ HeartbeatCommand

-----------------------------------------------------------------------------
(* tend import healthchecks *)

NoImport == [pc |-> "idle", checks |-> <<>>, paused |-> FALSE, plan |-> <<>>, at |-> 1, failed |-> FALSE]
rest == <<sync, op, syncs, ops>>

(* A check as the API describes it; no two of an answer share a UUID. *)
Check == [slug : Seq(STRING), name : Seq(STRING), uuid : STRING \cup {Nil}, cron : BOOLEAN,
          timeout : Nat, gaps : SUBSET Nat, paused : BOOLEAN]

(* What the import relies on; Random is not the UUID of a check. *)
ImportAssumption ==
    \A checks \in CheckLists :
        /\ checks \in Seq(Check)
        /\ \A i, j \in DOMAIN checks :
              /\ checks[i].uuid # Random
              /\ checks[i].uuid = checks[j].uuid /\ checks[i].uuid # Nil => i = j

(* firstOf(slug, name, UUID); a check without a UUID has one of the others.  *)
NameOf(c) ==
    IF c.slug # <<>> THEN c.slug ELSE IF c.name # <<>> THEN c.name ELSE <<c.uuid>>

(* mapTiming: a cron check's period is the longest gap of its schedule, whose *)
(* gaps are <<>> when it cannot be read.                                      *)
MapTiming(c) ==
    IF ~c.cron THEN c.timeout
    ELSE IF c.gaps = {} THEN DefaultPeriod ELSE Max(c.gaps)

Skip(c, name) == [op |-> "skip", name |-> name, token |-> c.uuid, period |-> 0]

(* What Plan decides for check c, after the actions decided before it. *)
Decide(c, existing, before, includePaused) ==
    LET had == {h \in existing : h.token = c.uuid}
        taken == {h.name : h \in existing}
        planned == {before[i].name : i \in {i \in DOMAIN before : before[i].op # "skip"}}
        name == IF NameOf(c) \in planned \ taken THEN NameOf(c) \o <<c.uuid>> ELSE NameOf(c)
        action == [op |-> "create", name |-> name, token |-> c.uuid, period |-> MapTiming(c)]
    IN IF c.uuid = Nil \/ (c.paused /\ ~includePaused) THEN Skip(c, NameOf(c))
       ELSE IF had # {}
       THEN LET h == CHOOSE h \in had : TRUE
            IN [action EXCEPT !.name = h.name,
                              !.op = IF h.period = MapTiming(c) THEN "unchanged" ELSE "update"]
       ELSE IF name \in taken THEN Skip(c, name) ELSE action

(* Not part of the specification: two checks of one name are not told apart. *)
PlanUnaware(checks, existing, includePaused) ==
    [i \in DOMAIN checks |-> Decide(checks[i], existing, <<>>, includePaused)]

Plan(checks, existing, includePaused) ==
    LET plan[i \in 0..Len(checks)] ==
            IF i = 0 THEN <<>>
            ELSE Append(plan[i - 1], Decide(checks[i], existing, plan[i - 1], includePaused))
    IN plan[Len(checks)]

(* Fetch; the API may also refuse the key, or answer with none of the UUIDs. *)
ImportFetch(checks, includePaused) ==
    /\ imp.pc \in {"idle", "done"} /\ imports < MaxImports
    /\ imp' = [NoImport EXCEPT !.pc = "fetched", !.checks = checks, !.paused = includePaused]
    /\ imports' = imports + 1
    /\ UNCHANGED <<store, rest, touched, moved, syncFaults>>

(* ListHeartbeats, and the plan that follows from it; a dry run ends here. *)
ImportPlan ==
    /\ imp.pc = "fetched"
    /\ \/ imp' = [imp EXCEPT !.pc = "writing", !.plan = Plan(imp.checks, hbs, imp.paused)]
       \/ imp' = NoImport
    /\ moved' = {}
    /\ UNCHANGED <<store, rest, touched, imports, syncFaults>>

Importing == imp.pc = "writing" /\ imp.at <= Len(imp.plan)
Action == imp.plan[imp.at]
Step == imp' = [imp EXCEPT !.at = @ + 1]

ImportWrite ==
    /\ Importing
    /\ Action.op \in {"create", "update"}
    /\ CreateHeartbeat(Action.name, Action.token, Action.period)
    /\ Step
    /\ touched' = touched \cup {<<"hb", Action.name>>}
    /\ UNCHANGED <<rest, moved, imports, syncFaults>>

ImportPass ==
    /\ Importing
    /\ Action.op \in {"skip", "unchanged"}
    /\ Step
    /\ UNCHANGED <<store, rest, touched, moved, imports, syncFaults>>

(* A write that fails is counted and the import goes on.  (A token is only   *)
(* refused when a second import took it since the first one read.)           *)
ImportWriteFails ==
    /\ Importing /\ syncFaults < MaxSyncFaults
    /\ Action.op \in {"create", "update"}
    /\ syncFaults' = syncFaults + 1
    /\ imp' = [imp EXCEPT !.at = @ + 1, !.failed = TRUE]
    /\ UNCHANGED <<store, rest, touched, moved, imports>>

ImportEnds ==
    /\ imp.pc = "writing" /\ imp.at > Len(imp.plan)
    /\ imp' = [imp EXCEPT !.pc = "done"]
    /\ UNCHANGED <<store, rest, touched, moved, imports, syncFaults>>

ImportKilled ==
    /\ imp.pc = "writing" /\ syncFaults < MaxSyncFaults
    /\ syncFaults' = syncFaults + 1
    /\ imp' = NoImport
    /\ UNCHANGED <<store, rest, touched, moved, imports>>

Import ==
    \/ \E checks \in CheckLists, p \in BOOLEAN : ImportFetch(checks, p)
    \/ ImportPlan \/ ImportWrite \/ ImportPass \/ ImportWriteFails \/ ImportEnds \/ ImportKilled

-----------------------------------------------------------------------------
SyncInit ==
    /\ jobs \in [JobNames -> {Nil, [id |-> 1, def |-> Damaged, enabled |-> TRUE]}]
    /\ \A m, n \in JobNames : jobs[m] # Nil /\ jobs[n] # Nil => m = n
    /\ lastId = 1
    /\ secret \in Values \cup {Nil}
    /\ channels = [c \in ChannelNames |-> Nil]
    /\ rules = <<>>
    /\ hbs = {}
    /\ sync = NoSync /\ imp = NoImport /\ op = Nil
    /\ touched = {} /\ moved = {}
    /\ syncs = 0 /\ imports = 0 /\ ops = 0 /\ syncFaults = 0

SyncNext == Reconcile \/ Command \/ Import

SyncSpec == SyncInit /\ [][SyncNext]_syncVars

-----------------------------------------------------------------------------
(* Properties *)

(* What file f says of a row, unless another writer wrote it meanwhile. *)
JobAgrees(f, n) ==
    \/ <<"job", n>> \in touched
    \/ n \in DOMAIN f.jobs /\ jobs[n] # Nil /\ jobs[n] = Row(jobs[n].id, f.jobs[n])
    \/ n \notin DOMAIN f.jobs /\ (f.prune /\ Readable(n) => ~jobs[n].enabled)

ChannelAgrees(f, c) ==
    \/ <<"channel", c>> \in touched
    \/ IF f.channels[c] = "secret" THEN channels[c] = secret \/ <<"secret">> \in touched
       ELSE channels[c] = f.channels[c]

(* The row is what a rule of the file says.  (Nothing refuses a file with    *)
(* two rules for one channel, job and event; the one applied last counts.)   *)
KeyAgrees(f, key, job) ==
    /\ key \in DOMAIN rules
    /\ \E q \in f.rules : /\ q.channel = key[1] /\ q.job = job /\ key[2] \in q.events
                          /\ rules[key] = RepeatFor(q, key[2])

RuleAgrees(f, r) ==
    \/ <<"job", r.job>> \in touched \/ <<"rule", r.channel, r.job>> \in touched
    \/ LET id == IF r.job = AllJobs THEN 0 ELSE jobs[r.job].id
       IN \A e \in r.events : KeyAgrees(f, <<r.channel, e, id>>, r.job)

HeartbeatAgrees(f, name) ==
    \/ <<"hb", name>> \in touched
    \/ \E h \in Named(name) : h.period = f.heartbeats[name]

(***************************************************************************)
(* "Re-running it converges the store to match" (README): when a sync ends *)
(* well, every row of its file is as the file says and jobs absent from it *)
(* are disabled, whatever earlier syncs left half done, a row that could   *)
(* not be read included.  Only a row that another command wrote since the  *)
(* sync began may differ.                                                  *)
(***************************************************************************)
SyncConverges ==
    sync.pc = "done" =>
        LET f == sync.file
        IN /\ \A n \in JobNames : JobAgrees(f, n)
           /\ \A c \in DOMAIN f.channels : ChannelAgrees(f, c)
           /\ \A r \in f.rules : RuleAgrees(f, r)
           /\ \A name \in DOMAIN f.heartbeats : HeartbeatAgrees(f, name)

(* A check is called what renaming another one produces: Plan does not look  *)
(* for that, and both would get the name.                                    *)
Ambiguous(checks) ==
    \E i, j \in DOMAIN checks :
        checks[j].uuid # Nil /\ NameOf(checks[i]) = NameOf(checks[j]) \o <<checks[j].uuid>>

(***************************************************************************)
(* "Clients move over by changing only the base of their ping URL"         *)
(* (hcimport.go): after an import without failures the UUID of every check *)
(* it did not skip is a heartbeat's token, with the check's period, unless *)
(* someone wrote a heartbeat of that name meanwhile; and when nobody did,  *)
(* importing again has nothing to do.                                      *)
(***************************************************************************)
ImportReaches ==
    (imp.pc = "done" /\ ~imp.failed /\ ~Ambiguous(imp.checks)) =>
        /\ \A i \in DOMAIN imp.plan :
              LET a == imp.plan[i]
              IN a.op # "skip" /\ a.name \notin moved =>
                    [name |-> a.name, token |-> a.token, period |-> a.period] \in hbs
        /\ moved = {} =>
              LET again == Plan(imp.checks, hbs, imp.paused)
              IN \A i \in DOMAIN again : again[i].op \in {"unchanged", "skip"}
=============================================================================
