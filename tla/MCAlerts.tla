------------------------------ MODULE MCAlerts ------------------------------
(***************************************************************************)
(* How the failures of a job are announced (module Alerts), or how the     *)
(* rules, jobs and heartbeats get into the store (module Sync).  Neither   *)
(* looks at the other's state, so a behaviour explores one of them; a sync *)
(* and an import are run against commands, not against each other.         *)
(***************************************************************************)
EXTENDS Alerts, Sync

VARIABLE part

(* Two files that disagree about a job, a channel and a rule; one drops a job. *)
Backup ==
    [jobs |-> [n \in {"a"} |-> [def |-> "d1", enabled |-> TRUE]],
     channels |-> [c \in ChannelNames |-> "secret"],
     rules |-> {[channel |-> c, job |-> "a", events |-> {"run.failed", "run.recovered"}, repeat |-> 60] : c \in ChannelNames},
     heartbeats |-> [h \in {<<"x">>} |-> 1], prune |-> TRUE]
Both ==
    [jobs |-> [n \in {"a", "b"} |-> [def |-> "d2", enabled |-> n = "b"]],
     channels |-> [c \in ChannelNames |-> "plain"],
     rules |-> {[channel |-> c, job |-> j, events |-> {"run.failed"}, repeat |-> Nil] : c \in ChannelNames, j \in {"a", ""}},
     heartbeats |-> <<>>, prune |-> FALSE]
TwoFiles == {Backup, Both}

ACheck(slug, uuid, period) ==
    [slug |-> slug, name |-> <<>>, uuid |-> uuid, cron |-> FALSE, timeout |-> period, gaps |-> {}, paused |-> FALSE]

(* Two checks of one name; and a cron check, a paused one without a slug,    *)
(* one whose name is taken and one without a UUID.                           *)
Twins == <<ACheck(<<"x">>, "u", 1), ACheck(<<"x">>, "v", 2)>>
Mixed == <<[ACheck(<<"x">>, "v", 0) EXCEPT !.cron = TRUE, !.gaps = {1, 2}],
           [ACheck(<<>>, "u", 2) EXCEPT !.name = <<"y">>, !.paused = TRUE],
           [ACheck(<<>>, "w", 0) EXCEPT !.cron = TRUE],
           ACheck(<<"x">>, Nil, 1)>>
TwoLists == {Twins, Mixed}
OneSlug == {<<"x">>}

ASSUME SyncAssumed == SyncAssumption /\ ImportAssumption

MCInit ==
    /\ part \in {"alerts", "sync", "import"}
    /\ Init /\ SyncInit
    /\ part # "alerts" => \A c \in Channels : kind[c] = "chat" /\ failed[c] = [s \in Scopes |-> Off]
    /\ part # "sync" => secret = Nil /\ jobs = [n \in JobNames |-> Nil]

MCNext ==
    \/ part = "alerts" /\ Next /\ UNCHANGED <<syncVars, part>>
    \/ part = "sync" /\ (Reconcile \/ Command) /\ UNCHANGED <<vars, part>>
    \/ part = "import" /\ (Import \/ HeartbeatCommand) /\ UNCHANGED <<vars, part>>

MCSpec == MCInit /\ [][MCNext]_<<vars, syncVars, part>> /\ Fairness
=============================================================================
