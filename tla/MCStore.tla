------------------------------ MODULE MCStore ------------------------------
(***************************************************************************)
(* What the store keeps of heartbeats and runs: the ping log of a          *)
(* heartbeat (module PingLog), its row under racing pings and the watcher  *)
(* (module Heartbeat), or the transactions of the Postgres backend (module *)
(* Postgres).  None looks at another's state, so a behaviour explores one  *)
(* of them, and the others stay where they began.                          *)
(***************************************************************************)
EXTENDS Heartbeat, PingLog, Postgres, TLC

VARIABLE part

MCInit ==
    /\ part \in {"log", "heartbeat", "postgres"}
    /\ LogInit /\ Init /\ PgInit
    /\ part # "postgres" => events = {} /\ \A r \in Runs : db[RunRow(r)].status = "running"

MCNext ==
    \/ part = "log" /\ LogNext /\ UNCHANGED <<vars, pgVars, part>>
    \/ part = "heartbeat" /\ Next /\ UNCHANGED <<logVars, pgVars, part>>
    \/ part = "postgres" /\ PgNext /\ UNCHANGED <<vars, logVars, part>>

MCSpec == MCInit /\ [][MCNext]_<<vars, logVars, pgVars, part>>

(* Ping requests are alike, and so are the sessions of the pool. *)
Alike == Permutations(Requests) \cup Permutations(Sessions)
=============================================================================
