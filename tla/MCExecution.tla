---------------------------- MODULE MCExecution ----------------------------
(***************************************************************************)
(* The execution of a run: what the executor does (module Executor), or    *)
(* what becomes of the output it captures (module Capture).  Neither looks *)
(* at the other's state, so a behaviour explores one of them.              *)
(***************************************************************************)
EXTENDS Executor, Sequences

CONSTANTS Letters, Lead, Cont, NUL, Limit, MaxPrinted, Chunks

VARIABLES secrets, printed, capped, ends, tail, part

captureVars == <<secrets, printed, capped, ends, tail>>

(* Secrets of one and of two characters, one of them longer than a byte. *)
SecretSets == { {<<"a">>}, {<<"a", "a">>, <<Lead, Cont>>} }

C == INSTANCE Capture

ASSUME C!CaptureAssumption

MCInit ==
    \/ part = "executor" /\ Init /\ C!Init /\ secrets = {<<"a">>}
    \/ part = "capture" /\ Ended /\ C!Init

MCNext ==
    \/ part = "executor" /\ Next /\ UNCHANGED <<captureVars, part>>
    \/ part = "capture" /\ C!Next /\ UNCHANGED <<vars, part>>

MCSpec == MCInit /\ [][MCNext]_<<vars, captureVars, part>> /\ Fairness

(* See module Capture: no byte of a secret is stored. *)
NoSecretStored == part = "capture" => C!NoSecretStored

(* See module Capture: the ends of the output are kept. *)
EndsKept == part = "capture" => C!EndsKept
=============================================================================
