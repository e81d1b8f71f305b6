------------------------------- MODULE Capture -------------------------------
(***************************************************************************)
(* Output capture and redaction (internal/jobs/capture.go, probe.go,       *)
(* drill.go, executor.go, runner.go; internal/pingexec): a command prints, *)
(* in writes of any size, into the three captures of bounded size the      *)
(* executor uses and the one of tend exec; what is stored is cut to size   *)
(* and has the job's secrets replaced by "***".                            *)
(*                                                                         *)
(* A captured text is a sequence of positions of the printed text, so that *)
(* a byte that is stored is known by where it was printed: 0 stands for a  *)
(* byte of "***" or of a marker, -1 for U+FFFD.  Characters are one byte   *)
(* long, or the two bytes Lead Cont.                                       *)
(***************************************************************************)
EXTENDS Integers, Sequences, FiniteSetsExt, SequencesExt

CONSTANTS
    Letters,     \* one-byte characters
    Lead, Cont,  \* the two bytes of a longer character
    NUL,         \* the byte captures drop
    SecretSets,  \* the sets of secrets explored: texts, as sequences of bytes
    Limit,       \* bytes of output kept (maxOutputBytes, drillStepOutput, ...)
    MaxPrinted,  \* bound on what is printed
    Chunks       \* sizes of the writes

CaptureAssumption ==
    /\ Limit \in Nat \ {0} /\ MaxPrinted \in Nat /\ Chunks \subseteq Nat \ {0}
    /\ {Lead, Cont, NUL} \cap Letters = {}
    /\ \A S \in SecretSets : \A v \in S : v # <<>> /\ NUL \notin {v[i] : i \in DOMAIN v}

VARIABLES
    secrets,   \* the plaintext values of the job's secrets
    printed,   \* what the command has printed, NUL bytes left out
    capped,    \* cappedBuffer: [buf, truncated]
    ends,      \* headTail: [head, ring, pos, rest]
    tail       \* tailBuffer of tend exec

vars == <<secrets, printed, capped, ends, tail>>

Bytes == Letters \cup {Lead, Cont, NUL}
First(s, n) == SubSeq(s, 1, n)
Last_(s, n) == SubSeq(s, Len(s) - n + 1, Len(s))

(* What is at place i of a captured text, and where a secret occurs in it.  *)
Is(s, i, x) == s[i] > 0 /\ printed[s[i]] = x
OccursAt(s, v, i) ==
    /\ i + Len(v) - 1 <= Len(s)
    /\ \A k \in 1..Len(v) : Is(s, i + k - 1, v[k])

-----------------------------------------------------------------------------
(* The captures *)

(* secretMargin: a capture keeps the longest secret's length past its cut. *)
SecretMargin == Max({0} \cup {Len(v) : v \in secrets})
Keep == Limit + SecretMargin

Init ==
    /\ secrets \in SecretSets
    /\ printed = <<>>
    /\ capped = [buf |-> <<>>, truncated |-> FALSE]
    /\ ends = [head |-> <<>>, ring |-> [i \in 0..(Keep - 1) |-> 0], pos |-> 0, rest |-> 0]
    /\ tail = <<>>

(* cappedBuffer.Write *)
CappedWrite(c, p) ==
    LET room == Keep - Len(c.buf)
    IN IF room > 0
       THEN IF Len(p) > room
            THEN [buf |-> c.buf \o First(p, room), truncated |-> TRUE]
            ELSE [c EXCEPT !.buf = @ \o p]
       ELSE [c EXCEPT !.truncated = @ \/ Len(p) > 0]

(* Not part of the specification: a ring whose position is not reset by  *)
(* a write that fills it.                                                    *)
HeadTailWriteFromStart(h, p) ==
    LET k == Min({Keep - Len(h.head), Len(p)})
        q == Last_(p, Len(p) - k)
    IN IF q = <<>> THEN [h EXCEPT !.head = @ \o First(p, k)]
       ELSE IF Len(q) >= Keep
       THEN [head |-> h.head \o First(p, k), rest |-> h.rest + Len(q), pos |-> h.pos,
             ring |-> [i \in 0..(Keep - 1) |-> Last_(q, Keep)[i + 1]]]
       ELSE [head |-> h.head \o First(p, k), rest |-> h.rest + Len(q),
             pos |-> (h.pos + Len(q)) % Keep,
             ring |-> [i \in 0..(Keep - 1) |->
                         LET o == (i - h.pos + Keep) % Keep
                         IN IF o < Len(q) THEN q[o + 1] ELSE h.ring[i]]]

(* headTail.Write: the head fills up first, the rest goes round the ring. *)
HeadTailWrite(h, p) ==
    LET k == Min({Keep - Len(h.head), Len(p)})
        q == Last_(p, Len(p) - k)
    IN IF q = <<>> THEN [h EXCEPT !.head = @ \o First(p, k)]
       ELSE IF Len(q) >= Keep
       THEN [head |-> h.head \o First(p, k), rest |-> h.rest + Len(q), pos |-> 0,
             ring |-> [i \in 0..(Keep - 1) |-> Last_(q, Keep)[i + 1]]]
       ELSE [head |-> h.head \o First(p, k), rest |-> h.rest + Len(q),
             pos |-> (h.pos + Len(q)) % Keep,
             ring |-> [i \in 0..(Keep - 1) |->
                         LET o == (i - h.pos + Keep) % Keep
                         IN IF o < Len(q) THEN q[o + 1] ELSE h.ring[i]]]

(* tailBuffer.Write, of tend exec. *)
TailWrite(t, p) ==
    IF Len(p) >= Limit THEN Last_(p, Limit)
    ELSE LET all == t \o p IN IF Len(all) > Limit THEN Last_(all, Limit) ELSE all

(* The command writes p; every capture drops its NUL bytes (withoutNULs).    *)
Write(p) ==
    LET q == SelectSeq(p, LAMBDA x : x # NUL)
        at == [i \in 1..Len(q) |-> Len(printed) + i]
    IN /\ Len(printed) + Len(q) <= MaxPrinted
       /\ printed' = printed \o q
       /\ capped' = CappedWrite(capped, at)
       /\ ends' = HeadTailWrite(ends, at)
       /\ tail' = TailWrite(tail, at)
       /\ UNCHANGED secrets

Next == \E n \in Chunks : \E p \in [1..n -> Bytes] : Write(p)

Spec == Init /\ [][Next]_vars

-----------------------------------------------------------------------------
(* Cutting and redacting what was captured *)

(* trimPartialRune, and its counterpart at the start of a text. *)
TrimEnd(s) == IF s # <<>> /\ Is(s, Len(s), Lead) THEN First(s, Len(s) - 1) ELSE s
TrimStart(s) ==
    LET n == Max({k \in 0..Len(s) : \A i \in 1..k : Is(s, i, Cont)})
    IN Last_(s, Len(s) - n)

(* Not part of the specification: a cut at Limit whatever it goes through. *)
HeadOfPlain(b, n, lost) ==
    IF Len(b) <= n THEN (IF lost THEN TrimEnd(b) ELSE b) ELSE TrimEnd(First(b, n))

(* headOf: the first n bytes, extended to the end of a secret across that    *)
(* point.                                                                    *)
HeadOf(b, n, lost) ==
    IF Len(b) <= n THEN (IF lost THEN TrimEnd(b) ELSE b)
    ELSE LET across == {i + Len(v) - 1 : <<v, i>> \in
                          {<<v, i>> \in secrets \X (1..n) : i + Len(v) - 1 > n /\ OccursAt(b, v, i)}}
             end == Max({n} \cup across)
         IN IF end = n THEN TrimEnd(First(b, n)) ELSE First(b, end)

(* Not part of the specification: a start that falls where it falls. *)
TailOfPlain(b, n, lost) ==
    IF Len(b) <= n THEN b
    ELSE LET at == Len(b) - n
             across == {i \in 1..at : \E v \in secrets : i + Len(v) - 1 > at /\ OccursAt(b, v, i)}
         IN SubSeq(b, Min({at + 1} \cup across), Len(b))

(* tailOf: the last n bytes, from the start of a secret across that point. *)
TailOf(b, n, lost) ==
    IF Len(b) <= n THEN (IF lost THEN TrimStart(b) ELSE b)
    ELSE LET at == Len(b) - n
             across == {i \in 1..at : \E v \in secrets : i + Len(v) - 1 > at /\ OccursAt(b, v, i)}
             from == Min({at + 1} \cup across)
         IN IF from = at + 1 THEN TrimStart(Last_(b, n)) ELSE SubSeq(b, from, Len(b))

(* redact: every run of bytes that secrets cover becomes one "***". *)
Redact(s) ==
    LET cov == UNION {i..(i + Len(v) - 1) : <<v, i>> \in
                        {<<v, i>> \in secrets \X (1..Len(s)) : OccursAt(s, v, i)}}
        out[i \in 0..Len(s)] ==
            IF i = 0 THEN <<>>
            ELSE out[i - 1] \o (IF i \notin cov THEN <<s[i]>>
                                ELSE IF i - 1 \in cov THEN <<>> ELSE <<0, 0, 0>>)
    IN out[Len(s)]

(* cleanOutput: each run of bytes that are not valid UTF-8 becomes U+FFFD. *)
Clean(s) ==
    LET bad == {i \in 1..Len(s) :
                  \/ Is(s, i, Lead) /\ (i = Len(s) \/ ~Is(s, i + 1, Cont))
                  \/ Is(s, i, Cont) /\ (i = 1 \/ ~Is(s, i - 1, Lead))}
        out[i \in 0..Len(s)] ==
            IF i = 0 THEN <<>>
            ELSE out[i - 1] \o (IF i \notin bad THEN <<s[i]>>
                                ELSE IF i - 1 \in bad THEN <<>> ELSE <<-1>>)
    IN out[Len(s)]

FirstBytes(s, n) == IF Len(s) <= n THEN s ELSE TrimEnd(First(s, n))
LastBytes(s, n) == IF Len(s) <= n THEN s ELSE TrimStart(Last_(s, n))

(* shellOutput, then storedOutput and capOutput: what a shell job stores. *)
StoredOutput ==
    LET raw == IF capped.truncated THEN HeadOf(capped.buf, Limit, TRUE) ELSE capped.buf
        out == Redact(Clean(raw))
    IN FirstBytes(out, Limit)

(* cutRedacted: what is stored of an expiry command's stderr. *)
CutRedacted == FirstBytes(Redact(HeadOf(capped.buf, Limit, capped.truncated)), Limit)

(* The ring, unrolled. *)
RingTail ==
    IF ends.rest <= Keep THEN [i \in 1..ends.rest |-> ends.ring[i - 1]]
    ELSE [i \in 1..Keep |-> ends.ring[(ends.pos + i - 1) % Keep]]

(* headTail.text: the two ends of a drill step's output, around a marker. *)
DrillText ==
    IF ends.rest <= Keep
    THEN LET whole == Redact(ends.head \o RingTail)
         IN IF Len(whole) <= 2 * Limit THEN whole
            ELSE TrimEnd(First(whole, Limit)) \o <<0>> \o TrimStart(Last_(whole, Limit))
    ELSE FirstBytes(Redact(HeadOf(ends.head, Limit, TRUE)), Limit) \o <<0>>
         \o LastBytes(Redact(TailOf(RingTail, Limit, TRUE)), Limit)

(* tailBuffer.Bytes *)
TailBytes == TrimStart(tail)

-----------------------------------------------------------------------------
(* Properties *)

(* Places of the printed text that a secret covers. *)
Whole == [i \in 1..Len(printed) |-> i]
SecretPlaces ==
    UNION {i..(i + Len(v) - 1) : <<v, i>> \in
             {<<v, i>> \in secrets \X (1..Len(printed)) : OccursAt(Whole, v, i)}}
Shown(s) == {s[i] : i \in 1..Len(s)} \ {0, -1}

(* No byte of a secret the command printed is stored, however the writes     *)
(* fall and wherever the cuts fall: across a secret, between two, inside a   *)
(* character next to one.                                                    *)
NoSecretStored ==
    \A s \in {StoredOutput, CutRedacted, DrillText} : Shown(s) \cap SecretPlaces = {}

(* What is shown of a character the output had whole is all of it. *)
WholeCharacters(s) ==
    LET Split(i) == s[i] > 0 /\ printed[s[i]] = Lead /\ s[i] < Len(printed)
                    /\ printed[s[i] + 1] = Cont /\ (i = Len(s) \/ s[i + 1] # s[i] + 1)
        Bereft(i) == s[i] > 1 /\ printed[s[i]] = Cont /\ printed[s[i] - 1] = Lead
                     /\ (i = 1 \/ s[i - 1] # s[i] - 1)
    IN \A i \in 1..Len(s) : ~Split(i) /\ ~Bereft(i)

(* A capture holds what it says it holds, whatever the sizes of the writes:  *)
(* the start of the output, its end, and between them nothing that was not   *)
(* lost; output within the limits is stored whole but for its secrets; and   *)
(* nothing that is stored, or sent by tend exec, begins or ends inside a     *)
(* character, which a Postgres TEXT column would refuse.                     *)
EndsKept ==
    LET n == Len(printed)
    IN /\ ends.head = First(Whole, Min({n, Keep}))
       /\ ends.rest = n - Len(ends.head)
       /\ RingTail = Last_(Whole, Min({ends.rest, Keep}))
       /\ capped.buf = ends.head /\ capped.truncated = (n > Keep)
       /\ tail = Last_(Whole, Min({n, Limit}))
       /\ (SecretPlaces = {} /\ n <= 2 * Limit) => DrillText = Whole
       /\ (SecretPlaces = {} /\ n <= Limit) => CutRedacted = Whole
       /\ \A s \in {StoredOutput, CutRedacted, DrillText, TailBytes} : WholeCharacters(s)
=============================================================================
