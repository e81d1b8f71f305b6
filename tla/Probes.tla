-------------------------------- MODULE Probes --------------------------------
(***************************************************************************)
(* The probes (internal/jobs/probe*.go): how a certificate, a domain's     *)
(* registration and a configured date are judged as time passes; the RDAP  *)
(* bootstrap file that every domain probe of the process shares, fetched,  *)
(* stamped and stored by concurrent probes; and the STARTTLS exchange of a *)
(* tls probe with a server that may say anything, at any length.           *)
(***************************************************************************)
EXTENDS Integers, FiniteSetsExt

CONSTANTS
    Day, WarnDays,       \* units of time in a day; warn_days
    Num, Den,            \* renew_after_fraction, as Num/Den (Num = 0: off)
    RenewalGraceMax,
    Lifetimes,           \* lifetimes of the certificates explored
    Domains,             \* the concurrent domain probes
    TTL,                 \* rdapBootstrapTTL
    MaxLines,            \* maxStartTLSLines
    MaxTime, MaxChanges,
    None

(* What the constants are assumed to be. *)
ProbesAssumption ==
    /\ {WarnDays, Num, RenewalGraceMax, MaxTime, MaxChanges} \subseteq Nat
    /\ {Day, Den, TTL, MaxLines} \subseteq Nat \ {0}
    /\ Lifetimes \subseteq Nat

VARIABLES
    kind,     \* the probe explored: "tls" (cert, talk), "domain" (date) or "rdap" (held, dom)
    now,
    cert,     \* the certificate served: [nb, na, chainUntil]
    date,     \* the date a domain's registry, or an expiry job, gives; lapsed or not
    changes,  \* certificates and dates replaced so far
    held,     \* rdapBootstraps: the copy held, [fetched, asOf], or None
    dom,      \* the domain probes
    talk      \* the STARTTLS exchange

vars == <<kind, now, cert, date, changes, held, dom, talk>>

-----------------------------------------------------------------------------
(* Judging *)

Clamp(t, lo, hi) == Max({lo, Min({t, hi})})

(* renewalDue: when the renewal is due, and the grace allowed past that. *)
RenewalDue(c) == c.nb + ((c.na - c.nb) * Num) \div Den
RenewalGrace(c) == Min({RenewalGraceMax, (c.na - c.nb) \div 10})

(* Not part of the specification: a certificate in its last moment is taken  *)
(* neither as in force nor as expired.                                       *)
CertProblemsGap(c, t) ==
    LET left == c.na - t
    IN (IF t < c.nb THEN {"early"}
        ELSE IF left < 0 THEN {"expired"}
        ELSE IF left > 0 /\ left <= WarnDays * Day THEN {"soon"} ELSE {})
       \cup (IF Num > 0 /\ c.na > c.nb /\ left > 0 /\ t >= c.nb
                /\ t > RenewalDue(c) + RenewalGrace(c) THEN {"renewal"} ELSE {})
       \cup (IF Clamp(t, c.nb, c.na) > c.chainUntil THEN {"chain"} ELSE {})

(* checkCertificate: every problem of certificate c at time t.  The chain is *)
(* judged at a moment inside the leaf's own validity.                        *)
CertProblems(c, t) ==
    LET left == c.na - t
    IN (IF t < c.nb THEN {"early"}
        ELSE IF left <= 0 THEN {"expired"}
        ELSE IF left <= WarnDays * Day THEN {"soon"} ELSE {})
       \cup (IF Num > 0 /\ c.na > c.nb /\ left > 0 /\ t >= c.nb
                /\ t > RenewalDue(c) + RenewalGrace(c) THEN {"renewal"} ELSE {})
       \cup (IF Clamp(t, c.nb, c.na) > c.chainUntil THEN {"chain"} ELSE {})

(* judgeExpiry *)
JudgeExpiry(d, t) ==
    IF d - t <= 0 THEN {"expired"} ELSE IF d - t <= WarnDays * Day THEN {"soon"} ELSE {}

(* checkDomain: an answer without a date, or with a lapsed status, fails. *)
CheckDomain(d, t) ==
    (IF d.on = None THEN {"undated"} ELSE JudgeExpiry(d.on, t))
    \cup (IF d.lapsed THEN {"lapsed"} ELSE {})

Problems(t) == [tls |-> CertProblems(cert, t) \ {"early"}, domain |-> CheckDomain(date, t)]

-----------------------------------------------------------------------------
Certificates(t) ==
    {c \in [nb : {t, t + 1}, na : {t + l : l \in Lifetimes} \cup {t + 1 + l : l \in Lifetimes},
            chainUntil : {t + 2, t + 100}] : c.na - c.nb \in Lifetimes}
Dates(t) == [on : {None, t + WarnDays * Day + 2}, lapsed : BOOLEAN]

NoCopy == [fetched |-> None, asOf |-> 0]
Idle == [pc |-> "idle", t |-> 0, copy |-> NoCopy, note |-> FALSE]
Silence == [pc |-> "idle", read |-> 0, offered |-> FALSE]

Fresh(kinds) ==
    /\ now = 0 /\ changes = 0
    /\ kind \in kinds
    /\ cert \in IF kind = "tls" THEN Certificates(0) ELSE {[nb |-> 0, na |-> 0, chainUntil |-> 0]}
    /\ date \in IF kind = "domain" THEN Dates(0) ELSE {[on |-> None, lapsed |-> FALSE]}
    /\ held = NoCopy /\ dom = [d \in Domains |-> Idle] /\ talk = Silence

Init == Fresh({"tls", "domain", "rdap"})

Tick == now < MaxTime /\ now' = now + 1 /\ UNCHANGED <<kind, cert, date, changes, held, dom, talk>>

(* The certificate is renewed, the registration extended. *)
Renew ==
    /\ changes < MaxChanges /\ changes' = changes + 1
    /\ \/ kind = "tls" /\ cert' \in Certificates(now) /\ UNCHANGED date
       \/ kind = "domain" /\ date' \in Dates(now) /\ UNCHANGED cert
    /\ UNCHANGED <<kind, now, held, dom, talk>>

-----------------------------------------------------------------------------
(* A domain probe (runOnceDomain, rdapBase) *)

Step(d, r) ==
    /\ kind = "rdap"
    /\ dom' = [dom EXCEPT ![d] = r]
    /\ UNCHANGED <<kind, now, cert, date, changes, talk>>

(* rdapBase reads the clock, and then, under the lock, the copy held. *)
ReadClock(d) ==
    dom[d].pc = "idle" /\ Step(d, [Idle EXCEPT !.pc = "cache", !.t = now]) /\ UNCHANGED held

Stale(copy, t) == copy.fetched = None \/ t - copy.fetched >= TTL \/ t < copy.fetched

ReadCache(d) ==
    /\ dom[d].pc = "cache"
    /\ LET stale == IF held.fetched = None THEN TRUE ELSE Stale(held, dom[d].t)
       IN Step(d, [dom[d] EXCEPT !.pc = IF stale THEN "fetch" ELSE "ask", !.copy = held])
    /\ UNCHANGED held

(* fetchBootstrap: the file as it is now, or a failure: the copy held is     *)
(* then used, with a note, and without one the probe fails.                  *)
Fetch(d) ==
    /\ dom[d].pc = "fetch"
    /\ \/ Step(d, [dom[d] EXCEPT !.pc = "store", !.copy = [fetched |-> None, asOf |-> now]])
       \/ dom[d].copy.fetched # None /\ Step(d, [dom[d] EXCEPT !.pc = "ask", !.note = TRUE])
       \/ dom[d].copy.fetched = None /\ Step(d, Idle)
    /\ UNCHANGED held

(* Not part of the specification: a copy stamped when it is stored. *)
StoreStampedLate(d) ==
    /\ dom[d].pc = "store"
    /\ LET fresh == [dom[d].copy EXCEPT !.fetched = now]
       IN held' = fresh /\ Step(d, [dom[d] EXCEPT !.pc = "ask", !.copy = fresh])

(* The new copy is stamped with the time read before the fetch, and stored   *)
(* under the lock, over whatever another probe stored meanwhile.             *)
Store(d) ==
    /\ dom[d].pc = "store"
    /\ LET fresh == [dom[d].copy EXCEPT !.fetched = dom[d].t]
       IN held' = fresh /\ Step(d, [dom[d] EXCEPT !.pc = "ask", !.copy = fresh])

(* getRDAP: the registry's answer is judged, or the request failed. *)
Ask(d) == dom[d].pc = "ask" /\ Step(d, Idle) /\ UNCHANGED held

-----------------------------------------------------------------------------
(* STARTTLS (fetchChain, startTLSSMTP, startTLSIMAP) *)

Say(r) == kind = "tls" /\ talk' = r /\ UNCHANGED <<kind, now, cert, date, changes, held, dom>>

Connect == talk.pc = "idle" /\ \E p \in {"greeting", "hello"} : Say([Silence EXCEPT !.pc = p])

(* Not part of the specification: the lines of a reply are not held to a     *)
(* number (the count starts over, which keeps the state finite).             *)
SMTPLineUnbounded ==
    /\ talk.pc \in {"greeting", "ehlo", "starttls"}
    /\ \/ \E o \in {FALSE, talk.pc = "ehlo"} :
            Say([talk EXCEPT !.offered = @ \/ o, !.read = (@ + 1) % MaxLines])
       \/ Say([talk EXCEPT !.pc = "failed"])

(* A line of an SMTP reply (readSMTPReply): it may continue the reply, for   *)
(* MaxLines lines at most; be its last line, with the code wanted, and maybe *)
(* with more behind it in the buffer; or be anything else.                   *)
SMTPLine ==
    /\ talk.pc \in {"greeting", "ehlo", "starttls"}
    /\ \E o \in {FALSE, talk.pc = "ehlo"}, more \in BOOLEAN :
        LET offered == talk.offered \/ o
            after == CASE talk.pc = "greeting" -> "ehlo"
                       [] talk.pc = "ehlo" -> IF offered THEN "starttls" ELSE "failed"
                       [] OTHER -> IF more THEN "failed" ELSE "handshake"
        IN \/ Say([talk EXCEPT !.pc = IF talk.read + 1 = MaxLines THEN "failed" ELSE @,
                               !.read = @ + 1, !.offered = offered])
           \/ Say([talk EXCEPT !.pc = after, !.read = 0, !.offered = offered])
           \/ Say([talk EXCEPT !.pc = "failed"])

(* A line from an IMAP server: its greeting; then untagged data, for         *)
(* MaxLines lines at most, the tagged answer, or anything else.              *)
IMAPLine ==
    \/ talk.pc = "hello" /\ \E p \in {"imap", "failed"} : Say([talk EXCEPT !.pc = p])
    \/ /\ talk.pc = "imap"
       /\ \/ Say([talk EXCEPT !.pc = IF talk.read + 1 = MaxLines THEN "failed" ELSE @, !.read = @ + 1])
          \/ \E p \in {"handshake", "failed"} : Say([talk EXCEPT !.pc = p])

(* The handshake ends, or the exchange failed: the connection is closed. *)
Hangup == talk.pc \in {"handshake", "failed"} /\ Say(Silence)

Next ==
    \/ Tick \/ Renew \/ Connect \/ SMTPLine \/ IMAPLine \/ Hangup
    \/ \E d \in Domains : ReadClock(d) \/ ReadCache(d) \/ Fetch(d) \/ Store(d) \/ Ask(d)

Spec == Init /\ [][Next]_vars

(* The probe reads what the server keeps sending. *)
Fairness == WF_vars(SMTPLine \/ IMAPLine)
FairSpec == Spec /\ Fairness

-----------------------------------------------------------------------------
(* Properties *)

(* An alarm once raised holds: a certificate, or a registration, that a      *)
(* probe fails for is failed by every later probe until it is replaced; the  *)
(* cases (due for renewal, expiring soon, expired) leave no gap between them.*)
AlarmHolds ==
    [][ /\ (cert' = cert /\ Problems(now).tls # {}) => Problems(now)'.tls # {}
        /\ (date' = date /\ Problems(now).domain # {}) => Problems(now)'.domain # {} ]_vars

(* A domain probe that does not say so never looks its registry up in a      *)
(* bootstrap file older than a day, however concurrent probes fetch, stamp   *)
(* and store it.                                                             *)
BootstrapFresh ==
    \A d \in Domains : (dom[d].pc = "ask" /\ ~dom[d].note) => dom[d].t - dom[d].copy.asOf < TTL

(* A server that never stops talking cannot keep a tls probe going: the      *)
(* STARTTLS exchange comes to its end, line by line.                         *)
TalkEnds ==
    (talk.pc \in {"greeting", "ehlo", "starttls", "hello", "imap"})
        ~> (talk.pc \in {"idle", "handshake", "failed"})
=============================================================================
