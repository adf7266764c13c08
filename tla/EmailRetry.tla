----------------------------- MODULE EmailRetry -----------------------------
(***************************************************************************)
(* Outgoing e-mail: the row that is written before the first send (the     *)
(* handler of /email/send in router.ts, persistEmailMessage and the reply  *)
(* of email.ts) and the retry worker, src/server/src/email-retry.ts.       *)
(*                                                                         *)
(* next_retry_at is a date to come ("later"), a past one ("now") or NULL   *)
(* ("never").  The provider's answer is "ok" or "fail"; that it drops a    *)
(* second mail with the same idempotency key is its own affair.            *)
(***************************************************************************)
EXTENDS Integers, Sequences, FiniteSets, SequencesExt

CONSTANTS
    Mails,
    MaxBatch,       \* maxBatch of runRetryTick
    BackoffSteps,   \* BACKOFF_STEPS_MS.length
    Ticks,          \* bound: ticks of all replicas that overlap
    MaxMailFaults   \* bound: crashes, failing statements and overrun dates

ASSUME MailAssumption ==
    /\ IsFiniteSet(Mails)
    /\ {MaxBatch, BackoffSteps, Ticks} \subseteq Nat \ {0} /\ MaxMailFaults \in Nat

VARIABLES
    mail,       \* email_messages: transport_status, next_retry_at, retry_attempts
    sender,     \* where the request that wrote the row is
    tick,       \* each tick: the rows it claimed and has not settled, with the
                \* attempts it read, and the answer for the first of them
    tries,      \* sends of the worker, per mail (ghost)
    mailFaults  \* what went wrong so far (ghost)

mailVars == <<mail, sender, tick, tries, mailFaults>>

Answer == {"ok", "fail"}
Copy == [m : Mails, attempts : Nat]

MailTypeOK ==
    /\ mail \in [Mails -> [st : {"none", "sending", "sent", "failed"},
                           next : {"now", "later", "never"}, attempts : Nat]]
    /\ sender \in [Mails -> {"none", "send", "over"} \cup Answer]
    /\ tick \in [1 .. Ticks -> [rows : Seq(Copy), answer : Answer \cup {"none"}]]
    /\ tries \in [Mails -> Nat]
    /\ mailFaults \in [crashes : Nat, db : Nat, overruns : Nat]

MailInit ==
    /\ mail = [m \in Mails |-> [st |-> "none", next |-> "never", attempts |-> 0]]
    /\ sender = [m \in Mails |-> "none"]
    /\ tick = [t \in 1 .. Ticks |-> [rows |-> <<>>, answer |-> "none"]]
    /\ tries = [m \in Mails |-> 0]
    /\ mailFaults = [crashes |-> 0, db |-> 0, overruns |-> 0]

Mishap(kind) ==
    /\ mailFaults.crashes + mailFaults.db + mailFaults.overruns < MaxMailFaults
    /\ mailFaults' = [mailFaults EXCEPT ![kind] = @ + 1]

-----------------------------------------------------------------------------
(* The request *)

\* persistEmailMessage, with the date after which the row counts as crash-stale.
Submit(m) ==
    /\ mail[m].st = "none"
    /\ mail' = [mail EXCEPT ![m].st = "sending", ![m].next = "later"]
    /\ sender' = [sender EXCEPT ![m] = "send"]
    /\ UNCHANGED <<tick, tries, mailFaults>>

\* sendViaProvider never throws.
FirstSend(m) ==
    /\ sender[m] = "send"
    /\ \E answer \in Answer : sender' = [sender EXCEPT ![m] = answer]
    /\ UNCHANGED <<mail, tick, tries, mailFaults>>

\* UPDATE ... WHERE message_id, whatever became of the row since.
FirstSettle(m) ==
    /\ sender[m] \in Answer
    /\ mail' = [mail EXCEPT ![m].st = IF sender[m] = "ok" THEN "sent" ELSE "failed",
                            ![m].next = IF sender[m] = "ok" THEN "never" ELSE "later"]
    /\ sender' = [sender EXCEPT ![m] = "over"]
    /\ UNCHANGED <<tick, tries, mailFaults>>

\* A failing UPDATE is logged and left to the worker.
FirstSettleFails(m) ==
    /\ sender[m] \in Answer
    /\ Mishap("db")
    /\ sender' = [sender EXCEPT ![m] = "over"]
    /\ UNCHANGED <<mail, tick, tries>>

FirstCrash(m) ==
    /\ sender[m] \in Answer \cup {"send"}
    /\ Mishap("crashes")
    /\ sender' = [sender EXCEPT ![m] = "over"]
    /\ UNCHANGED <<mail, tick, tries>>

-----------------------------------------------------------------------------
(* The worker: runRetryTick *)

\* Mutant: a row that a crash left in sending is nobody's.
FailedOnly(m) == mail[m].st = "failed" /\ mail[m].next = "now"

DueForRetry(m) == mail[m].st \in {"failed", "sending"} /\ mail[m].next = "now"

\* Mutant: the date of a claimed row stays where it is.
NotPushed(m) == mail[m].next

\* NOW() + 5 minutes.
Pushed(m) == "later"

\* claimDueRetries, one short transaction: rows locked by another are skipped, the
\* date of the others is pushed, and the claim commits before anything is sent.
ClaimDueRetries(t) ==
    /\ tick[t].rows = <<>> /\ \A u \in 1 .. t - 1 : tick[u].rows # <<>>
    /\ LET due == {m \in Mails : DueForRetry(m)}
       IN  \E batch \in SUBSET due :
             /\ batch # {} /\ Cardinality(batch) <= MaxBatch
             /\ Cardinality(batch) < MaxBatch => batch = due
             /\ \E order \in SetToSeqs(batch) :
                  tick' = [tick EXCEPT ![t].rows =
                    [i \in DOMAIN order |->
                       [m |-> order[i], attempts |-> mail[order[i]].attempts]]]
             /\ mail' = [m \in Mails |->
                           IF m \in batch THEN [mail[m] EXCEPT !.next = Pushed(m)] ELSE mail[m]]
    /\ UNCHANGED <<sender, tries, mailFaults>>

Busy(t) == tick[t].rows # <<>>
Current(t) == Head(tick[t].rows)
NextRow(t) == [rows |-> Tail(tick[t].rows), answer |-> "none"]

\* retryOne: the mail is sent again, without a look at its row.
RetrySend(t) ==
    /\ Busy(t) /\ tick[t].answer = "none"
    /\ \E answer \in Answer : tick' = [tick EXCEPT ![t].answer = answer]
    /\ tries' = [tries EXCEPT ![Current(t).m] = @ + 1]
    /\ UNCHANGED <<mail, sender, mailFaults>>

\* Mutant: the attempt is not counted.
Uncounted(t) == Current(t).attempts

AttemptNumber(t) == Current(t).attempts + 1

NextRetryAt(attempts) == IF attempts >= BackoffSteps THEN "never" ELSE "later"

\* UPDATE ... WHERE message_id, with the number computed from the copy.
RetrySettle(t) ==
    /\ Busy(t) /\ tick[t].answer \in Answer
    /\ mail' = [mail EXCEPT ![Current(t).m] =
         IF tick[t].answer = "ok"
         THEN [st |-> "sent", next |-> "never", attempts |-> AttemptNumber(t)]
         ELSE [st |-> "failed", next |-> NextRetryAt(AttemptNumber(t)),
               attempts |-> AttemptNumber(t)]]
    /\ tick' = [tick EXCEPT ![t] = NextRow(t)]
    /\ UNCHANGED <<sender, tries, mailFaults>>

\* A statement before or after the send throws: the row stays with its date.
RetryThrows(t) ==
    /\ Busy(t)
    /\ Mishap("db")
    /\ tick' = [tick EXCEPT ![t] = NextRow(t)]
    /\ UNCHANGED <<mail, sender, tries>>

TickCrash(t) ==
    /\ Busy(t)
    /\ Mishap("crashes")
    /\ tick' = [tick EXCEPT ![t] = [rows |-> <<>>, answer |-> "none"]]
    /\ UNCHANGED <<mail, sender, tries>>

-----------------------------------------------------------------------------
InHands(m) ==
    \/ sender[m] \in Answer \cup {"send"}
    \/ \E t \in 1 .. Ticks : m \in {tick[t].rows[i].m : i \in DOMAIN tick[t].rows}

\* The date is over; under a sender, or a batch that has not come to the row, this
\* is an overrun: the calls of a whole batch took more than 5 minutes.
DateComes(m) ==
    /\ mail[m].next = "later"
    /\ mail' = [mail EXCEPT ![m].next = "now"]
    /\ IF InHands(m) THEN Mishap("overruns") ELSE UNCHANGED mailFaults
    /\ UNCHANGED <<sender, tick, tries>>

MailProgress ==
    \/ \E m \in Mails : FirstSend(m) \/ FirstSettle(m) \/ (~InHands(m) /\ DateComes(m))
    \/ \E t \in 1 .. Ticks : ClaimDueRetries(t) \/ RetrySend(t) \/ RetrySettle(t)

MailNext ==
    \/ \E m \in Mails : \/ Submit(m) \/ FirstSend(m) \/ FirstSettle(m) \/ FirstSettleFails(m)
                        \/ FirstCrash(m) \/ DateComes(m)
    \/ \E t \in 1 .. Ticks : \/ ClaimDueRetries(t) \/ RetrySend(t) \/ RetrySettle(t)
                             \/ RetryThrows(t) \/ TickCrash(t)

MailSpec == MailInit /\ [][MailNext]_mailVars

\* Awaited calls return, the timer fires, time passes: finitely many steps in all,
\* so fairness to their union is enough.
MailFairness == WF_mailVars(MailProgress)

-----------------------------------------------------------------------------
(* Properties *)

\* A mail is sent again at most BackoffSteps times by the worker, plus one per
\* crash, failing statement or overrun: the count is written after the send from
\* a copy read before it, and the first sender may revive the row (retryOne).
RetryBudget ==
    \A m \in Mails : tries[m] <=
        BackoffSteps + mailFaults.crashes + mailFaults.db + mailFaults.overruns

\* A mail that is sent stays sent: the unguarded updates of the first sender and
\* of overlapping ticks undo it only after an overrun (header of email-retry.ts:
\* each row goes to one replica per tick).
SentStays ==
    [][\A m \in Mails : mail[m].st = "sent" /\ mailFaults.overruns = 0 =>
         mail'[m].st = "sent"]_mailVars

\* Every mail that was written ends sent or given up after its attempts, through
\* crashes between the row and the send and between the send and its record
\* (header: "a process crash could likewise strand a write-first row").
MailSettles ==
    \A m \in Mails : mail[m].st = "sending" ~> mail[m].next = "never"
=============================================================================
