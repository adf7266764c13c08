----------------------------- MODULE MCDelivery -----------------------------
(***************************************************************************)
(* Instances for TLC of what is to be delivered after a commit: realtime   *)
(* events, mails, the end of a poll, board wakes, and the wake streams.    *)
(* They share no state: a behaviour runs one of them, the part, and leaves *)
(* the others at their initial state.                                      *)
(***************************************************************************)
EXTENDS MCOutbox, Polls, EmailRetry, WakeBus

\* WakeRetry, whose streams are not those of WakeBus.
CONSTANTS Briefs, Retriers, NoJob, MaxAttempt, MaxWakeFaults

VARIABLES
    part,
    due, body, task, pod, podStream, heard, spent, wakeFaults

Retry == INSTANCE WakeRetry WITH Replicas <- Retriers, stream <- podStream

ASSUME DeliveryAssumption == Retry!RetryAssumption

outboxVars == vars
retryVars == <<due, body, task, pod, podStream, heard, spent, wakeFaults>>

DeliveryInit ==
    /\ part \in {"outbox", "mail", "poll", "retry", "wakes"}
    /\ Init /\ MailInit /\ PollInit /\ Retry!RetryInit /\ BusInit

\* One fault of a dispatcher, of any kind.
OneFault == (faults.overruns + faults.db + faults.crashes)' <= 1

DeliveryNext ==
    /\ UNCHANGED part
    /\ \/ /\ part = "outbox" /\ Next /\ OneFault
          /\ UNCHANGED <<mailVars, pollVars, retryVars, busVars>>
       \/ /\ part = "mail" /\ MailNext
          /\ UNCHANGED <<outboxVars, pollVars, retryVars, busVars>>
       \/ /\ part = "poll" /\ PollNext
          /\ UNCHANGED <<outboxVars, mailVars, retryVars, busVars>>
       \/ /\ part = "retry" /\ Retry!RetryNext
          /\ UNCHANGED <<outboxVars, mailVars, pollVars, busVars>>
       \/ /\ part = "wakes" /\ BusNext
          /\ UNCHANGED <<outboxVars, mailVars, pollVars, retryVars>>

\* The fairness of each module, said of the behaviours that run it.
OutboxFairness ==
    /\ \A w \in Workers : WF_outboxVars(part = "outbox" /\ DrainStep(w))
    /\ \A w \in Workers, r \in Rows :
         WF_outboxVars(part = "outbox" /\ \E f \in flights : f.w = w /\ f.r = r /\ FlightStep(f))
    /\ \A r \in Rows : /\ WF_outboxVars(part = "outbox" /\ LeaseExpires(r))
                       /\ WF_outboxVars(part = "outbox" /\ BackoffElapses(r))

EmailFairness == WF_mailVars(part = "mail" /\ MailProgress)

PollsFairness ==
    /\ WF_pollVars(part = "poll" /\ PollTransactions)
    /\ \A n \in 1 .. MaxEvents :
         /\ WF_pollVars(part = "poll" /\ ~published[n] /\ PublishEvent(n))
         /\ WF_pollVars(part = "poll" /\ ClaimWake(n))
         /\ WF_pollVars(part = "poll" /\ Wakes(n))

RetryFairness == WF_retryVars(part = "retry" /\ Retry!RetryProgress)

DeliverySpec ==
    /\ DeliveryInit /\ [][DeliveryNext]_<<part, outboxVars, mailVars, pollVars, retryVars, busVars>>
    /\ OutboxFairness /\ EmailFairness /\ PollsFairness /\ RetryFairness

\* The state of every part has its type.
DeliveryTypeOK ==
    TypeOK /\ MailTypeOK /\ PollTypeOK /\ Retry!RetryTypeOK /\ BusTypeOK

\* The property of the instance, for the configuration.
AgentIsWoken == Retry!AgentIsWoken
=============================================================================
