----------------------------- MODULE WakeRetry -----------------------------
(***************************************************************************)
(* The wakes that no message stands behind: briefs of board actions for    *)
(* one managed agent, the start of its pod and the retry queue in Redis    *)
(* (wakeOne, scheduleWakeRetry and _drainWakeRetries of                    *)
(* src/server/src/agents/scheduler.ts).                                    *)
(*                                                                         *)
(* Board wakes name no conversation, so all those of one agent share one   *)
(* retry id: the queue is one member of the sorted set of due dates and    *)
(* one field of the hash of job bodies.                                    *)
(***************************************************************************)
EXTENDS Integers

CONSTANTS
    Briefs,         \* board actions, each with a wakeOne of its own
    Replicas,       \* servers, each with a retry worker
    NoJob,          \* the hash has no such field
    MaxAttempt,     \* WAKE_RETRY_MAX_ATTEMPTS
    MaxWakeFaults   \* bound: failing calls, crashes, streams that go away

Job == [brief : Briefs, attempt : Nat]

RetryAssumption ==
    /\ MaxAttempt \in Nat \ {0} /\ MaxWakeFaults \in Nat
    /\ Briefs \cap Replicas = {} /\ NoJob \notin Job

VARIABLES
    due,        \* the score of the id: none, later, now
    body,       \* the job in the hash
    task,       \* where each wakeOne is, the live ones and those of the workers
    pod,        \* the agent's pod was started
    stream,     \* its wake stream: off, on, or gone with Redis still subscribed
    heard,      \* how often the agent heard of each brief, up to twice (ghost)
    spent,      \* a wake ran out of attempts (ghost)
    wakeFaults  \* what went wrong so far (ghost)

retryVars == <<due, body, task, pod, stream, heard, spent, wakeFaults>>

Tasks == Briefs \cup Replicas

Steps == {"idle", "claim", "get", "del", "deliver", "host", "ensure", "hset", "zadd",
          "wait", "zrem", "hdel", "over"}

\* After a schedule: wait for the pod, return, or return although it failed.
Sequel == {"wait", "return", "ignore"}

RetryTypeOK ==
    /\ due \in {"none", "later", "now"}
    /\ body \in [brief : Briefs, attempt : 1 .. MaxAttempt] \cup {NoJob}
    /\ task \in [Tasks -> [at : Steps, job : Job \cup {NoJob}, then : Sequel]]
    /\ pod \in BOOLEAN /\ stream \in {"off", "on", "gone"}
    /\ heard \in [Briefs -> 0 .. 2]  /\ wakeFaults \in Nat
    /\ spent \in BOOLEAN

RetryInit ==
    /\ due = "none" /\ body = NoJob
    /\ task = [p \in Tasks |-> [at |-> "idle", then |-> "return", job |->
                 IF p \in Briefs THEN [brief |-> p, attempt |-> 0] ELSE NoJob]]
    /\ pod = FALSE /\ stream = "off"
    /\ heard = [b \in Briefs |-> 0]
    /\ spent = FALSE /\ wakeFaults = 0

At(p, step) == task[p].at = step
Goto(p, step) == task' = [task EXCEPT ![p].at = step]

\* A worker is ready for its next batch, a live wake has returned.
End(p) == task' = [task EXCEPT ![p] =
            IF p \in Replicas THEN [at |-> "idle", job |-> NoJob, then |-> "return"]
                              ELSE [@ EXCEPT !.at = "over", !.then = "return"]]

WakeFault == wakeFaults < MaxWakeFaults /\ wakeFaults' = wakeFaults + 1

-----------------------------------------------------------------------------
(* Where a wakeOne comes from *)

\* wakeKanbanAgents.
BoardAction(b) ==
    /\ At(b, "idle")
    /\ Goto(b, "deliver")
    /\ UNCHANGED <<due, body, pod, stream, heard, spent, wakeFaults>>

\* The worker's batch has the id, and its previous batch is over.
ReadBatch(r) ==
    /\ At(r, "idle") /\ due = "now"
    /\ Goto(r, "claim")
    /\ UNCHANGED <<due, body, pod, stream, heard, spent, wakeFaults>>

\* ZREM is the claim, also of an id that was queued again since the batch was read.
ClaimRetry(r) ==
    /\ At(r, "claim")
    /\ due' = "none"
    /\ IF due # "none" THEN Goto(r, "get") ELSE End(r)
    /\ UNCHANGED <<body, pod, stream, heard, spent, wakeFaults>>

\* HGET: without a body there is nothing to run.
GetJob(r) ==
    /\ At(r, "get")
    /\ IF body = NoJob THEN End(r)
                       ELSE task' = [task EXCEPT ![r].at = "del", ![r].job = body]
    /\ UNCHANGED <<due, body, pod, stream, heard, spent, wakeFaults>>

\* HDEL of what the field holds by now, which an error leaves there.
DeleteJob(r) ==
    /\ At(r, "del")
    /\ Goto(r, "deliver")
    /\ \/ body' = NoJob /\ UNCHANGED wakeFaults
       \/ UNCHANGED body /\ WakeFault
    /\ UNCHANGED <<due, pod, stream, heard, spent>>

-----------------------------------------------------------------------------
(* wakeOne *)

\* PUBLISH counts subscribed servers, not streams.
Counted == stream # "off"

Heard(p) ==
    LET b == task[p].job.brief
    IN  heard' = IF stream = "on" /\ heard[b] < 2 THEN [heard EXCEPT ![b] = @ + 1] ELSE heard

Deliver(p) ==
    /\ At(p, "deliver")
    /\ Heard(p)
    /\ IF Counted THEN End(p) ELSE Goto(p, "host")
    /\ UNCHANGED <<due, body, pod, stream, spent, wakeFaults>>

\* scheduleWakeRetry begins.
Queue(p, sequel) == task' = [task EXCEPT ![p].at = "hset", ![p].then = sequel]

\* resolveAgentHost, with the retry of a lookup that failed.
ResolveHost(p) ==
    /\ At(p, "host")
    /\ \/ Goto(p, "ensure") /\ UNCHANGED wakeFaults
       \/ Queue(p, "return") /\ WakeFault
    /\ UNCHANGED <<due, body, pod, stream, heard, spent>>

\* Mutant: a pod that is there needs no health check.
NoHealthCheck(p) == Goto(p, "wait")

HealthCheck(p) == Queue(p, "wait")

\* ensurePod: created or already there, or failed.
EnsurePod(p) ==
    /\ At(p, "ensure")
    /\ \/ pod' = TRUE /\ HealthCheck(p) /\ UNCHANGED wakeFaults
       \/ UNCHANGED pod /\ Queue(p, "return") /\ WakeFault
    /\ UNCHANGED <<due, body, stream, heard, spent>>

Scheduled(p) == IF task[p].then = "wait" THEN Goto(p, "wait") ELSE End(p)

NextAttempt(p) == task[p].job.attempt + 1

\* Mutant: the attempts before this one are compared.
ExhaustedLate(p) == task[p].job.attempt > MaxAttempt

Exhausted(p) == NextAttempt(p) > MaxAttempt

\* An attempt too many deletes the job instead.
PutJob(p) ==
    /\ At(p, "hset")
    /\ IF Exhausted(p)
       THEN body' = NoJob /\ spent' = TRUE /\ Scheduled(p)
       ELSE /\ body' = [task[p].job EXCEPT !.attempt = NextAttempt(p)]
            /\ Goto(p, "zadd")
            /\ UNCHANGED spent
    /\ UNCHANGED <<due, pod, stream, heard, wakeFaults>>

QueueJob(p) ==
    /\ At(p, "zadd")
    /\ due' = "later"
    /\ Scheduled(p)
    /\ UNCHANGED <<body, pod, stream, heard, spent, wakeFaults>>

\* A call throws out of wakeOne: a worker queues its job again, if that does not
\* fail as well, and nobody does it for a live wake.
CallThrows(p) ==
    /\ task[p].at \in {"deliver", "hset", "zadd"}
    /\ WakeFault
    /\ IF p \in Replicas /\ task[p].then # "ignore" THEN Queue(p, "ignore") ELSE End(p)
    /\ UNCHANGED <<due, body, pod, stream, heard, spent>>

\* Every 500 ms of the 20 s after the start of the pod.
Replay(p) ==
    /\ At(p, "wait") /\ Counted
    /\ Heard(p)
    /\ Goto(p, "zrem")
    /\ UNCHANGED <<due, body, pod, stream, spent, wakeFaults>>

GiveUp(p) ==
    /\ At(p, "wait")
    /\ End(p)
    /\ UNCHANGED <<due, body, pod, stream, heard, spent, wakeFaults>>

\* _cancelWakeRetry: of whatever brief the job carries by now; errors are ignored.
CancelMember(p) ==
    /\ At(p, "zrem")
    /\ \/ due' = "none" /\ UNCHANGED wakeFaults
       \/ UNCHANGED due /\ WakeFault
    /\ Goto(p, "hdel")
    /\ UNCHANGED <<body, pod, stream, heard, spent>>

CancelJob(p) ==
    /\ At(p, "hdel")
    /\ \/ body' = NoJob /\ UNCHANGED wakeFaults
       \/ UNCHANGED body /\ WakeFault
    /\ End(p)
    /\ UNCHANGED <<due, pod, stream, heard, spent>>

-----------------------------------------------------------------------------
(* The pod, time, and faults *)

DueComes ==
    /\ due = "later" /\ due' = "now"
    /\ UNCHANGED <<body, task, pod, stream, heard, spent, wakeFaults>>

StreamOpens ==
    /\ pod /\ stream # "on" /\ stream' = "on"
    /\ UNCHANGED <<due, body, task, pod, heard, spent, wakeFaults>>

\* The pod dies under its stream, which the server finds out later.
StreamGoes ==
    /\ stream = "on" /\ stream' = "gone"
    /\ pod' = FALSE
    /\ WakeFault
    /\ UNCHANGED <<due, body, task, heard, spent>>

Unsubscribe ==
    /\ stream = "gone" /\ stream' = "off"
    /\ UNCHANGED <<due, body, task, pod, heard, spent, wakeFaults>>

\* The process of a wake or of a worker dies.
WakeCrash(p) ==
    /\ task[p].at \notin {"idle", "over"}
    /\ WakeFault
    /\ End(p)
    /\ UNCHANGED <<due, body, pod, stream, heard, spent>>

TaskStep(p) ==
    \/ p \in Replicas /\ (ReadBatch(p) \/ ClaimRetry(p) \/ GetJob(p) \/ DeleteJob(p))
    \/ Deliver(p) \/ ResolveHost(p) \/ EnsurePod(p) \/ PutJob(p) \/ QueueJob(p)
    \/ Replay(p) \/ GiveUp(p) \/ CancelMember(p) \/ CancelJob(p)

RetryNext ==
    \/ \E b \in Briefs : BoardAction(b)
    \/ \E p \in Tasks : TaskStep(p) \/ CallThrows(p) \/ WakeCrash(p)
    \/ DueComes \/ StreamOpens \/ StreamGoes \/ Unsubscribe

RetrySpec == RetryInit /\ [][RetryNext]_retryVars

RetryProgress == DueComes \/ \E p \in Tasks : TaskStep(p)

\* Calls return, timers fire: finitely many steps in all, so fairness to their
\* union is enough.  Nothing says that the pod ever comes up.
RetryFairness == WF_retryVars(RetryProgress)

-----------------------------------------------------------------------------
(* Properties *)

\* A board action wakes its agent, if need be through the queue and until the
\* attempts are spent (_shouldRetryEnsurePodFailure: "pokes that explicitly want
\* delivery guarantees"), although the jobs of its wakes overwrite and cancel each
\* other; a fault may lose it.
AgentIsWoken ==
    \A b \in Briefs : At(b, "deliver") ~> \/ \E c \in Briefs : heard[c] > 0
                                          \/ spent \/ wakeFaults > 0

\* _cancelWakeRetry: a job left behind "delivers the same wake a second time", and
\* "every board action on a resting agent ran the whole turn twice": nothing fails,
\* and no brief is heard twice.
HeardOnce == wakeFaults = 0 => \A b \in Briefs : heard[b] <= 1
=============================================================================
