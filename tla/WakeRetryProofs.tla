--------------------------- MODULE WakeRetryProofs ---------------------------
(***************************************************************************)
(* Proofs about the wakes of board actions (WakeRetry), for any number of  *)
(* briefs, retry workers, attempts and faults: whoever is at a step of     *)
(* wakeOne has a job, and as long as nothing fails and the attempts are    *)
(* not spent a wake that nobody heard is in somebody's hands or can be     *)
(* found in the queue.                                                     *)
(***************************************************************************)
EXTENDS WakeRetry, TLAPS

-----------------------------------------------------------------------------
(* Types *)

\* The steps of wakeOne itself, and HDEL before it: they carry a job.
InHand == {"del", "deliver", "host", "ensure", "hset", "zadd", "wait", "zrem", "hdel"}

\* A live wake has its job all the time.
HasJob(p) == task[p].at \in InHand \/ (p \in Briefs /\ task[p].at = "idle") => task[p].job \in Job

Workers == {"claim", "get", "del"}

RetryTyped == /\ RetryTypeOK
              /\ \A p \in Tasks : HasJob(p)
              /\ \A b \in Briefs : task[b].at \notin Workers

TaskState == [at : Steps, job : Job \cup {NoJob}, then : Sequel]

\* What a step that moves p to another step of the same job makes of it.
LEMMA Moved ==
    ASSUME NEW t \in TaskState, NEW at \in Steps
    PROVE  /\ [t EXCEPT !.at = at] \in TaskState
           /\ [t EXCEPT !.at = at].at = at /\ [t EXCEPT !.at = at].job = t.job
           /\ [t EXCEPT !.at = at].then = t.then
<1> QED
  BY DEF TaskState

LEMMA MovedWith ==
    ASSUME NEW t \in TaskState, NEW at \in Steps, NEW then \in Sequel
    PROVE  /\ [t EXCEPT !.at = at, !.then = then] \in TaskState
           /\ [t EXCEPT !.at = at, !.then = then].at = at
           /\ [t EXCEPT !.at = at, !.then = then].job = t.job
<1> QED
  BY Zenon DEF TaskState

\* Task p is at another step with its job, and the others are where they were.
Steps1(p, at) ==
    /\ task' \in [Tasks -> TaskState]
    /\ task'[p].at = at /\ task'[p].job = task[p].job
    /\ \A q \in Tasks \ {p} : task'[q] = task[q]

LEMMA GotoFacts ==
    ASSUME RetryTypeOK, NEW p \in Tasks, NEW at \in Steps, Goto(p, at)
    PROVE  Steps1(p, at)
<1>1. task \in [Tasks -> TaskState] /\ task[p] \in TaskState
  BY DEF RetryTypeOK, TaskState
<1>2. task' = [task EXCEPT ![p] = [task[p] EXCEPT !.at = at]]
  BY Zenon DEF Goto
<1> QED
  BY <1>1, <1>2, Moved DEF Steps1

LEMMA QueueFacts ==
    ASSUME RetryTypeOK, NEW p \in Tasks, NEW sequel \in Sequel, Queue(p, sequel)
    PROVE  Steps1(p, "hset")
<1>1. task \in [Tasks -> TaskState] /\ task[p] \in TaskState /\ "hset" \in Steps
  BY DEF RetryTypeOK, TaskState, Steps
<1>2. task' = [task EXCEPT ![p] = [task[p] EXCEPT !.at = "hset", !.then = sequel]]
  BY <1>1 DEF Queue
<1> DEFINE t == [task[p] EXCEPT !.at = "hset", !.then = sequel]
<1>3. t \in TaskState /\ t.at = "hset" /\ t.job = task[p].job
  BY <1>1, Zenon DEF TaskState
<1>4. task' = [task EXCEPT ![p] = t]
  BY <1>2
<1> HIDE DEF t
<1> QED
  BY <1>1, <1>3, <1>4 DEF Steps1

\* The end of a live wake or of a batch.
Ends(p) ==
    /\ task' \in [Tasks -> TaskState]
    /\ task'[p].at = IF p \in Replicas THEN "idle" ELSE "over"
    /\ \A q \in Tasks \ {p} : task'[q] = task[q]

LEMMA EndFacts ==
    ASSUME RetryTypeOK, NEW p \in Tasks, End(p)
    PROVE  Ends(p)
<1>1. /\ task \in [Tasks -> TaskState] /\ task[p] \in TaskState
      /\ "over" \in Steps /\ "idle" \in Steps /\ "return" \in Sequel
  BY DEF RetryTypeOK, TaskState, Steps, Sequel
<1>2. CASE p \in Replicas
  <2>1. task' = [task EXCEPT ![p] = [at |-> "idle", job |-> NoJob, then |-> "return"]]
    BY <1>2 DEF End
  <2>2. [at |-> "idle", job |-> NoJob, then |-> "return"] \in TaskState
    BY <1>1 DEF TaskState
  <2> QED
    BY <1>1, <1>2, <2>1, <2>2 DEF Ends
<1>3. CASE p \notin Replicas
  <2>1. task' = [task EXCEPT ![p] = [task[p] EXCEPT !.at = "over", !.then = "return"]]
    BY <1>1, <1>3 DEF End
  <2> DEFINE t == [task[p] EXCEPT !.at = "over", !.then = "return"]
  <2>2. t \in TaskState /\ t.at = "over"
    BY <1>1, MovedWith
  <2>3. task' = [task EXCEPT ![p] = t]
    BY <2>1
  <2> HIDE DEF t
  <2> QED
    BY <1>1, <1>3, <2>2, <2>3 DEF Ends
<1> QED
  BY <1>2, <1>3

LEMMA GetFacts ==
    ASSUME RetryTypeOK, NEW p \in Tasks, NEW job \in Job,
           task' = [task EXCEPT ![p].at = "del", ![p].job = job]
    PROVE  /\ task' \in [Tasks -> TaskState]
           /\ task'[p].at = "del" /\ task'[p].job = job
           /\ \A q \in Tasks \ {p} : task'[q] = task[q]
<1>1. task \in [Tasks -> TaskState] /\ task[p] \in TaskState /\ "del" \in Steps
  BY DEF RetryTypeOK, TaskState, Steps
<1> DEFINE t == [task[p] EXCEPT !.at = "del", !.job = job]
<1>2. task' = [task EXCEPT ![p] = t]
  BY <1>1
<1>3. t \in TaskState /\ t.at = "del" /\ t.job = job
  BY <1>1, Zenon DEF TaskState
<1> HIDE DEF t
<1> QED
  BY <1>1, <1>2, <1>3

\* The job that a worker finds: an attempt of the budget.
QueuedJob == [brief : Briefs, attempt : 1 .. MaxAttempt]

LEMMA NextJob ==
    ASSUME RetryAssumption, NEW job \in Job, ~ (job.attempt + 1 > MaxAttempt)
    PROVE  [job EXCEPT !.attempt = job.attempt + 1] \in QueuedJob
<1> QED
  BY DEF RetryAssumption, Job, QueuedJob

\* Most steps of p keep its job or end its work.
LEMMA JobsKept ==
    ASSUME RetryTyped, NEW p \in Tasks, NEW at \in Steps,
           Ends(p) \/ (Steps1(p, at) /\ (at \in InHand => task[p].job \in Job)
                       /\ at # "idle" /\ (p \in Briefs => at \notin Workers)),
           Briefs \cap Replicas = {}
    PROVE  /\ task' \in [Tasks -> TaskState]
           /\ \A q \in Tasks : HasJob(q)'
           /\ \A b \in Briefs : task'[b].at \notin Workers
<1>1. /\ \A q \in Tasks : HasJob(q)
      /\ \A b \in Briefs : task[b].at \notin Workers
  BY DEF RetryTyped
<1>2. CASE Ends(p)
  <2>1. HasJob(p)' /\ (p \in Briefs => task'[p].at \notin Workers)
    BY <1>2 DEF Ends, HasJob, InHand, Workers, Tasks
  <2> QED
    BY <1>1, <1>2, <2>1 DEF Ends, HasJob, Tasks
<1>3. CASE /\ Steps1(p, at) /\ (at \in InHand => task[p].job \in Job)
           /\ at # "idle" /\ (p \in Briefs => at \notin Workers)
  <2>1. HasJob(p)' /\ (p \in Briefs => task'[p].at \notin Workers)
    BY <1>3 DEF Steps1, HasJob
  <2> QED
    BY <1>1, <1>3, <2>1 DEF Steps1, HasJob, Tasks
<1> QED
  BY <1>2, <1>3

\* Where a step of p takes it, by the name of the action.
Move(p, at) == Steps1(p, at) /\ at # "idle" /\ (p \in Briefs => at \notin Workers)
                             /\ (at \in InHand => task[p].job \in Job)

LEMMA MoveTo ==
    ASSUME RetryTyped, NEW p \in Tasks, task[p].at \in InHand, Briefs \cap Replicas = {}
    PROVE  /\ \A at \in {"deliver", "host", "ensure", "zadd", "wait", "zrem", "hdel"} :
                Goto(p, at) => Move(p, at)
           /\ \A sequel \in Sequel : Queue(p, sequel) => Move(p, "hset")
<1>1. RetryTypeOK /\ task[p].job \in Job
  BY DEF RetryTyped, HasJob
<1>2. ASSUME NEW at \in {"deliver", "host", "ensure", "zadd", "wait", "zrem", "hdel"}, Goto(p, at)
      PROVE  Move(p, at)
  <2>1. at \in Steps /\ at # "idle" /\ at \notin Workers
    BY DEF Steps, Workers
  <2> QED
    BY <1>1, <1>2, <2>1, GotoFacts DEF Move
<1>3. ASSUME NEW sequel \in Sequel, Queue(p, sequel)
      PROVE  Move(p, "hset")
  BY <1>1, <1>3, QueueFacts DEF Move, Workers
<1> QED
  BY <1>2, <1>3

LEMMA TaskMoves ==
    ASSUME RetryTyped, RetryAssumption, NEW p \in Tasks
    PROVE  /\ Deliver(p) => Ends(p) \/ Move(p, "host")
           /\ ResolveHost(p) => Move(p, "ensure") \/ Move(p, "hset")
           /\ EnsurePod(p) => Move(p, "hset")
           /\ PutJob(p) => Ends(p) \/ Move(p, "wait") \/ Move(p, "zadd")
           /\ QueueJob(p) => Ends(p) \/ Move(p, "wait")
           /\ CallThrows(p) => Ends(p) \/ Move(p, "hset")
           /\ Replay(p) => Move(p, "zrem")
           /\ GiveUp(p) => Ends(p)
           /\ CancelMember(p) => Move(p, "hdel")
           /\ CancelJob(p) => Ends(p)
           /\ WakeCrash(p) => Ends(p)
<1>0. RetryTypeOK /\ Briefs \cap Replicas = {}
  BY DEF RetryTyped, RetryAssumption
<1>1. End(p) => Ends(p)
  BY <1>0, EndFacts
<1>2. task[p].at \in InHand =>
        /\ \A at \in {"deliver", "host", "ensure", "zadd", "wait", "zrem", "hdel"} :
              Goto(p, at) => Move(p, at)
        /\ \A sequel \in Sequel : Queue(p, sequel) => Move(p, "hset")
  BY <1>0, MoveTo
<1>3. /\ \A at \in InHand : At(p, at) => task[p].at \in InHand
      /\ \A sequel \in {"wait", "return", "ignore"} : sequel \in Sequel
  BY DEF At, Sequel
<1>4. Deliver(p) => Ends(p) \/ Move(p, "host")
  BY <1>1, <1>2, <1>3 DEF Deliver, InHand
<1>5. ResolveHost(p) => Move(p, "ensure") \/ Move(p, "hset")
  BY <1>1, <1>2, <1>3 DEF ResolveHost, InHand
<1>6. EnsurePod(p) => Move(p, "hset")
  BY <1>1, <1>2, <1>3 DEF EnsurePod, HealthCheck, InHand
<1>7. PutJob(p) => Ends(p) \/ Move(p, "wait") \/ Move(p, "zadd")
  BY <1>1, <1>2, <1>3 DEF PutJob, Scheduled, InHand
<1>8. QueueJob(p) => Ends(p) \/ Move(p, "wait")
  BY <1>1, <1>2, <1>3 DEF QueueJob, Scheduled, InHand
<1>9. CallThrows(p) => Ends(p) \/ Move(p, "hset")
  BY <1>1, <1>2, <1>3 DEF CallThrows, InHand
<1>10. Replay(p) => Move(p, "zrem")
  BY <1>1, <1>2, <1>3 DEF Replay, InHand
<1>11. GiveUp(p) => Ends(p)
  BY <1>1 DEF GiveUp
<1>12. CancelMember(p) => Move(p, "hdel")
  BY <1>1, <1>2, <1>3 DEF CancelMember, InHand
<1>13. CancelJob(p) => Ends(p)
  BY <1>1 DEF CancelJob
<1>14. WakeCrash(p) => Ends(p)
  BY <1>1 DEF WakeCrash
<1> QED
  BY <1>4, <1>5, <1>6, <1>7, <1>8, <1>9, <1>10, <1>11, <1>12, <1>13, <1>14

\* The steps of a worker before the brief of its job is delivered.
LEMMA WorkerMoves ==
    ASSUME RetryTyped, RetryAssumption, NEW r \in Replicas
    PROVE  /\ ReadBatch(r) => Move(r, "claim")
           /\ ClaimRetry(r) => IF due # "none" THEN Move(r, "get") ELSE Ends(r)
           /\ GetJob(r) /\ body = NoJob => Ends(r)
           /\ GetJob(r) /\ body # NoJob => /\ task' \in [Tasks -> TaskState]
                                           /\ task'[r].at = "del" /\ task'[r].job = body
                                           /\ \A q \in Tasks \ {r} : task'[q] = task[q]
           /\ DeleteJob(r) => Move(r, "deliver")
<1>0. RetryTypeOK /\ Briefs \cap Replicas = {} /\ r \in Tasks /\ r \notin Briefs
  BY DEF RetryTyped, RetryAssumption, Tasks
<1>1. \A at \in {"claim", "get"} : Goto(r, at) => Move(r, at)
  <2>1. ASSUME NEW at \in {"claim", "get"}, Goto(r, at)
        PROVE  Move(r, at)
    <3>1. at \in Steps /\ at # "idle" /\ at \notin InHand
      BY DEF Steps, InHand
    <3> QED
      BY <1>0, <2>1, <3>1, GotoFacts DEF Move
  <2> QED
    BY <2>1
<1>2. End(r) => Ends(r)
  BY <1>0, EndFacts
<1>3. ReadBatch(r) => Move(r, "claim")
  BY <1>1 DEF ReadBatch
<1>4. ClaimRetry(r) => IF due # "none" THEN Move(r, "get") ELSE Ends(r)
  BY <1>1, <1>2 DEF ClaimRetry
<1>5. GetJob(r) /\ body = NoJob => Ends(r)
  BY <1>2 DEF GetJob
<1>6. GetJob(r) /\ body # NoJob => /\ task' \in [Tasks -> TaskState]
                                   /\ task'[r].at = "del" /\ task'[r].job = body
                                   /\ \A q \in Tasks \ {r} : task'[q] = task[q]
  <2>1. SUFFICES ASSUME GetJob(r), body # NoJob
                 PROVE  /\ task' \in [Tasks -> TaskState]
                        /\ task'[r].at = "del" /\ task'[r].job = body
                        /\ \A q \in Tasks \ {r} : task'[q] = task[q]
    OBVIOUS
  <2>2. body \in Job
    BY <1>0, <2>1 DEF RetryTypeOK, Job
  <2>3. task' = [task EXCEPT ![r].at = "del", ![r].job = body]
    BY <2>1 DEF GetJob
  <2> QED
    BY <1>0, <2>2, <2>3, GetFacts
<1>7. DeleteJob(r) => Move(r, "deliver")
  <2>1. task[r].at = "del" => task[r].at \in InHand
    BY DEF InHand
  <2> QED
    BY <1>0, <2>1, MoveTo DEF DeleteJob, At
<1> QED
  BY <1>3, <1>4, <1>5, <1>6, <1>7

\* The rest of the state keeps its types.
LEMMA RestTyped ==
    ASSUME RetryTyped, RetryAssumption, NEW p \in Tasks,
           (p \in Replicas /\ (ReadBatch(p) \/ ClaimRetry(p) \/ GetJob(p) \/ DeleteJob(p)))
           \/ Deliver(p) \/ ResolveHost(p) \/ EnsurePod(p) \/ PutJob(p) \/ QueueJob(p)
           \/ Replay(p) \/ GiveUp(p) \/ CancelMember(p) \/ CancelJob(p)
           \/ CallThrows(p) \/ WakeCrash(p)
    PROVE  /\ due' \in {"none", "later", "now"} /\ body' \in QueuedJob \cup {NoJob}
           /\ pod' \in BOOLEAN /\ stream' \in {"off", "on", "gone"}
           /\ heard' \in [Briefs -> 0 .. 2] /\ wakeFaults' \in Nat /\ spent' \in BOOLEAN
<1>1. /\ due \in {"none", "later", "now"} /\ body \in QueuedJob \cup {NoJob}
      /\ pod \in BOOLEAN /\ stream \in {"off", "on", "gone"}
      /\ heard \in [Briefs -> 0 .. 2] /\ wakeFaults \in Nat /\ spent \in BOOLEAN
      /\ task[p].at \in InHand => task[p].job \in Job
  BY DEF RetryTyped, RetryTypeOK, QueuedJob, HasJob
<1>2. WakeFault => wakeFaults' \in Nat
  BY <1>1 DEF WakeFault
<1>3. ASSUME task[p].at \in InHand, Heard(p)
      PROVE  heard' \in [Briefs -> 0 .. 2]
  <2>1. PICK b \in Briefs : b = task[p].job.brief
    BY <1>1, <1>3 DEF Job
  <2>2. heard' = IF stream = "on" /\ heard[b] < 2 THEN [heard EXCEPT ![b] = @ + 1] ELSE heard
    BY <2>1, <1>3 DEF Heard
  <2>3. heard[b] < 2 => heard[b] + 1 \in 0 .. 2
    BY <1>1
  <2> QED
    BY <1>1, <2>2, <2>3
<1>4. ASSUME p \in Replicas /\ (ReadBatch(p) \/ ClaimRetry(p) \/ GetJob(p) \/ DeleteJob(p))
      PROVE  /\ due' \in {"none", "later", "now"} /\ body' \in QueuedJob \cup {NoJob}
             /\ UNCHANGED <<pod, stream, heard, spent>> /\ wakeFaults' \in Nat
  BY <1>1, <1>2, <1>4 DEF ReadBatch, ClaimRetry, GetJob, DeleteJob
<1>5. ASSUME Deliver(p) \/ Replay(p)
      PROVE  heard' \in [Briefs -> 0 .. 2] /\ UNCHANGED <<due, body, pod, stream, spent, wakeFaults>>
  BY <1>3, <1>5 DEF Deliver, Replay, At, InHand
<1>6. ASSUME ResolveHost(p) \/ EnsurePod(p) \/ QueueJob(p) \/ GiveUp(p)
             \/ CancelMember(p) \/ CancelJob(p) \/ CallThrows(p) \/ WakeCrash(p)
      PROVE  /\ due' \in {"none", "later", "now"} /\ body' \in QueuedJob \cup {NoJob}
             /\ UNCHANGED <<stream, heard, spent>> /\ wakeFaults' \in Nat /\ pod' \in BOOLEAN
  BY <1>1, <1>2, <1>6 DEF ResolveHost, EnsurePod, QueueJob, GiveUp, CancelMember, CancelJob,
                          CallThrows, WakeCrash
<1>7. ASSUME PutJob(p)
      PROVE  /\ body' \in QueuedJob \cup {NoJob} /\ spent' \in BOOLEAN
             /\ UNCHANGED <<due, pod, stream, heard, wakeFaults>>
  <2>1. task[p].job \in Job
    BY <1>1, <1>7 DEF PutJob, At, InHand
  <2>2. ~Exhausted(p) => [task[p].job EXCEPT !.attempt = NextAttempt(p)] \in QueuedJob
    BY <2>1, NextJob DEF Exhausted, NextAttempt
  <2> QED
    BY <1>1, <1>7, <2>2 DEF PutJob
<1> QED
  BY <1>1, <1>4, <1>5, <1>6, <1>7

LEMMA RetryTypeStep == RetryAssumption /\ RetryTyped /\ [RetryNext]_retryVars => RetryTyped'
<1> SUFFICES ASSUME RetryAssumption, RetryTyped, [RetryNext]_retryVars
             PROVE  RetryTyped'
  OBVIOUS
<1> DEFINE Whole == /\ task' \in [Tasks -> TaskState]
                    /\ \A q \in Tasks : HasJob(q)'
                    /\ \A b \in Briefs : task'[b].at \notin Workers
<1>0. /\ RetryTypeOK /\ Briefs \cap Replicas = {} /\ MaxAttempt \in Nat
      /\ task \in [Tasks -> TaskState]
  BY DEF RetryTyped, RetryTypeOK, RetryAssumption, TaskState
<1>1. ASSUME NEW p \in Tasks, NEW at, Ends(p) \/ Move(p, at)
      PROVE  Whole
  <2>1. CASE Ends(p)
    <3>1. "over" \in Steps
      BY DEF Steps
    <3> QED
      BY <1>0, <2>1, <3>1, JobsKept
  <2>2. CASE Move(p, at)
    <3>1. at \in Steps
      BY <2>2 DEF Move, Steps1, TaskState
    <3> QED
      BY <1>0, <2>2, <3>1, JobsKept DEF Move
  <2> QED
    BY <1>1, <2>1, <2>2
<1>2. ASSUME NEW b \in Briefs, BoardAction(b)
      PROVE  RetryTyped'
  <2>1. b \in Tasks /\ "deliver" \in Steps /\ "deliver" \notin Workers
    BY DEF Tasks, Steps, Workers
  <2>2. task[b].job \in Job
    BY <1>2 DEF RetryTyped, HasJob, BoardAction, At, Tasks
  <2>3. Move(b, "deliver")
    BY <1>0, <1>2, <2>1, <2>2, GotoFacts DEF Move, BoardAction
  <2>4. Whole
    BY <1>1, <2>1, <2>3
  <2> QED
    BY <1>0, <1>2, <2>4 DEF RetryTyped, RetryTypeOK, BoardAction, TaskState
<1>3. ASSUME NEW p \in Tasks,
             (p \in Replicas /\ (ReadBatch(p) \/ ClaimRetry(p) \/ GetJob(p) \/ DeleteJob(p)))
             \/ Deliver(p) \/ ResolveHost(p) \/ EnsurePod(p) \/ PutJob(p) \/ QueueJob(p)
             \/ Replay(p) \/ GiveUp(p) \/ CancelMember(p) \/ CancelJob(p)
             \/ CallThrows(p) \/ WakeCrash(p)
      PROVE  RetryTyped'
  <2>1. CASE p \in Replicas /\ GetJob(p) /\ body # NoJob
    <3>1. /\ task' \in [Tasks -> TaskState]
          /\ task'[p].at = "del" /\ task'[p].job = body
          /\ \A q \in Tasks \ {p} : task'[q] = task[q]
      BY <2>1, WorkerMoves
    <3>2. body \in Job
      BY <1>0, <2>1 DEF RetryTypeOK, Job
    <3>3. HasJob(p)'
      BY <3>1, <3>2 DEF HasJob
    <3>4. p \notin Briefs
      BY <1>0, <2>1
    <3>5. Whole
      BY <3>1, <3>3, <3>4 DEF RetryTyped, HasJob, Tasks
    <3> QED
      BY <3>5, <1>3, RestTyped DEF RetryTyped, RetryTypeOK, TaskState, QueuedJob
  <2>2. CASE ~(p \in Replicas /\ GetJob(p) /\ body # NoJob)
    <3>1. Ends(p) \/ \E at : Move(p, at)
      <4>1. CASE p \in Replicas /\ (ReadBatch(p) \/ ClaimRetry(p) \/ GetJob(p) \/ DeleteJob(p))
        BY <2>2, <4>1, WorkerMoves
      <4>2. CASE \/ Deliver(p) \/ ResolveHost(p) \/ EnsurePod(p) \/ PutJob(p) \/ QueueJob(p)
                 \/ Replay(p) \/ GiveUp(p) \/ CancelMember(p) \/ CancelJob(p)
                 \/ CallThrows(p) \/ WakeCrash(p)
        BY <4>2, TaskMoves
      <4> QED
        BY <1>3, <4>1, <4>2
    <3>2. Whole
      BY <1>1, <3>1
    <3> QED
      BY <3>2, <1>3, RestTyped DEF RetryTyped, RetryTypeOK, TaskState, QueuedJob
  <2> QED
    BY <2>1, <2>2
<1>4. CASE DueComes \/ StreamOpens \/ StreamGoes \/ Unsubscribe \/ UNCHANGED retryVars
  <2>1. /\ due' \in {"none", "later", "now"} /\ stream' \in {"off", "on", "gone"}
        /\ pod' \in BOOLEAN /\ wakeFaults' \in Nat
        /\ UNCHANGED <<body, task, heard, spent>>
    <3>1. CASE DueComes
      BY <1>0, <3>1 DEF RetryTypeOK, DueComes
    <3>2. CASE StreamOpens
      BY <1>0, <3>2 DEF RetryTypeOK, StreamOpens
    <3>3. CASE StreamGoes
      <4>1. /\ stream' = "gone" /\ pod' = FALSE /\ wakeFaults' = wakeFaults + 1
            /\ UNCHANGED <<due, body, task, heard, spent>>
        BY <3>3 DEF StreamGoes, WakeFault
      <4>2. due \in {"none", "later", "now"} /\ wakeFaults \in Nat
        BY <1>0 DEF RetryTypeOK
      <4>3. wakeFaults' \in Nat
        BY <4>1, <4>2
      <4>4. due' \in {"none", "later", "now"}
        BY <4>1, <4>2
      <4>5. stream' \in {"off", "on", "gone"} /\ pod' \in BOOLEAN
        BY <4>1, Zenon
      <4> QED
        BY <4>1, <4>3, <4>4, <4>5, Zenon
    <3>4. CASE Unsubscribe
      BY <1>0, <3>4 DEF RetryTypeOK, Unsubscribe
    <3>5. CASE UNCHANGED retryVars
      BY <1>0, <3>5 DEF RetryTypeOK, retryVars
    <3> QED
      BY <1>4, <3>1, <3>2, <3>3, <3>4, <3>5
  <2> QED
    BY <1>0, <2>1 DEF RetryTyped, RetryTypeOK, HasJob
<1> QED
  BY <1>2, <1>3, <1>4 DEF RetryNext, TaskStep

LEMMA RetryTypeInit == RetryAssumption /\ RetryInit => RetryTyped
<1> SUFFICES ASSUME RetryAssumption, RetryInit
             PROVE  RetryTyped
  OBVIOUS
<1> USE DEF RetryInit
<1>1. \A p \in Tasks :
        /\ task[p] = [at |-> "idle", then |-> "return", job |->
                        IF p \in Briefs THEN [brief |-> p, attempt |-> 0] ELSE NoJob]
        /\ task[p].at = "idle"
        /\ p \in Briefs => task[p].job = [brief |-> p, attempt |-> 0]
  OBVIOUS
<1>2. \A p \in Briefs : [brief |-> p, attempt |-> 0] \in Job
  BY DEF Job
<1>3. task \in [Tasks -> TaskState]
  BY <1>2 DEF TaskState, Steps, Sequel
<1>4. \A p \in Tasks : HasJob(p)
  BY <1>1, <1>2 DEF HasJob, InHand
<1>5. \A b \in Briefs : task[b].at \notin Workers
  BY <1>1 DEF Workers, Tasks
<1>6. heard \in [Briefs -> 0 .. 2] /\ wakeFaults \in Nat
  OBVIOUS
<1> QED
  BY <1>3, <1>4, <1>5, <1>6 DEF RetryTyped, RetryTypeOK, TaskState

\* The variables of the retry queue have their types, and whoever is at a step of
\* wakeOne has a job.
THEOREM RetryTypeCorrect ==
    ASSUME RetryAssumption
    PROVE  RetrySpec => [](RetryTypeOK /\ \A p \in Tasks : HasJob(p))
<1>1. RetryInit => RetryTyped
  BY RetryTypeInit
<1>2. RetryTyped /\ [RetryNext]_retryVars => RetryTyped'
  BY RetryTypeStep
<1>3. RetryTyped => RetryTypeOK /\ \A p \in Tasks : HasJob(p)
  BY DEF RetryTyped
<1> QED
  BY <1>1, <1>2, <1>3, PTL DEF RetrySpec

-----------------------------------------------------------------------------
(* No wake gets lost without a fault *)

\* Somebody carries a job that no longer, or not yet, stands in the queue.
Carries(p) == task[p].at \in {"del", "deliver", "host", "ensure", "hset"}

\* There is a job, and its id is in the sorted set, on its way there, or just claimed.
Queued == body # NoJob /\ (due # "none" \/ \E p \in Tasks : task[p].at \in {"zadd", "get"})

Unheard == wakeFaults = 0 /\ ~spent /\ \A b \in Briefs : heard[b] = 0

\* A board action was taken.
Begun == \E b \in Briefs : task[b].at # "idle"

\* Safety half of AgentIsWoken: the wakes overwrite and cancel each other's job, and
\* still one of them stands.
WakeStands ==
    Unheard /\ Begun => Queued \/ \E p \in Tasks : Carries(p)

\* Nobody cancels what was not heard, and a stream goes only by a fault.
Calm == /\ Unheard => \A p \in Tasks : task[p].at \notin {"zrem", "hdel"}
        /\ wakeFaults = 0 => stream # "gone"

\* Before the first board action there is nothing to retry.
Asleep == ~Begun => due = "none" /\ \A p \in Tasks : task[p].at = "idle"

Stands == RetryTyped /\ Calm /\ Asleep /\ WakeStands

LEMMA HeardOfIt ==
    ASSUME RetryTyped, Calm, NEW p \in Tasks, task[p].at \in InHand, Counted, Heard(p),
           UNCHANGED <<spent, wakeFaults>>
    PROVE  ~Unheard'
<1>1. SUFFICES ASSUME Unheard'
               PROVE  FALSE
  OBVIOUS
<1>2. PICK b \in Briefs : b = task[p].job.brief
  BY DEF RetryTyped, HasJob, Job
<1>3. stream = "on"
  BY <1>1 DEF Unheard, Calm, Counted, RetryTyped, RetryTypeOK
<1>4. heard \in [Briefs -> 0 .. 2] /\ heard[b] \in 0 .. 2
  BY DEF RetryTyped, RetryTypeOK
<1>5. heard' = IF heard[b] < 2 THEN [heard EXCEPT ![b] = heard[b] + 1] ELSE heard
  BY <1>2, <1>3 DEF Heard
<1>6. heard'[b] > 0
  BY <1>4, <1>5
<1> QED
  BY <1>1, <1>6 DEF Unheard

\* What was unheard stays so, the other way round.
LEMMA UnheardBefore ==
    ASSUME RetryTyped, NEW p \in Tasks, TaskStep(p), Unheard'
    PROVE  Unheard
<1>1. heard \in [Briefs -> 0 .. 2] /\ wakeFaults \in Nat
  BY DEF RetryTyped, RetryTypeOK
<1>2. wakeFaults = 0 /\ wakeFaults' = wakeFaults
  BY <1>1 DEF Unheard, TaskStep, ReadBatch, ClaimRetry, GetJob, DeleteJob, Deliver, ResolveHost,
              EnsurePod, PutJob, QueueJob, Replay, GiveUp, CancelMember, CancelJob, WakeFault
<1>3. spent => spent'
  BY DEF TaskStep, ReadBatch, ClaimRetry, GetJob, DeleteJob, Deliver, ResolveHost,
         EnsurePod, PutJob, QueueJob, Replay, GiveUp, CancelMember, CancelJob
<1>4. heard' = heard \/ Heard(p)
  BY DEF TaskStep, ReadBatch, ClaimRetry, GetJob, DeleteJob, Deliver, ResolveHost,
         EnsurePod, PutJob, QueueJob, Replay, GiveUp, CancelMember, CancelJob
<1>5. ASSUME NEW b \in Briefs
      PROVE  heard[b] = 0
  <2>1. heard'[b] = 0 /\ heard[b] \in 0 .. 2
    BY <1>1 DEF Unheard
  <2>2. CASE heard' = heard
    BY <2>1, <2>2
  <2>3. CASE Heard(p)
    <3>1. PICK c : c = task[p].job.brief
      OBVIOUS
    <3>2. heard' = heard \/ heard' = [heard EXCEPT ![c] = heard[c] + 1]
      BY <2>3, <3>1 DEF Heard
    <3> QED
      BY <1>1, <2>1, <3>2
  <2> QED
    BY <1>4, <2>2, <2>3
<1> QED
  BY <1>2, <1>3, <1>5 DEF Unheard

\* One step of a task hands the wake on.
LEMMA StandsStep ==
    ASSUME RetryAssumption, Stands, NEW p \in Tasks, TaskStep(p), Unheard', Begun
    PROVE  /\ Queued' \/ \E q \in Tasks : Carries(q)'
           /\ \A q \in Tasks : task'[q].at \notin {"zrem", "hdel"}
<1>0. /\ RetryTyped /\ RetryTypeOK /\ Calm
      /\ \A q \in Tasks : task[q].at \notin {"zrem", "hdel"}
      /\ Queued \/ \E q \in Tasks : Carries(q)
      /\ wakeFaults = 0 /\ wakeFaults' = 0
  BY UnheardBefore DEF Stands, WakeStands, RetryTyped, Calm, Unheard
<1>1. WakeFault => FALSE
  BY <1>0 DEF WakeFault
<1> DEFINE Hands == Queued' \/ \E q \in Tasks : Carries(q)'
           Others == \A q \in Tasks \ {p} : task'[q] = task[q]
<1>2. ASSUME Ends(p) \/ \E at \in Steps \ {"zrem", "hdel"} : Move(p, at)
      PROVE  Others /\ \A q \in Tasks : task'[q].at \notin {"zrem", "hdel"}
  <2>1. Others
    BY <1>2 DEF Ends, Move, Steps1
  <2>2. task'[p].at \notin {"zrem", "hdel"}
    BY <1>2 DEF Ends, Move, Steps1
  <2> QED
    BY <1>0, <2>1, <2>2
\* The step of p is one to which the wake goes on.
<1>3. ASSUME NEW at \in {"del", "deliver", "host", "ensure", "hset"}, Move(p, at)
      PROVE  Hands /\ \A q \in Tasks : task'[q].at \notin {"zrem", "hdel"}
  <2>1. at \in Steps \ {"zrem", "hdel"}
    BY DEF Steps
  <2>2. Carries(p)'
    BY <1>3 DEF Move, Steps1, Carries
  <2> QED
    BY <1>2, <1>3, <2>1, <2>2
\* The step of p is none of the wake: who had it has it.
<1>4. ASSUME task[p].at \notin {"del", "deliver", "host", "ensure", "hset", "zadd", "get"},
             Ends(p) \/ Move(p, "claim"), UNCHANGED body, due' = due
      PROVE  Hands /\ \A q \in Tasks : task'[q].at \notin {"zrem", "hdel"}
  <2>1. "claim" \in Steps \ {"zrem", "hdel"}
    BY DEF Steps
  <2>2. Others /\ \A q \in Tasks : task'[q].at \notin {"zrem", "hdel"}
    BY <1>2, <1>4, <2>1
  <2>3. \A q \in Tasks : Carries(q) => Carries(q)'
    BY <1>4, <2>2 DEF Carries
  <2>4. Queued => Queued'
    BY <1>4, <2>2 DEF Queued
  <2> QED
    BY <1>0, <2>2, <2>3, <2>4
<1>5. CASE p \in Replicas /\ ReadBatch(p)
  <2>1. Move(p, "claim") /\ task[p].at = "idle" /\ UNCHANGED <<body, due>>
    BY <1>0, <1>5, WorkerMoves DEF ReadBatch, At
  <2> QED
    BY <1>4, <2>1
<1>6. CASE p \in Replicas /\ ClaimRetry(p)
  <2>1. /\ task[p].at = "claim" /\ due' = "none" /\ UNCHANGED body
        /\ IF due # "none" THEN Move(p, "get") ELSE Ends(p)
    BY <1>0, <1>6, WorkerMoves DEF ClaimRetry, At
  <2>2. CASE due = "none"
    BY <1>4, <2>1, <2>2
  <2>3. CASE due # "none"
    <3>1. "get" \in Steps \ {"zrem", "hdel"}
      BY DEF Steps
    <3>2. Others /\ \A q \in Tasks : task'[q].at \notin {"zrem", "hdel"}
      BY <1>2, <2>1, <2>3, <3>1
    <3>3. task'[p].at = "get"
      BY <2>1, <2>3 DEF Move, Steps1
    <3>4. body # NoJob => Queued'
      BY <2>1, <3>3 DEF Queued
    <3>5. \A q \in Tasks : Carries(q) => Carries(q)'
      BY <2>1, <3>2 DEF Carries
    <3> QED
      BY <1>0, <3>2, <3>4, <3>5 DEF Queued
  <2> QED
    BY <2>2, <2>3
<1>7. CASE p \in Replicas /\ GetJob(p)
  <2>1. task[p].at = "get" /\ UNCHANGED <<body, due>>
    BY <1>7 DEF GetJob, At
  <2>2. CASE body = NoJob
    <3>1. Ends(p)
      BY <1>0, <1>7, <2>2, WorkerMoves
    <3>2. Others /\ \A q \in Tasks : task'[q].at \notin {"zrem", "hdel"}
      BY <1>2, <3>1
    <3>3. \A q \in Tasks : Carries(q) => Carries(q)'
      BY <2>1, <3>2 DEF Carries
    <3> QED
      BY <1>0, <2>2, <3>2, <3>3 DEF Queued
  <2>3. CASE body # NoJob
    <3>1. task'[p].at = "del" /\ Others
      BY <1>0, <1>7, <2>3, WorkerMoves
    <3>2. Carries(p)'
      BY <3>1 DEF Carries
    <3> QED
      BY <1>0, <3>1, <3>2
  <2> QED
    BY <2>2, <2>3
<1>8. CASE p \in Replicas /\ DeleteJob(p)
  BY <1>0, <1>3, <1>8, WorkerMoves
<1>9. CASE Deliver(p)
  <2>1. task[p].at \in InHand /\ Heard(p) /\ UNCHANGED <<spent, wakeFaults>>
    BY <1>9 DEF Deliver, At, InHand
  <2>2. ~Counted
    BY <1>0, <2>1, HeardOfIt
  <2>3. Goto(p, "host")
    BY <1>9, <2>2 DEF Deliver
  <2>4. Move(p, "host")
    BY <1>0, <2>1, <2>3, MoveTo DEF RetryAssumption
  <2> QED
    BY <1>3, <2>4
<1>10. CASE ResolveHost(p)
  BY <1>0, <1>3, <1>10, TaskMoves
<1>11. CASE EnsurePod(p)
  BY <1>0, <1>3, <1>11, TaskMoves
<1>12. CASE PutJob(p)
  <2>1. ~Exhausted(p)
    BY <1>12 DEF PutJob, Unheard
  <2>2. task[p].at = "hset" /\ Goto(p, "zadd") /\ body' = [task[p].job EXCEPT !.attempt = NextAttempt(p)]
    BY <1>12, <2>1 DEF PutJob, At
  <2>3. task[p].at \in InHand /\ task[p].job \in Job
    BY <1>0, <2>2 DEF InHand, RetryTyped, HasJob
  <2>4. Move(p, "zadd")
    BY <1>0, <2>2, <2>3, MoveTo DEF RetryAssumption
  <2>5. body' \in QueuedJob
    BY <2>1, <2>2, <2>3, NextJob DEF Exhausted, NextAttempt
  <2>6. body' # NoJob
    BY <2>5 DEF RetryAssumption, QueuedJob, Job
  <2>7. task'[p].at = "zadd" /\ "zadd" \in Steps \ {"zrem", "hdel"}
    BY <2>4 DEF Move, Steps1, Steps
  <2>8. Queued'
    BY <2>6, <2>7 DEF Queued
  <2> QED
    BY <1>2, <2>4, <2>7, <2>8
<1>13. CASE QueueJob(p)
  <2>1. task[p].at = "zadd" /\ due' = "later" /\ UNCHANGED body
    BY <1>13 DEF QueueJob, At
  <2>2. "wait" \in Steps \ {"zrem", "hdel"}
    BY DEF Steps
  <2>3. Others /\ \A q \in Tasks : task'[q].at \notin {"zrem", "hdel"}
    BY <1>0, <1>2, <1>13, <2>2, TaskMoves
  <2>4. \A q \in Tasks : Carries(q) => Carries(q)'
    BY <2>1, <2>3 DEF Carries
  <2>5. Queued => Queued'
    BY <2>1 DEF Queued
  <2> QED
    BY <1>0, <2>3, <2>4, <2>5
<1>14. CASE Replay(p)
  <2>1. task[p].at \in InHand /\ Heard(p) /\ Counted /\ UNCHANGED <<spent, wakeFaults>>
    BY <1>14 DEF Replay, At, InHand
  <2> QED
    BY <1>0, <2>1, HeardOfIt
<1>15. CASE GiveUp(p)
  <2>1. task[p].at = "wait" /\ Ends(p) /\ UNCHANGED <<body, due>>
    BY <1>0, <1>15, TaskMoves DEF GiveUp, At
  <2> QED
    BY <1>4, <2>1
<1>16. CASE CancelMember(p) \/ CancelJob(p)
  BY <1>0, <1>16 DEF CancelMember, CancelJob, At
<1> QED
  BY <1>5, <1>6, <1>7, <1>8, <1>9, <1>10, <1>11, <1>12, <1>13, <1>14, <1>15, <1>16
     DEF TaskStep

\* Nobody but a board action makes the beginning, and no step takes it back.
LEMMA BegunStep ==
    ASSUME RetryAssumption, RetryTyped, Asleep, NEW p \in Tasks,
           TaskStep(p) \/ CallThrows(p) \/ WakeCrash(p)
    PROVE  Begun /\ Begun'
<1>0. Briefs \cap Replicas = {} /\ Briefs \subseteq Tasks
  BY DEF RetryAssumption, Tasks
<1>1. Begun
  <2>1. SUFFICES ASSUME task[p].at = "idle", due = "none"
                 PROVE  FALSE
    BY DEF Asleep
  <2> QED
    BY <2>1 DEF TaskStep, ReadBatch, ClaimRetry, GetJob, DeleteJob, Deliver, ResolveHost,
       EnsurePod, PutJob, QueueJob, Replay, GiveUp, CancelMember, CancelJob, CallThrows,
       WakeCrash, At
<1>2. PICK b \in Briefs : task[b].at # "idle"
  BY <1>1 DEF Begun
<1>3. CASE p \in Replicas /\ GetJob(p) /\ body # NoJob
  <2>1. b # p
    BY <1>0, <1>3
  <2> QED
    BY <1>0, <1>2, <1>3, <2>1, WorkerMoves DEF Begun
<1>4. CASE ~(p \in Replicas /\ GetJob(p) /\ body # NoJob)
  <2>1. Ends(p) \/ \E at : Move(p, at)
    <3>1. CASE p \in Replicas /\ (ReadBatch(p) \/ ClaimRetry(p) \/ GetJob(p) \/ DeleteJob(p))
      BY <1>4, <3>1, WorkerMoves
    <3>2. CASE \/ Deliver(p) \/ ResolveHost(p) \/ EnsurePod(p) \/ PutJob(p) \/ QueueJob(p)
               \/ Replay(p) \/ GiveUp(p) \/ CancelMember(p) \/ CancelJob(p)
               \/ CallThrows(p) \/ WakeCrash(p)
      BY <3>2, TaskMoves
    <3> QED
      BY <3>1, <3>2 DEF TaskStep
  <2>2. CASE b = p
    <3>1. p \notin Replicas
      BY <1>0, <2>2
    <3>2. task'[p].at # "idle"
      <4>1. CASE Ends(p)
        BY <3>1, <4>1 DEF Ends
      <4>2. CASE \E at : Move(p, at)
        BY <4>2 DEF Move, Steps1
      <4> QED
        BY <2>1, <4>1, <4>2
    <3> QED
      BY <1>1, <2>2, <3>2 DEF Begun
  <2>3. CASE b # p
    BY <1>0, <1>2, <2>1, <2>3 DEF Ends, Move, Steps1, Begun
  <2> QED
    BY <2>2, <2>3
<1> QED
  BY <1>1, <1>3, <1>4

LEMMA StandsNext == RetryAssumption /\ Stands /\ [RetryNext]_retryVars => Stands'
<1> SUFFICES ASSUME RetryAssumption, Stands, [RetryNext]_retryVars
             PROVE  Stands'
  OBVIOUS
<1>0. RetryTyped' /\ RetryTyped /\ RetryTypeOK /\ Calm /\ wakeFaults \in Nat
  BY RetryTypeStep DEF Stands, RetryTyped, RetryTypeOK
<1>1. ASSUME NEW p \in Tasks, CallThrows(p) \/ WakeCrash(p)
      PROVE  Calm' /\ WakeStands'
  <2>1. wakeFaults' # 0
    BY <1>0, <1>1 DEF CallThrows, WakeCrash, WakeFault
  <2> QED
    BY <2>1 DEF Calm, WakeStands, Unheard
<1>2. ASSUME StreamGoes
      PROVE  Calm' /\ WakeStands'
  <2>1. wakeFaults' # 0
    BY <1>0, <1>2 DEF StreamGoes, WakeFault
  <2> QED
    BY <2>1 DEF Calm, WakeStands, Unheard
<1>3. ASSUME NEW b \in Briefs, BoardAction(b)
      PROVE  Calm' /\ WakeStands'
  <2>1. b \in Tasks /\ "deliver" \in Steps
    BY DEF Tasks, Steps
  <2>2. Steps1(b, "deliver") /\ UNCHANGED <<due, body, pod, stream, heard, spent, wakeFaults>>
    BY <1>0, <1>3, <2>1, GotoFacts DEF BoardAction
  <2>3. Carries(b)'
    BY <2>2 DEF Steps1, Carries
  <2>4. Calm'
    BY <1>0, <2>2 DEF Calm, Unheard, Steps1
  <2> QED
    BY <2>1, <2>3, <2>4 DEF WakeStands
<1>4. ASSUME NEW p \in Tasks, TaskStep(p)
      PROVE  Calm' /\ WakeStands'
  <2>1. UNCHANGED stream /\ wakeFaults' \in Nat /\ (wakeFaults' = 0 => wakeFaults = 0)
    BY <1>0, <1>4 DEF TaskStep, ReadBatch, ClaimRetry, GetJob, DeleteJob, Deliver, ResolveHost,
       EnsurePod, PutJob, QueueJob, Replay, GiveUp, CancelMember, CancelJob, WakeFault
  <2>2. Begun
    BY <1>0, <1>4, BegunStep DEF Stands
  <2> QED
    BY <1>0, <1>4, <2>1, <2>2, StandsStep DEF Calm, WakeStands
<1>5. ASSUME DueComes \/ StreamOpens \/ Unsubscribe \/ UNCHANGED retryVars
      PROVE  Calm' /\ WakeStands'
  <2>1. UNCHANGED <<body, task, heard, spent, wakeFaults>>
    BY <1>5 DEF DueComes, StreamOpens, Unsubscribe, retryVars
  <2>2. (due # "none" => due' # "none") /\ (stream' = "gone" => stream = "gone")
    BY <1>5 DEF DueComes, StreamOpens, Unsubscribe, retryVars
  <2>3. Unheard' = Unheard /\ Begun' = Begun
    BY <2>1 DEF Unheard, Begun
  <2>4. Calm'
    BY <1>0, <2>1, <2>2, <2>3 DEF Calm
  <2>5. Queued => Queued'
    BY <2>1, <2>2 DEF Queued
  <2>6. \A p \in Tasks : Carries(p) => Carries(p)'
    BY <2>1 DEF Carries
  <2>7. WakeStands
    BY DEF Stands
  <2>8. WakeStands'
    BY <2>3, <2>5, <2>6, <2>7 DEF WakeStands
  <2> QED
    BY <2>4, <2>8
<1>6. Asleep'
  <2>1. ASSUME NEW p \in Tasks, TaskStep(p) \/ CallThrows(p) \/ WakeCrash(p)
        PROVE  Asleep'
    BY <2>1, BegunStep DEF Stands, Asleep
  <2>2. ASSUME NEW b \in Briefs, BoardAction(b)
        PROVE  Asleep'
    <3>1. b \in Tasks /\ "deliver" \in Steps
      BY DEF Tasks, Steps
    <3>2. Steps1(b, "deliver")
      BY <1>0, <2>2, <3>1, GotoFacts DEF BoardAction
    <3> QED
      BY <3>2 DEF Steps1, Asleep, Begun
  <2>3. CASE DueComes \/ StreamOpens \/ StreamGoes \/ Unsubscribe \/ UNCHANGED retryVars
    BY <2>3 DEF Stands, Asleep, Begun, DueComes, StreamOpens, StreamGoes, Unsubscribe, retryVars
  <2> QED
    BY <2>1, <2>2, <2>3 DEF RetryNext
<1>7. Calm' /\ WakeStands'
  <2>1. CASE RetryNext
    <3>1. CASE \E b \in Briefs : BoardAction(b)
      BY <1>3, <3>1
    <3>2. CASE \E p \in Tasks : TaskStep(p) \/ CallThrows(p) \/ WakeCrash(p)
      BY <1>1, <1>4, <3>2
    <3>3. CASE DueComes \/ StreamOpens \/ StreamGoes \/ Unsubscribe
      BY <1>2, <1>5, <3>3
    <3> QED
      BY <2>1, <3>1, <3>2, <3>3 DEF RetryNext
  <2>2. CASE UNCHANGED retryVars
    BY <1>5, <2>2
  <2> QED
    BY <2>1, <2>2
<1> QED
  BY <1>0, <1>6, <1>7 DEF Stands

\* Board wakes share one retry key, so that their jobs overwrite and cancel each other
\* (scheduleWakeRetry, _cancelWakeRetry): as long as no call fails, nobody heard of any
\* of them and the attempts are not spent, one is being delivered or stands in the queue.
THEOREM NoWakeIsDropped ==
    ASSUME RetryAssumption
    PROVE  RetrySpec => []WakeStands
<1>1. RetryInit => Stands
  <2> SUFFICES ASSUME RetryInit
               PROVE  Stands
    OBVIOUS
  <2>1. RetryTyped
    BY RetryTypeInit
  <2>2. \A p \in Tasks : task[p].at = "idle"
    BY DEF RetryInit
  <2>3. due = "none" /\ stream = "off"
    BY DEF RetryInit
  <2> QED
    BY <2>1, <2>2, <2>3 DEF Stands, Calm, Asleep, WakeStands, Begun, Tasks
<1>2. Stands /\ [RetryNext]_retryVars => Stands'
  BY StandsNext
<1>3. Stands => WakeStands
  BY DEF Stands
<1> QED
  BY <1>1, <1>2, <1>3, PTL DEF RetrySpec
=============================================================================
