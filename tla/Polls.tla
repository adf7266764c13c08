------------------------------- MODULE Polls -------------------------------
(***************************************************************************)
(* One poll of an agent: votes and closing (server/src/polls.ts) over the  *)
(* promise of the realtime outbox (module EventDelivery), and the wake of  *)
(* the poll's author for its events (handlePollUpdated and wakeOne of      *)
(* scheduler.ts).                                                          *)
(*                                                                         *)
(* The events are numbered in the order of their commits, one per change   *)
(* of the poll, so event n carries the state after the n-th change.        *)
(***************************************************************************)
EXTENDS Integers, FiniteSets

CONSTANTS
    Voters,
    Author,         \* an agent, a voter as well
    Options,
    Mode,           \* "single" or "multi"
    MaxEvents,      \* bound: changes of the poll
    MaxPollFaults   \* bound: rollbacks, dropped events and failing handlers

ASSUME PollAssumption ==
    /\ Author \in Voters /\ Mode \in {"single", "multi"}
    /\ MaxEvents \in Nat \ {0} /\ MaxPollFaults \in Nat

VARIABLES
    votes,      \* poll_votes
    closed,     \* poll.closedAt is set
    expired,    \* poll.expiresAt has passed
    inside,     \* transactions that hold the row of the poll and passed the checks
    change,     \* change[n]: what the n-th event says (closed, by whom)
    phase,      \* the outbox: what became of each event,
    published,       \* and whether it was published
    handling,   \* events handlePollUpdated is at work on, and at which step
    wakeKeys,   \* the two SETNX keys that are set
    present,    \* a stream of the author is subscribed
    told,       \* events handed to such a stream
    unheard,    \* events given up because there was none, and not handed over since (ghost)
    pollFaults  \* what went wrong so far (ghost)

pollVars == <<votes, closed, expired, inside, change, phase, published, handling, wakeKeys,
              present, told, unheard, pollFaults>>

\* What the transactions and the outbox leave alone.
authorVars == <<present, told, unheard>>

Events == 1 .. MaxEvents
Bus == INSTANCE EventDelivery WITH sent <- published
NoActor == "nobody"
Sweeper == "sweeper"
Actors == Voters \cup {Author, Sweeper}

PollTypeOK ==
    /\ votes \in [Voters -> SUBSET Options]
    /\ closed \in BOOLEAN /\ expired \in BOOLEAN
    /\ inside \in SUBSET (Actors \X {"vote", "close"})
    /\ change \in [Events -> [closes : BOOLEAN, by : Actors \cup {NoActor}]]
    /\ phase \in [Events -> Bus!Phases] /\ published \in [Events -> BOOLEAN]
    /\ handling \in SUBSET (Events \X {"claim", "wake"})
    /\ wakeKeys \in SUBSET {"vote", "close"}
    /\ present \in BOOLEAN /\ told \in SUBSET Events /\ unheard \in SUBSET Events
    /\ pollFaults \in Nat

PollInit ==
    /\ votes = [v \in Voters |-> {}]
    /\ closed = FALSE /\ expired = FALSE /\ inside = {}
    /\ change = [n \in Events |-> [closes |-> FALSE, by |-> NoActor]]
    /\ Bus!DInit
    /\ handling = {} /\ wakeKeys = {} /\ pollFaults = 0
    /\ present \in BOOLEAN /\ told = {} /\ unheard = {}

PollFault == pollFaults < MaxPollFaults /\ pollFaults' = pollFaults + 1

Committed == {n \in Events : phase[n] # "absent"}

\* enqueueBroadcast of the state after the change, in the same transaction.
Announce(actor, closes) ==
    LET n == Cardinality(Committed) + 1
    IN  /\ Bus!Enqueue(n)
        /\ change' = [change EXCEPT ![n] = [closes |-> closes, by |-> actor]]

-----------------------------------------------------------------------------
(* castVote and closePoll: SELECT ... FOR UPDATE, the checks, the change *)

\* Mutant: the row is read without a lock.
ReadsAnyhow == TRUE

RowFree == inside = {}

BeginVote(v) ==
    /\ RowFree /\ ~closed
    /\ Cardinality(Committed) < MaxEvents - 1      \* the last event is kept for the close
    /\ inside' = inside \cup {<<v, "vote">>}
    /\ UNCHANGED <<votes, closed, expired, change, phase, published, handling, wakeKeys,
                   authorVars, pollFaults>>

\* The voter's rows are replaced; a single-choice poll takes one option at most.
CommitVote(v) ==
    /\ <<v, "vote">> \in inside
    /\ \E picked \in SUBSET Options :
         /\ Mode = "single" => Cardinality(picked) <= 1
         /\ votes' = [votes EXCEPT ![v] = picked]
    /\ Announce(v, FALSE)
    /\ inside' = inside \ {<<v, "vote">>}
    /\ UNCHANGED <<closed, expired, handling, wakeKeys, authorVars, pollFaults>>

\* The author, or the sweeper for a poll that its query found expired and open.
BeginClose(actor) ==
    /\ RowFree /\ ~closed
    /\ actor = Author \/ (actor = Sweeper /\ expired)
    /\ inside' = inside \cup {<<actor, "close">>}
    /\ UNCHANGED <<votes, closed, expired, change, phase, published, handling, wakeKeys,
                   authorVars, pollFaults>>

CommitClose(actor) ==
    /\ <<actor, "close">> \in inside
    /\ closed' = TRUE
    /\ Announce(actor, TRUE)
    /\ inside' = inside \ {<<actor, "close">>}
    /\ UNCHANGED <<votes, expired, handling, wakeKeys, authorVars, pollFaults>>

\* ROLLBACK, or a crash under the transaction.
Rollback ==
    /\ \E t \in inside : inside' = inside \ {t}
    /\ PollFault
    /\ UNCHANGED <<votes, closed, expired, change, phase, published, handling, wakeKeys,
                   authorVars>>

Expire ==
    /\ ~expired
    /\ expired' = TRUE
    /\ UNCHANGED <<votes, closed, inside, change, phase, published, handling, wakeKeys,
                   authorVars, pollFaults>>

-----------------------------------------------------------------------------
(* The outbox and handlePollUpdated *)

\* Published, for the first time or again: a replica starts to handle the event.
PublishEvent(n) ==
    /\ Bus!Deliver(n)
    /\ handling' = handling \cup {<<n, "claim">>}
    /\ UNCHANGED <<votes, closed, expired, inside, change, wakeKeys, authorVars,
                   pollFaults>>

Acked(n) ==
    /\ Bus!Acknowledge(n)
    /\ UNCHANGED <<votes, closed, expired, inside, change, handling, wakeKeys,
                   authorVars, pollFaults>>

\* 12 attempts or 24 hours of a Redis that is away.
Dropped(n) ==
    /\ PollFault
    /\ Bus!Drop({n})
    /\ UNCHANGED <<votes, closed, expired, inside, change, handling, wakeKeys, authorVars>>

\* Mutant: votes and the close share a key.
OneKey(n) == "vote"

ClaimKey(n) == IF change[n].closes THEN "close" ELSE "vote"

\* The author's own doings are skipped; SET NX, and whoever comes late does nothing.
ClaimWake(n) ==
    /\ <<n, "claim">> \in handling
    /\ IF change[n].by = Author \/ ClaimKey(n) \in wakeKeys
       THEN handling' = handling \ {<<n, "claim">>} /\ UNCHANGED wakeKeys
       ELSE /\ handling' = (handling \ {<<n, "claim">>}) \cup {<<n, "wake">>}
            /\ wakeKeys' = wakeKeys \cup {ClaimKey(n)}
    /\ UNCHANGED <<votes, closed, expired, inside, change, phase, published, authorVars,
                   pollFaults>>

\* handlePollUpdated calls wakeAgent once, with what the event says, and drops the
\* answer.  A stream that is subscribed gets the wake, at once or, when a pod is
\* started, at one of the tries of the 20 s that follow.
WakeAuthor(n) ==
    /\ <<n, "wake">> \in handling /\ present
    /\ handling' = handling \ {<<n, "wake">>}
    /\ told' = told \cup {n} /\ unheard' = unheard \ {n}
    /\ UNCHANGED <<votes, closed, expired, inside, change, phase, published, wakeKeys, present,
                   pollFaults>>

\* Nobody is subscribed, and no pod is started (a paired computer, the free tier, a
\* server for paired computers only, a pod that cannot be had), or the last try found
\* nobody either.  A wake of this reason is not retried.
NobodyThere(n) ==
    /\ <<n, "wake">> \in handling /\ ~present
    /\ handling' = handling \ {<<n, "wake">>}
    /\ unheard' = unheard \cup ({n} \ told)
    /\ UNCHANGED <<votes, closed, expired, inside, change, phase, published, wakeKeys, present,
                   told, pollFaults>>

\* A runtime of the author connects or goes away.
AuthorComesOrGoes ==
    /\ present' = ~present
    /\ UNCHANGED <<votes, closed, expired, inside, change, phase, published, handling,
                   wakeKeys,
                   told, unheard, pollFaults>>

\* A query or a Redis call fails, or the process dies.
HandlingFails(n) ==
    /\ \E step \in {"claim", "wake"} :
         /\ <<n, step>> \in handling
         /\ handling' = handling \ {<<n, step>>}
    /\ PollFault
    /\ UNCHANGED <<votes, closed, expired, inside, change, phase, published, wakeKeys,
                   authorVars>>

\* 8 s for votes, 600 s for the close.
KeyExpires(key) ==
    /\ key \in wakeKeys
    /\ wakeKeys' = wakeKeys \ {key}
    /\ UNCHANGED <<votes, closed, expired, inside, change, phase, published, handling,
                   authorVars, pollFaults>>

-----------------------------------------------------------------------------
PollNext ==
    \/ \E v \in Voters : BeginVote(v) \/ CommitVote(v)
    \/ \E a \in {Author, Sweeper} : BeginClose(a) \/ CommitClose(a)
    \/ Rollback \/ Expire
    \/ \E n \in Events : \/ PublishEvent(n) \/ Acked(n) \/ Dropped(n)
                         \/ ClaimWake(n) \/ WakeAuthor(n) \/ NobodyThere(n)
                         \/ HandlingFails(n)
    \/ AuthorComesOrGoes
    \/ \E key \in {"vote", "close"} : KeyExpires(key)

PollSpec == PollInit /\ [][PollNext]_pollVars

\* The sweeper comes by and transactions go on.
PollTransactions ==
    \/ \E v \in Voters : CommitVote(v)
    \/ \E a \in {Author, Sweeper} : CommitClose(a)
    \/ BeginClose(Sweeper)

\* A wake that was begun is handed over or given up.
Wakes(n) == WakeAuthor(n) \/ NobodyThere(n)

\* Every event that is not dropped is published, and its handler goes on, however
\* often events are repeated.  Nothing is said of when the author's runtime connects.
PollFairness ==
    /\ WF_pollVars(PollTransactions)
    /\ \A n \in Events : /\ WF_pollVars(~published[n] /\ PublishEvent(n))
                        /\ WF_pollVars(ClaimWake(n)) /\ WF_pollVars(Wakes(n))

-----------------------------------------------------------------------------
(* Properties *)

\* A closed poll stays closed with the votes it had: a vote that waited for the row
\* while the author or the sweeper closed it comes too late, and the close is
\* announced once, as the last event (castVote, closePoll).
ClosedIsFinal ==
    [][closed => closed' /\ votes' = votes /\ change' = change]_pollVars

Final == Cardinality(Committed)

\* The author of a poll that expires is woken for the end, whatever votes come at the
\* same time or are delivered late: the debounce of the votes does not swallow the
\* close (comment of handlePollUpdated).  The wake is made once: it reaches a runtime
\* that is subscribed, now or in the 20 s in which a pod may come up, and is given up
\* otherwise; nothing else tells the author (scheduler.ts:133, 576-601, 1309).  Excepted
\* are a fault that took the event or its handler, and an author who closed the poll.
AuthorHearsOfClose ==
    expired ~> /\ closed
               /\ \/ Final \in told \/ Final \in unheard
                  \/ change[Final].by = Author \/ pollFaults > 0
=============================================================================
