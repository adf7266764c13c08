------------------------------ MODULE Worklog ------------------------------
(***************************************************************************)
(* Claims on heavy work (image, document, calendar event): claimWork and   *)
(* releaseWork of src/server/src/agents/runtime/inproc-client.ts around    *)
(* the commands of cli.ts, for one (task type, subject) of a tenant: one   *)
(* field of a Redis hash that holds the claims of all its subjects.        *)
(*                                                                         *)
(* Time: Tick is a gap longer than the 300 s TTL.  A Redis call times out  *)
(* after seconds, so one that begins before a gap ends before it is over.  *)
(***************************************************************************)
EXTENDS Integers, FiniteSets

CONSTANTS
    Procs,          \* commands
    Agents,
    Owner,          \* Owner[c]: the agent that issued command c
    Nothing,        \* no claim in the hash field
    MaxRedis,       \* bound: Redis calls that fail
    MaxCrashes,     \* bound: processes that die under a command
    Gaps            \* when a gap may end: "between calls", "always"

ASSUME WorklogAssumption ==
    /\ Owner \in [Procs -> Agents]
    /\ Nothing \notin [by : Agents, of : Procs, old : BOOLEAN]
    /\ {MaxRedis, MaxCrashes} \subseteq Nat
    /\ Gaps \in {"between calls", "always"}

VARIABLES
    entry,      \* the hash field: Nothing, or a claim
    ttl,        \* the hash has a TTL
    pc,         \* where each command is
    faults      \* what went wrong so far, and whether a gap was over (ghost)

vars == <<entry, ttl, pc, faults>>

Steps == {"idle", "hsetnx", "expire", "hget", "retry", "evict", "retake", "look",
          "work", "relget", "reldel"}

\* `of` is the command behind the claim (ghost: the code stores the agent only).
Claim == [by : Agents, of : Procs, old : BOOLEAN]

TypeOK ==
    /\ entry \in Claim \cup {Nothing}
    /\ ttl \in BOOLEAN
    /\ pc \in [Procs -> Steps]
    /\ faults \in [redis : Nat, crashes : Nat, gap : BOOLEAN]

Init ==
    /\ entry = Nothing /\ ttl = FALSE
    /\ pc = [c \in Procs |-> "idle"]
    /\ faults = [redis |-> 0, crashes |-> 0, gap |-> FALSE]

Goto(c, step) == pc' = [pc EXCEPT ![c] = step]

-----------------------------------------------------------------------------
(* claimWork *)

Start(c) ==
    /\ pc[c] = "idle"
    /\ Goto(c, "hsetnx")
    /\ UNCHANGED <<entry, ttl, faults>>

\* Mutant: the claim names the command, not the agent.
MineByCommand(c) == [by |-> c, of |-> c, old |-> FALSE]

Mine(c) == [by |-> Owner[c], of |-> c, old |-> FALSE]

\* Mutant: HSET, which does not look.
ClaimBlindly(c, lost) ==
    /\ entry' = Mine(c)
    /\ Goto(c, "expire")

\* HSETNX, and where the command goes when the field is taken.
ClaimField(c, lost) ==
    IF entry = Nothing
    THEN entry' = Mine(c) /\ Goto(c, "expire")
    ELSE UNCHANGED entry /\ Goto(c, lost)

Hsetnx(c) ==
    /\ \/ pc[c] = "hsetnx" /\ ClaimField(c, "hget")
       \/ pc[c] = "retry" /\ ClaimField(c, "idle")          \* <unknown> holds it
       \/ pc[c] = "retake" /\ ClaimField(c, "look")
    /\ UNCHANGED <<ttl, faults>>

\* EXPIRE of the whole hash, then the command is accepted.
Expire(c) ==
    /\ pc[c] = "expire"
    /\ ttl' = (ttl \/ entry # Nothing)
    /\ Goto(c, "work")
    /\ UNCHANGED <<entry, faults>>

\* Mutant: no claim is ever too old.
NeverStale == FALSE

Stale == entry.old

\* Refused with the holder's name, unless the claim is gone or stale.
Hget(c) ==
    /\ pc[c] = "hget"
    /\ Goto(c, CASE entry = Nothing -> "retry"
                 [] entry # Nothing /\ Stale -> "evict"
                 [] OTHER -> "idle")
    /\ UNCHANGED <<entry, ttl, faults>>

\* An empty hash is deleted with its TTL, one with other claims keeps it.
Drop ==
    /\ entry' = Nothing
    /\ ttl' \in {ttl, FALSE}

\* HDEL of whatever the field holds by now.
Evict(c) ==
    /\ pc[c] = "evict"
    /\ Drop
    /\ Goto(c, "retake")
    /\ UNCHANGED faults

\* Lost the eviction race: the HGET for the refusal.
Look(c) ==
    /\ pc[c] = "look"
    /\ Goto(c, "idle")
    /\ UNCHANGED <<entry, ttl, faults>>

\* A Redis call fails, its effect made or not: fail-open.
ClaimFails(c) ==
    /\ pc[c] \in {"hsetnx", "expire", "hget", "retry", "evict", "retake", "look"}
    /\ faults.redis < MaxRedis
    /\ faults' = [faults EXCEPT !.redis = @ + 1]
    /\ \/ UNCHANGED <<entry, ttl>>
       \/ /\ pc[c] \in {"hsetnx", "retry", "retake"} /\ entry = Nothing
          /\ entry' = Mine(c) /\ UNCHANGED ttl
       \/ pc[c] = "evict" /\ Drop
    /\ Goto(c, "work")

-----------------------------------------------------------------------------
(* The work, and releaseWork in the command's finally block. *)

Finish(c) ==
    /\ pc[c] = "work"
    /\ Goto(c, "relget")
    /\ UNCHANGED <<entry, ttl, faults>>

OwnClaim(c) == entry # Nothing /\ entry.by = Owner[c]

ReleaseGet(c) ==
    /\ pc[c] = "relget"
    /\ Goto(c, IF OwnClaim(c) THEN "reldel" ELSE "idle")
    /\ UNCHANGED <<entry, ttl, faults>>

ReleaseDel(c) ==
    /\ pc[c] = "reldel"
    /\ Drop
    /\ Goto(c, "idle")
    /\ UNCHANGED faults

\* A failing release is only logged.
ReleaseFails(c) ==
    /\ pc[c] \in {"relget", "reldel"}
    /\ faults.redis < MaxRedis
    /\ faults' = [faults EXCEPT !.redis = @ + 1]
    /\ \/ UNCHANGED <<entry, ttl>>
       \/ pc[c] = "reldel" /\ Drop
    /\ Goto(c, "idle")

\* The process dies with the command.
Crash(c) ==
    /\ pc[c] # "idle"
    /\ faults.crashes < MaxCrashes
    /\ faults' = [faults EXCEPT !.crashes = @ + 1]
    /\ Goto(c, "idle")
    /\ UNCHANGED <<entry, ttl>>

\* More than 300 s pass.  The hash expires with all its claims, unless it has no
\* TTL or a claim on another subject renewed it meanwhile.
Tick ==
    /\ \/ Gaps = "always"
       \/ Gaps = "between calls" /\ \A c \in Procs : pc[c] \in {"idle", "work"}
    /\ \/ ttl /\ entry' = Nothing /\ ttl' = FALSE
       \/ /\ entry' = IF entry = Nothing THEN entry ELSE [entry EXCEPT !.old = TRUE]
          /\ UNCHANGED ttl
    /\ faults' = [faults EXCEPT !.gap = TRUE]
    /\ UNCHANGED pc

-----------------------------------------------------------------------------
Advance(c) ==
    \/ Hsetnx(c) \/ Expire(c) \/ Hget(c) \/ Evict(c) \/ Look(c)
    \/ Finish(c) \/ ReleaseGet(c) \/ ReleaseDel(c)

Next ==
    \/ \E c \in Procs : Start(c) \/ Advance(c) \/ ClaimFails(c) \/ ReleaseFails(c) \/ Crash(c)
    \/ Tick

Spec == Init /\ [][Next]_vars

\* Awaited calls return and time passes; nobody has to start a command.
FairSpec == Spec /\ WF_vars(Tick) /\ \A c \in Procs : WF_vars(Advance(c))

-----------------------------------------------------------------------------
(* Properties *)

Workers == {c \in Procs : pc[c] = "work"}

\* Within the TTL the same work is done by one command at a time: releases that
\* read and delete in two calls, dead holders and racing claims included.  Only
\* a failing Redis call lets one more through (fail-open of claimWork).
OneWinner == ~faults.gap => Cardinality(Workers) <= 1 + faults.redis

\* A subject is never blocked for good: whoever keeps asking for work whose
\* holder died gets it, even while other subjects keep the hash alive (stale
\* eviction of claimWork).
NeverBlocked ==
    (\E c \in Procs : []<>(pc[c] = "hsetnx")) => []<>(Workers # {})

\* claimWork: "Stale claim --- evict and take it over": an eviction hits a stale
\* claim, never the one a faster claimant has just been granted.
EvictsOnlyStale ==
    [][\A c \in Procs : Evict(c) => entry = Nothing \/ entry.old]_vars
=============================================================================
