---------------------------- MODULE DeliveryProofs ----------------------------
(***************************************************************************)
(* What is to be delivered after a commit, for every value of the          *)
(* constants: the mails of email-retry.ts, the wake streams of wake-bus.ts *)
(* and the end of a poll.  The components share no state, their proofs     *)
(* only the library; at the end, what holds of each holds in their sum.    *)
(***************************************************************************)
EXTENDS MCDelivery, OutboxProofs, FiniteSetTheorems, SequenceTheorems, TLAPS

-----------------------------------------------------------------------------
(* Polls: a close is final.                                                *)

\* One transaction at a time holds the row, and none that of a closed poll.
OneInside == \A t, u \in inside : t = u
NoLateLock == OneInside /\ (closed => inside = {})

\* The events are those of the outbox, which keeps the types of its verdicts.
LEMMA AnnounceTypes ==
    ASSUME PollTypeOK, NEW actor \in Actors, NEW closes \in BOOLEAN, Announce(actor, closes)
    PROVE  /\ change' \in [Events -> [closes : BOOLEAN, by : Actors \cup {NoActor}]]
           /\ phase' \in [Events -> Bus!Phases] /\ published' \in [Events -> BOOLEAN]
<1> DEFINE n == Cardinality(Committed) + 1
<1>1. Bus!Enqueue(n) /\ change' = [change EXCEPT ![n] = [closes |-> closes, by |-> actor]]
  BY DEF Announce
<1>2. change' \in [Events -> [closes : BOOLEAN, by : Actors \cup {NoActor}]]
  BY <1>1 DEF PollTypeOK
<1>3. phase' \in [Events -> Bus!Phases] /\ published' = published
  BY <1>1 DEF PollTypeOK, Bus!Enqueue, Bus!Phases
<1> QED
  BY <1>2, <1>3 DEF PollTypeOK

LEMMA InitType == PollInit => PollTypeOK
<1> SUFFICES ASSUME PollInit PROVE PollTypeOK
  OBVIOUS
<1>1. phase \in [Events -> Bus!Phases] /\ published \in [Events -> BOOLEAN]
  BY DEF PollInit, Bus!DInit, Bus!Phases
<1>2. votes \in [Voters -> SUBSET Options] /\ pollFaults \in Nat
  BY DEF PollInit
<1> QED
  BY <1>1, <1>2 DEF PollInit, PollTypeOK

LEMMA NextType == PollTypeOK /\ [PollNext]_pollVars => PollTypeOK'
<1> SUFFICES ASSUME PollTypeOK, [PollNext]_pollVars PROVE PollTypeOK'
  OBVIOUS
<1>1. ASSUME NEW v \in Voters, BeginVote(v) PROVE PollTypeOK'
  BY <1>1 DEF BeginVote, authorVars, PollTypeOK, Actors
<1>2. ASSUME NEW v \in Voters, CommitVote(v) PROVE PollTypeOK'
  <2>1. votes' \in [Voters -> SUBSET Options]
    BY <1>2 DEF CommitVote, PollTypeOK
  <2>2. Announce(v, FALSE) /\ v \in Actors
    BY <1>2 DEF CommitVote, Actors
  <2> QED
    BY <1>2, <2>1, <2>2, AnnounceTypes DEF CommitVote, authorVars, PollTypeOK
<1>3. ASSUME NEW a \in {Author, Sweeper}, BeginClose(a) PROVE PollTypeOK'
  BY <1>3 DEF BeginClose, authorVars, PollTypeOK, Actors
<1>4. ASSUME NEW a \in {Author, Sweeper}, CommitClose(a) PROVE PollTypeOK'
  <2>1. Announce(a, TRUE) /\ a \in Actors
    BY <1>4 DEF CommitClose, Actors
  <2> QED
    BY <1>4, <2>1, AnnounceTypes DEF CommitClose, authorVars, PollTypeOK
<1>5. ASSUME Rollback PROVE PollTypeOK'
  BY <1>5 DEF Rollback, PollFault, authorVars, PollTypeOK
<1>6. ASSUME Expire PROVE PollTypeOK'
  BY <1>6 DEF Expire, authorVars, PollTypeOK
<1>7. ASSUME NEW n \in Events, PublishEvent(n) PROVE PollTypeOK'
  BY <1>7 DEF PublishEvent, Bus!Deliver, authorVars, PollTypeOK
<1>8. ASSUME NEW n \in Events, Acked(n) PROVE PollTypeOK'
  BY <1>8 DEF Acked, Bus!Acknowledge, Bus!Phases, authorVars, PollTypeOK
<1>9. ASSUME NEW n \in Events, Dropped(n) PROVE PollTypeOK'
  BY <1>9 DEF Dropped, PollFault, Bus!Drop, Bus!Phases, authorVars, PollTypeOK
<1>10. ASSUME NEW n \in Events, ClaimWake(n) PROVE PollTypeOK'
  <2>1. ClaimKey(n) \in {"vote", "close"}
    BY DEF ClaimKey
  <2>2. handling' \in SUBSET (Events \X {"claim", "wake"})
    BY <1>10 DEF ClaimWake, PollTypeOK
  <2>3. wakeKeys' \in SUBSET {"vote", "close"}
    BY <1>10, <2>1 DEF ClaimWake, PollTypeOK
  <2> QED
    BY <1>10, <2>2, <2>3 DEF ClaimWake, authorVars, PollTypeOK
<1>11. ASSUME NEW n \in Events, WakeAuthor(n) PROVE PollTypeOK'
  BY <1>11 DEF WakeAuthor, PollTypeOK
<1>15. ASSUME NEW n \in Events, NobodyThere(n) PROVE PollTypeOK'
  BY <1>15 DEF NobodyThere, PollTypeOK
<1>16. ASSUME AuthorComesOrGoes PROVE PollTypeOK'
  BY <1>16 DEF AuthorComesOrGoes, PollTypeOK
<1>12. ASSUME NEW n \in Events, HandlingFails(n) PROVE PollTypeOK'
  BY <1>12 DEF HandlingFails, PollFault, authorVars, PollTypeOK
<1>13. ASSUME NEW key \in {"vote", "close"}, KeyExpires(key) PROVE PollTypeOK'
  BY <1>13 DEF KeyExpires, authorVars, PollTypeOK
<1>14. ASSUME UNCHANGED pollVars PROVE PollTypeOK'
  BY <1>14 DEF pollVars, PollTypeOK
<1> QED
  BY <1>1, <1>2, <1>3, <1>4, <1>5, <1>6, <1>7, <1>8, <1>9, <1>10, <1>11, <1>12, <1>13, <1>14,
     <1>15, <1>16 DEF PollNext

\* The state of votes, locks, events and wakes always has its type (polls.ts and
\* handlePollUpdated).
THEOREM PollTypeCorrect == PollSpec => []PollTypeOK
<1> QED
  BY InitType, NextType, PTL DEF PollSpec

LEMMA LockInit == PollInit => NoLateLock
BY DEF PollInit, NoLateLock, OneInside

\* The checks are made under the lock: what the row says cannot change before the
\* commit.
LEMMA LockNext == NoLateLock /\ [PollNext]_pollVars => NoLateLock'
<1> SUFFICES ASSUME NoLateLock, [PollNext]_pollVars PROVE NoLateLock'
  OBVIOUS
<1>1. ASSUME NEW v \in Voters, BeginVote(v) PROVE NoLateLock'
  BY <1>1 DEF BeginVote, RowFree, NoLateLock, OneInside
<1>2. ASSUME NEW a \in {Author, Sweeper}, BeginClose(a) PROVE NoLateLock'
  BY <1>2 DEF BeginClose, RowFree, NoLateLock, OneInside
<1>3. ASSUME NEW t \in inside, inside' = inside \ {t} PROVE NoLateLock'
  BY <1>3 DEF NoLateLock, OneInside
<1>4. ASSUME UNCHANGED <<closed, inside>> PROVE NoLateLock'
  BY <1>4 DEF NoLateLock, OneInside
<1>5. ASSUME NEW n \in Events, PublishEvent(n) \/ Acked(n) \/ Dropped(n) PROVE NoLateLock'
  BY <1>5, <1>4 DEF PublishEvent, Acked, Dropped
<1>6. ASSUME NEW n \in Events, ClaimWake(n) \/ Wakes(n) \/ HandlingFails(n)
      PROVE NoLateLock'
  BY <1>6, <1>4 DEF ClaimWake, Wakes, WakeAuthor, NobodyThere, HandlingFails
<1>7. ASSUME NEW key \in {"vote", "close"}, KeyExpires(key) PROVE NoLateLock'
  BY <1>7, <1>4 DEF KeyExpires
<1>8. ASSUME NEW v \in Voters, CommitVote(v) PROVE NoLateLock'
  BY <1>8, <1>3 DEF CommitVote
<1>9. ASSUME NEW a \in {Author, Sweeper}, CommitClose(a) PROVE NoLateLock'
  BY <1>9, <1>3 DEF CommitClose
<1>10. ASSUME Rollback \/ Expire \/ AuthorComesOrGoes PROVE NoLateLock'
  BY <1>10, <1>3, <1>4 DEF Rollback, Expire, AuthorComesOrGoes
<1>11. ASSUME UNCHANGED pollVars PROVE NoLateLock'
  BY <1>11, <1>4 DEF pollVars
<1> QED
  BY <1>1, <1>2, <1>5, <1>6, <1>7, <1>8, <1>9, <1>10, <1>11 DEF PollNext, Wakes

\* What ClosedIsFinal says of a step.
Finality == closed => closed' /\ votes' = votes /\ change' = change

\* A transaction that changes the poll holds the row, which a closed one denies.
LEMMA FinalStep == NoLateLock /\ PollNext => Finality
<1> SUFFICES ASSUME NoLateLock, PollNext, closed
             PROVE  closed' /\ votes' = votes /\ change' = change
  BY DEF Finality
<1>1. inside = {}
  BY DEF NoLateLock
<1>2. \A v \in Voters : ~BeginVote(v) /\ ~CommitVote(v)
  <2>1. \A v \in Voters : CommitVote(v) => <<v, "vote">> \in inside
    BY DEF CommitVote
  <2>2. \A v \in Voters : ~BeginVote(v)
    BY ZenonT(10) DEF BeginVote
  <2> QED
    BY <1>1, <2>1, <2>2
<1>3. \A a \in {Author, Sweeper} : ~BeginClose(a) /\ ~CommitClose(a)
  <2>1. \A a \in {Author, Sweeper} : CommitClose(a) => <<a, "close">> \in inside
    BY DEF CommitClose
  <2>2. \A a \in {Author, Sweeper} : ~BeginClose(a)
    BY ZenonT(10) DEF BeginClose
  <2> QED
    BY <1>1, <2>1, <2>2
<1>4. ASSUME Rollback \/ Expire \/ AuthorComesOrGoes
      PROVE  closed' /\ votes' = votes /\ change' = change
  BY <1>4 DEF Rollback, Expire, AuthorComesOrGoes
<1>5. ASSUME NEW n \in Events, PublishEvent(n) \/ Acked(n) \/ Dropped(n)
      PROVE  closed' /\ votes' = votes /\ change' = change
  BY <1>5 DEF PublishEvent, Acked, Dropped
<1>6. ASSUME NEW n \in Events, ClaimWake(n) \/ Wakes(n) \/ HandlingFails(n)
      PROVE  closed' /\ votes' = votes /\ change' = change
  BY <1>6 DEF ClaimWake, Wakes, WakeAuthor, NobodyThere, HandlingFails
<1>7. ASSUME NEW key \in {"vote", "close"}, KeyExpires(key)
      PROVE  closed' /\ votes' = votes /\ change' = change
  BY <1>7 DEF KeyExpires
<1> QED
  BY <1>2, <1>3, <1>4, <1>5, <1>6, <1>7 DEF PollNext, Wakes

\* A closed poll stays closed with the votes it had and the events it announced,
\* whoever votes or closes at the same time (castVote, closePoll).
THEOREM CloseIsFinal == PollSpec => ClosedIsFinal
<1>1. NoLateLock /\ [PollNext]_pollVars => [Finality]_pollVars
  BY FinalStep
<1> QED
  BY LockInit, LockNext, <1>1, PTL DEF PollSpec, ClosedIsFinal, Finality

-----------------------------------------------------------------------------
(* Polls: the author hears of the close. *)

\* The events are numbered as they are committed, and one is left for the close.
EventsNumbered ==
    /\ Final \in 0 .. MaxEvents /\ Committed = 1 .. Final
    /\ ~closed => Final < MaxEvents
    /\ \A t \in inside : t[2] = "vote" => Final < MaxEvents - 1

\* Only the last event of a closed poll closes it, and only that sets the key.
CloseIsLast ==
    /\ \A n \in Events : change[n].closes <=> closed /\ n = Final
    /\ closed => Final \in Events
    /\ ~closed => "close" \notin wakeKeys
    /\ \A n \in Events \ Committed : ~published[n]

\* Where the wake for the close is, as long as nothing failed: handed to a stream that
\* was subscribed, given up because none was, or on its way.
CloseCarried ==
    closed /\ pollFaults = 0 =>
        \/ change[Final].by = Author
        \/ Final \in told \/ Final \in unheard
        \/ <<Final, "wake">> \in handling
        \/ /\ "close" \notin wakeKeys
           /\ <<Final, "claim">> \in handling \/ (phase[Final] = "queued" /\ ~published[Final])

LEMMA OneTo == \A k \in Nat : Cardinality(1 .. k) = k
<1>1. \A a, b \in Int : Cardinality(a .. b) = IF a > b THEN 0 ELSE b - a + 1
  BY FS_Interval, Zenon
<1> QED
  BY <1>1

\* An event gets the next number.
LEMMA NextEvent ==
    ASSUME PollTypeOK, EventsNumbered, Final < MaxEvents,
           NEW actor, NEW closes \in BOOLEAN, Announce(actor, closes)
    PROVE  /\ Final + 1 \in Events \ Committed
           /\ Final' = Final + 1 /\ Committed' = 1 .. Final + 1
           /\ phase'[Final + 1] = "queued" /\ published' = published
           /\ change' = [change EXCEPT ![Final + 1] = [closes |-> closes, by |-> actor]]
<1>1. Final \in Nat /\ Final + 1 \in Events /\ Final + 1 \notin Committed
  BY PollAssumption DEF EventsNumbered, Events
<1>2. /\ phase' = [phase EXCEPT ![Final + 1] = "queued"] /\ published' = published
      /\ change' = [change EXCEPT ![Final + 1] = [closes |-> closes, by |-> actor]]
  BY DEF Announce, Final, Bus!Enqueue
<1>3. Committed' = Committed \cup {Final + 1} /\ phase'[Final + 1] = "queued"
  BY <1>1, <1>2 DEF Committed, PollTypeOK
<1>4. Committed' = 1 .. Final + 1
  BY <1>1, <1>3 DEF EventsNumbered
<1>5. Final' = Final + 1
  BY <1>1, <1>4, OneTo DEF Final
<1> QED
  BY <1>1, <1>2, <1>3, <1>4, <1>5

\* Every other step leaves the numbers alone.
LEMMA SameEvents ==
    ASSUME PollTypeOK, PollNext \/ UNCHANGED pollVars,
           ~\E v \in Voters : CommitVote(v), ~\E a \in {Author, Sweeper} : CommitClose(a)
    PROVE  Committed' = Committed /\ Final' = Final /\ UNCHANGED <<change, closed>>
<1>1. \A n \in Events : phase'[n] = "absent" <=> phase[n] = "absent"
  <2>1. ASSUME UNCHANGED phase PROVE \A n \in Events : phase'[n] = "absent" <=> phase[n] = "absent"
    BY <2>1
  <2>2. ASSUME NEW n \in Events, Acked(n) \/ Dropped(n)
        PROVE  \A m \in Events : phase'[m] = "absent" <=> phase[m] = "absent"
    BY <2>2 DEF Acked, Dropped, Bus!Acknowledge, Bus!Drop, PollTypeOK
  <2>3. ASSUME NEW n \in Events,
               PublishEvent(n) \/ ClaimWake(n) \/ Wakes(n) \/ HandlingFails(n)
        PROVE  UNCHANGED phase
    BY <2>3 DEF PublishEvent, Bus!Deliver, ClaimWake, Wakes, WakeAuthor, NobodyThere,
       HandlingFails
  <2>4. ASSUME \/ \E v \in Voters : BeginVote(v)
               \/ \E a \in {Author, Sweeper} : BeginClose(a)
               \/ Rollback \/ Expire \/ AuthorComesOrGoes
               \/ \E key \in {"vote", "close"} : KeyExpires(key)
               \/ UNCHANGED pollVars
        PROVE  UNCHANGED phase
    BY <2>4 DEF BeginVote, BeginClose, Rollback, Expire, AuthorComesOrGoes, KeyExpires, pollVars
  <2> QED
    BY <2>1, <2>2, <2>3, <2>4 DEF PollNext, Wakes
<1>2. Committed' = Committed
  BY <1>1 DEF Committed
<1>3. UNCHANGED <<change, closed>>
  BY DEF PollNext, BeginVote, BeginClose, Rollback, Expire,
         AuthorComesOrGoes, PublishEvent, Acked, Dropped,
     ClaimWake, WakeAuthor, NobodyThere, HandlingFails, KeyExpires, pollVars
<1> QED
  BY <1>2, <1>3 DEF Final

LEMMA NumberedStep ==
    ASSUME PollTypeOK, NoLateLock, EventsNumbered, [PollNext]_pollVars
    PROVE  EventsNumbered'
<1>0. Final \in Nat /\ MaxEvents \in Nat
  BY PollAssumption DEF EventsNumbered
<1>1. ASSUME NEW v \in Voters, CommitVote(v) PROVE EventsNumbered'
  <2>1. <<v, "vote">> \in inside /\ Announce(v, FALSE) /\ closed' = closed
    BY <1>1 DEF CommitVote
  <2>2. Final < MaxEvents - 1 /\ inside' = {}
    BY <1>1, <2>1 DEF CommitVote, EventsNumbered, NoLateLock, OneInside
  <2>3. Final < MaxEvents
    BY <1>0, <2>2
  <2>4. Final' = Final + 1 /\ Committed' = 1 .. Final + 1
    BY <2>1, <2>3, NextEvent
  <2> QED
    BY <1>0, <2>2, <2>4 DEF EventsNumbered
<1>2. ASSUME NEW a \in {Author, Sweeper}, CommitClose(a) PROVE EventsNumbered'
  <2>1. <<a, "close">> \in inside /\ Announce(a, TRUE) /\ closed'
    BY <1>2 DEF CommitClose
  <2>2. ~closed /\ inside' = {}
    BY <1>2, <2>1 DEF CommitClose, NoLateLock, OneInside
  <2>3. Final' = Final + 1 /\ Committed' = 1 .. Final + 1 /\ Final < MaxEvents
    BY <2>1, <2>2, NextEvent DEF EventsNumbered
  <2> QED
    BY <1>0, <2>1, <2>2, <2>3 DEF EventsNumbered
<1>3. ASSUME ~\E v \in Voters : CommitVote(v), ~\E a \in {Author, Sweeper} : CommitClose(a)
      PROVE  EventsNumbered'
  <2>1. Committed' = Committed /\ Final' = Final /\ closed' = closed
    BY <1>3, SameEvents
  <2>2. ASSUME NEW t \in inside', t[2] = "vote" PROVE Final < MaxEvents - 1
    <3>1. CASE t \in inside
      BY <2>2, <3>1 DEF EventsNumbered
    <3>2. CASE t \notin inside
      <4>1. PICK v \in Voters : BeginVote(v)
        <5>1. ASSUME NEW a \in {Author, Sweeper}, BeginClose(a) PROVE FALSE
          BY <2>2, <3>2, <5>1 DEF BeginClose
        <5>2. ASSUME \/ \E n \in Events : \/ PublishEvent(n) \/ Acked(n) \/ Dropped(n)
                                          \/ ClaimWake(n) \/ Wakes(n) \/ HandlingFails(n)
                     \/ Rollback \/ Expire \/ AuthorComesOrGoes
                     \/ \E key \in {"vote", "close"} : KeyExpires(key)
                     \/ UNCHANGED pollVars
              PROVE  FALSE
          BY <3>2, <5>2 DEF PublishEvent, Acked, Dropped, ClaimWake, Wakes, WakeAuthor, NobodyThere,
             HandlingFails, Rollback, Expire, AuthorComesOrGoes, KeyExpires, pollVars
        <5> QED
          BY <1>3, <5>1, <5>2 DEF PollNext, Wakes
      <4> QED
        BY <4>1 DEF BeginVote, Final
    <3> QED
      BY <3>1, <3>2
  <2> QED
    BY <2>1, <2>2 DEF EventsNumbered
<1> QED
  BY <1>1, <1>2, <1>3

LEMMA CloseIsLastStep ==
    ASSUME PollTypeOK, NoLateLock, EventsNumbered, CloseIsLast, [PollNext]_pollVars
    PROVE  CloseIsLast'
<1>0. Final \in Nat /\ Committed \subseteq Events
  BY DEF EventsNumbered, Committed
<1>1. ASSUME NEW v \in Voters, CommitVote(v) PROVE CloseIsLast'
  <2>1. <<v, "vote">> \in inside /\ Announce(v, FALSE) /\ UNCHANGED <<closed, wakeKeys>>
    BY <1>1 DEF CommitVote
  <2>2. ~closed /\ Final < MaxEvents
    BY <2>1 DEF NoLateLock, EventsNumbered
  <2>3. /\ Final' = Final + 1 /\ Final + 1 \in Events /\ Committed' = 1 .. Final + 1
        /\ published' = published
        /\ change' = [change EXCEPT ![Final + 1] = [closes |-> FALSE, by |-> v]]
    BY <2>1, <2>2, NextEvent
  <2>4. \A n \in Events : ~change'[n].closes
    BY <2>2, <2>3 DEF CloseIsLast, PollTypeOK
  <2>5. Events \ Committed' \subseteq Events \ Committed
    BY <1>0, <2>3 DEF EventsNumbered
  <2> QED
    BY <2>1, <2>2, <2>3, <2>4, <2>5 DEF CloseIsLast
<1>2. ASSUME NEW a \in {Author, Sweeper}, CommitClose(a) PROVE CloseIsLast'
  <2>1. <<a, "close">> \in inside /\ Announce(a, TRUE) /\ closed'
    BY <1>2 DEF CommitClose
  <2>2. ~closed /\ Final < MaxEvents
    BY <2>1 DEF NoLateLock, EventsNumbered
  <2>3. /\ Final' = Final + 1 /\ Final + 1 \in Events /\ Committed' = 1 .. Final + 1
        /\ published' = published
        /\ change' = [change EXCEPT ![Final + 1] = [closes |-> TRUE, by |-> a]]
    BY <2>1, <2>2, NextEvent
  <2>4. \A n \in Events : change'[n].closes <=> n = Final + 1
    BY <2>2, <2>3 DEF CloseIsLast, PollTypeOK
  <2>5. Events \ Committed' \subseteq Events \ Committed
    BY <1>0, <2>3 DEF EventsNumbered
  <2> QED
    BY <2>1, <2>2, <2>3, <2>4, <2>5 DEF CloseIsLast
<1>3. ASSUME ~\E v \in Voters : CommitVote(v), ~\E a \in {Author, Sweeper} : CommitClose(a)
      PROVE  CloseIsLast'
  <2>1. Committed' = Committed /\ Final' = Final /\ UNCHANGED <<change, closed>>
    BY <1>3, SameEvents
  <2>2. ASSUME ~closed PROVE "close" \notin wakeKeys'
    <3>1. ASSUME NEW n \in Events, ClaimWake(n) PROVE "close" \notin wakeKeys'
      <4>1. ClaimKey(n) = "vote" /\ "close" \notin wakeKeys
        BY <2>2 DEF ClaimKey, CloseIsLast
      <4> QED
        BY <3>1, <4>1 DEF ClaimWake, authorVars
    <3>2. ASSUME NEW key, KeyExpires(key) PROVE "close" \notin wakeKeys'
      BY <2>2, <3>2 DEF KeyExpires, CloseIsLast
    <3>3. ASSUME UNCHANGED wakeKeys PROVE "close" \notin wakeKeys'
      BY <2>2, <3>3 DEF CloseIsLast
    <3> QED
      BY <1>3, <3>1, <3>2, <3>3 DEF PollNext, BeginVote, BeginClose, Rollback, Expire, AuthorComesOrGoes,
         PublishEvent, Acked, Dropped, WakeAuthor, NobodyThere, HandlingFails, pollVars
  <2>3. ASSUME NEW n \in Events \ Committed PROVE ~published'[n]
    <3>1. ASSUME NEW m \in Events, PublishEvent(m) PROVE ~published'[n]
      <4>1. phase[m] # "absent" /\ published' = [published EXCEPT ![m] = TRUE]
        BY <3>1 DEF PublishEvent, Bus!Deliver
      <4>2. n # m
        BY <4>1 DEF Committed
      <4> QED
        BY <4>1, <4>2 DEF CloseIsLast, PollTypeOK
    <3>2. ASSUME UNCHANGED published PROVE ~published'[n]
      BY <3>2 DEF CloseIsLast
    <3> QED
      BY <1>3, <3>1, <3>2 DEF PollNext, BeginVote, BeginClose, Rollback, Expire, AuthorComesOrGoes,
         Acked, Bus!Acknowledge, Dropped, Bus!Drop, ClaimWake, WakeAuthor, NobodyThere,
         HandlingFails, KeyExpires, pollVars
  <2> QED
    BY <2>1, <2>2, <2>3 DEF CloseIsLast
<1> QED
  BY <1>1, <1>2, <1>3

\* The handler of a late vote claims another key, and a repeated event finds the first
\* handler's claim.
LEMMA CarriedStep ==
    ASSUME PollTypeOK, NoLateLock, EventsNumbered, CloseIsLast, CloseCarried,
           [PollNext]_pollVars
    PROVE  CloseCarried'
<1>1. ASSUME NEW a \in {Author, Sweeper}, CommitClose(a) PROVE CloseCarried'
  <2>1. Announce(a, TRUE) /\ wakeKeys' = wakeKeys /\ <<a, "close">> \in inside
    BY <1>1 DEF CommitClose
  <2>2. ~closed /\ Final < MaxEvents
    BY <2>1 DEF NoLateLock, EventsNumbered
  <2>3. /\ Final' = Final + 1 /\ Final + 1 \in Events \ Committed
        /\ phase'[Final + 1] = "queued" /\ published' = published
    BY <2>1, <2>2, NextEvent
  <2> QED
    BY <2>1, <2>2, <2>3 DEF CloseCarried, CloseIsLast
<1>2. ASSUME NEW v \in Voters, CommitVote(v) PROVE CloseCarried'
  BY <1>2 DEF CommitVote, NoLateLock, CloseCarried
<1>3. ASSUME ~\E v \in Voters : CommitVote(v), ~\E a \in {Author, Sweeper} : CommitClose(a)
      PROVE  CloseCarried'
  <2> SUFFICES ASSUME closed, pollFaults' = 0, change[Final].by # Author
               PROVE  \/ Final \in told' \/ Final \in unheard'
                      \/ <<Final, "wake">> \in handling'
                      \/ /\ "close" \notin wakeKeys'
                         /\ \/ <<Final, "claim">> \in handling'
                            \/ phase'[Final] = "queued" /\ ~published'[Final]
    BY <1>3, SameEvents DEF CloseCarried
  <2>1. pollFaults \in Nat /\ ~PollFault
    BY DEF PollFault, PollTypeOK
  <2>2. Final \in Events /\ change[Final].closes /\ pollFaults = 0
    <3>1. pollFaults' = pollFaults
      BY <1>3, <2>1 DEF PollNext, BeginVote, BeginClose, Rollback, Expire,
         AuthorComesOrGoes, PublishEvent, Acked, Dropped, ClaimWake, WakeAuthor, NobodyThere,
         HandlingFails, KeyExpires, pollVars
    <3> QED
      BY <3>1 DEF CloseIsLast
  <2>3. \/ Final \in told \/ Final \in unheard
        \/ <<Final, "wake">> \in handling
        \/ /\ "close" \notin wakeKeys
           /\ <<Final, "claim">> \in handling \/ (phase[Final] = "queued" /\ ~published[Final])
    BY <2>2 DEF CloseCarried
  <2> DEFINE Goal == \/ Final \in told' \/ Final \in unheard'
                     \/ <<Final, "wake">> \in handling'
                     \/ /\ "close" \notin wakeKeys'
                        /\ \/ <<Final, "claim">> \in handling'
                           \/ phase'[Final] = "queued" /\ ~published'[Final]
  <2>4. ASSUME UNCHANGED <<phase, published, handling, told, unheard>>,
               wakeKeys' \subseteq wakeKeys
        PROVE  Goal
    BY <2>3, <2>4
  <2>5. ASSUME NEW n \in Events, PublishEvent(n) PROVE Goal
    BY <2>2, <2>3, <2>5 DEF PublishEvent, Bus!Deliver, authorVars, PollTypeOK
  <2>6. ASSUME NEW n \in Events, Acked(n) PROVE Goal
    BY <2>2, <2>3, <2>6 DEF Acked, Bus!Acknowledge, authorVars, PollTypeOK
  <2>7. ASSUME NEW n \in Events, ClaimWake(n) PROVE Goal
    <3>1. CASE n = Final
      <4>1. ClaimKey(n) = "close" /\ change[n].by # Author
        BY <2>2, <3>1 DEF ClaimKey
      <4> QED
        BY <2>3, <2>7, <3>1, <4>1 DEF ClaimWake, authorVars
    <3>2. CASE n # Final
      <4>1. ClaimKey(n) = "vote"
        BY <3>2 DEF ClaimKey, CloseIsLast
      <4> QED
        BY <2>3, <2>7, <3>2, <4>1 DEF ClaimWake, authorVars
    <3> QED
      BY <3>1, <3>2
  <2>8. ASSUME NEW n \in Events, WakeAuthor(n) \/ NobodyThere(n) PROVE Goal
    BY <2>3, <2>8 DEF WakeAuthor, NobodyThere
  <2>9. ASSUME \/ \E v \in Voters : BeginVote(v)
               \/ \E a \in {Author, Sweeper} : BeginClose(a)
               \/ Expire \/ AuthorComesOrGoes
               \/ \E key \in {"vote", "close"} : KeyExpires(key)
               \/ UNCHANGED pollVars
        PROVE  Goal
    BY <2>4, <2>9 DEF BeginVote, BeginClose, Expire, AuthorComesOrGoes, KeyExpires,
       authorVars, pollVars
  <2> QED
    BY <1>3, <2>1, <2>5, <2>6, <2>7, <2>8, <2>9 DEF PollNext, Rollback, Dropped, HandlingFails
<1> QED
  BY <1>1, <1>2, <1>3

\* The debounce of the votes never swallows the close (comment of handlePollUpdated):
\* from the commit on, and as long as nothing failed, a runtime of the author was handed
\* the close, or the wake found nobody subscribed and was given up, or it is in a
\* handler's hands, or its event is still to be published with its key free.  It is the
\* safety half of AuthorHearsOfClose, for any number of votes and repetitions.
THEOREM CloseWakesAuthor == PollSpec => []CloseCarried
<1> DEFINE Inv == PollTypeOK /\ NoLateLock /\ EventsNumbered /\ CloseIsLast /\ CloseCarried
<1>1. PollInit => Inv
  <2> SUFFICES ASSUME PollInit PROVE Inv
    OBVIOUS
  <2>1. Committed = {} /\ Committed = 1 .. 0
    BY DEF PollInit, Bus!DInit, Committed
  <2>2. Final = 0
    BY <2>1, OneTo DEF Final
  <2>3. EventsNumbered
    BY <2>1, <2>2, PollAssumption DEF PollInit, EventsNumbered
  <2>4. CloseIsLast /\ CloseCarried
    BY <2>2 DEF PollInit, Bus!DInit, CloseIsLast, CloseCarried
  <2> QED
    BY <2>3, <2>4, InitType, LockInit
<1>2. Inv /\ [PollNext]_pollVars => Inv'
  BY NextType, LockNext, NumberedStep, CloseIsLastStep, CarriedStep
<1>3. Inv => CloseCarried
  OBVIOUS
<1> QED
  BY <1>1, <1>2, <1>3, PTL DEF PollSpec

-----------------------------------------------------------------------------
(* E-mail: what the worker has in its hands                                *)

\* The rows a tick has claimed and not settled.
Copies(t) == ToSet(tick[t].rows)

InRows(m, t) == \E c \in Copies(t) : c.m = m

Held(m) == \E t \in 1 .. Ticks : InRows(m, t)

Sending(m) == sender[m] \in Answer \cup {"send"}

\* The ticks that are still to send the mail.
Unsent(m) == {t \in 1 .. Ticks : InRows(m, t) /\ ~(tick[t].answer # "none" /\ Current(t).m = m)}

MailLosses == mailFaults.crashes + mailFaults.db + mailFaults.overruns

Due(m) == IF mail[m].next = "now" THEN 1 ELSE 0

\* The sends there were, those of the ticks that have the row, and of the next one.
Pledged(m) == tries[m] + Cardinality(Unsent(m)) + Due(m)

\* A tick has a row once, and no answer without a row.
Batches ==
    \A t \in 1 .. Ticks :
        /\ tick[t].rows = <<>> => tick[t].answer = "none"
        /\ \A i, j \in DOMAIN tick[t].rows : tick[t].rows[i].m = tick[t].rows[j].m => i = j

\* What has not been written is in nobody's hands.
Unwritten ==
    \A m \in Mails : mail[m].st = "none" =>
        ~Held(m) /\ ~Sending(m) /\ tries[m] = 0

\* What a tick will write as the number of attempts is short of the sends by no more
\* than there were faults: whoever claims a row that is in other hands has an
\* overrun to account for it.
Counted(m) ==
    /\ \A t \in 1 .. Ticks : \A c \in Copies(t) :
         c.m = m => Pledged(m) <= c.attempts + 1 + MailLosses
    /\ Held(m) => Pledged(m) <= mail[m].attempts + 1 + MailLosses
    /\ ~Held(m) => tries[m] <= mail[m].attempts + MailLosses

\* The first sender may bring the row back once.
Budgeted(m) ==
    /\ tries[m] <= BackoffSteps + MailLosses
    /\ Held(m) => Pledged(m) <= BackoffSteps + MailLosses
    /\ Sending(m) => Pledged(m) + 1 <= BackoffSteps + MailLosses
    /\ ~Held(m) /\ mail[m].next # "never" => tries[m] + 1 <= BackoffSteps + MailLosses

Balance == \A m \in Mails : Counted(m) /\ Budgeted(m)

-----------------------------------------------------------------------------
(* Types *)

Tick == [rows : Seq(Copy), answer : Answer \cup {"none"}]
MailRow == [st : {"none", "sending", "sent", "failed"},
            next : {"now", "later", "never"}, attempts : Nat]

LEMMA MailInitType == MailInit => MailTypeOK
BY DEF MailInit, MailTypeOK, Answer, Copy

\* A fault is one more.
LEMMA MishapCounts ==
    ASSUME MailTypeOK, NEW kind \in {"crashes", "db", "overruns"}, Mishap(kind)
    PROVE  /\ mailFaults' \in [crashes : Nat, db : Nat, overruns : Nat]
           /\ MailLosses \in Nat /\ MailLosses' = MailLosses + 1
           /\ mailFaults'.overruns =
                IF kind = "overruns" THEN mailFaults.overruns + 1 ELSE mailFaults.overruns
BY DEF MailTypeOK, Mishap, MailLosses

\* A row with another status and date.
LEMMA Dated ==
    ASSUME MailTypeOK, NEW m \in Mails,
           NEW st \in {"none", "sending", "sent", "failed"}, NEW next \in {"now", "later", "never"},
           mail' = [mail EXCEPT ![m].st = st, ![m].next = next]
    PROVE  /\ mail' \in [Mails -> MailRow]
           /\ mail'[m].st = st /\ mail'[m].next = next /\ mail'[m].attempts = mail[m].attempts
           /\ \A n \in Mails \ {m} : mail'[n] = mail[n]
<1> DEFINE half == [mail EXCEPT ![m].st = st]
<1>1. half \in [Mails -> MailRow] /\ half[m].st = st /\ half[m].attempts = mail[m].attempts
      /\ \A n \in Mails \ {m} : half[n] = mail[n]
  <2>1. mail \in [Mails -> MailRow]
    BY DEF MailTypeOK, MailRow
  <2>2. [mail[m] EXCEPT !.st = st] \in MailRow
    BY <2>1 DEF MailRow
  <2>3. half = [mail EXCEPT ![m] = [mail[m] EXCEPT !.st = st]]
    BY <2>1
  <2>4. half \in [Mails -> MailRow]
    BY <2>1, <2>2, <2>3
  <2>5. half[m] = [mail[m] EXCEPT !.st = st] /\ \A n \in Mails \ {m} : half[n] = mail[n]
    BY <2>1, <2>3
  <2>6. half[m].st = st /\ half[m].attempts = mail[m].attempts
    BY <2>1, <2>5 DEF MailRow
  <2>7. \A n \in Mails \ {m} : half[n] = mail[n]
    BY <2>5
  <2> HIDE DEF half
  <2> QED
    BY <2>4, <2>5, <2>6, <2>7
<1>2. mail' = [half EXCEPT ![m].next = next]
  BY DEF MailTypeOK
<1> HIDE DEF half
<1>3. /\ mail'[m] = [half[m] EXCEPT !.next = next]
      /\ \A n \in Mails \ {m} : mail'[n] = mail[n]
      /\ DOMAIN mail' = Mails /\ mail' = [n \in Mails |-> mail'[n]]
  BY <1>1, <1>2
<1>4. half[m] \in MailRow
  BY <1>1
<1>5. /\ mail'[m] \in MailRow
      /\ mail'[m].st = st /\ mail'[m].next = next /\ mail'[m].attempts = mail[m].attempts
  BY <1>1, <1>3, <1>4 DEF MailRow
<1>6. \A n \in Mails : mail[n] \in MailRow
  BY DEF MailTypeOK, MailRow
<1>7. \A n \in Mails : mail'[n] \in MailRow
  BY <1>3, <1>5, <1>6
<1>8. mail' \in [Mails -> MailRow]
  BY <1>3, <1>7
<1> QED
  BY <1>3, <1>5, <1>8

\* The rows of a batch, in the order of the claim.
LEMMA BatchRows ==
    ASSUME MailTypeOK, NEW batch \in SUBSET Mails, NEW order \in SetToSeqs(batch),
           batch # {}, IsFiniteSet(batch), NEW rows,
           rows = [i \in DOMAIN order |-> [m |-> order[i], attempts |-> mail[order[i]].attempts]]
    PROVE  /\ rows \in Seq(Copy) /\ rows # <<>>
           /\ ToSet(rows) = {[m |-> m, attempts |-> mail[m].attempts] : m \in batch}
           /\ \A i, j \in DOMAIN rows : rows[i].m = rows[j].m => i = j
<1> DEFINE n == Cardinality(batch)
<1>1. n \in Nat /\ n # 0
  BY FS_CardinalityType, FS_EmptySet
<1>2. /\ order \in [1 .. n -> batch]
      /\ \A i, j \in 1 .. n : i # j => order[i] # order[j]
  BY DEF SetToSeqs
<1>3. IsFiniteSet(1 .. n) /\ Cardinality(1 .. n) = n
  BY <1>1, FS_Interval
<1>4. order \in Injection(1 .. n, batch)
  BY <1>2 DEF Injection, IsInjective
<1>5. order \in Surjection(1 .. n, batch)
  BY <1>3, <1>4, FS_Injection
<1> HIDE DEF n
<1>6. DOMAIN order = 1 .. n /\ DOMAIN rows = 1 .. n
  BY <1>2
<1>7. \A i \in 1 .. n : rows[i] = [m |-> order[i], attempts |-> mail[order[i]].attempts]
                        /\ rows[i] \in Copy /\ rows[i].m = order[i] /\ order[i] \in batch
  BY <1>2, <1>6 DEF MailTypeOK, Copy
<1>8. rows \in Seq(Copy) /\ rows # <<>>
  BY <1>1, <1>6, <1>7
<1>9. ToSet(rows) = {[m |-> m, attempts |-> mail[m].attempts] : m \in batch}
  <2>1. ASSUME NEW m \in batch PROVE \E i \in 1 .. n : order[i] = m
    BY <1>5 DEF Surjection
  <2> QED
    BY <1>6, <1>7, <2>1 DEF ToSet
<1> QED
  BY <1>2, <1>6, <1>7, <1>8, <1>9

\* What ClaimDueRetries does, for a batch of due rows.
LEMMA Claimed ==
    ASSUME MailTypeOK, NEW t \in 1 .. Ticks, ClaimDueRetries(t)
    PROVE  \E batch \in SUBSET Mails :
             /\ \A m \in batch : DueForRetry(m)
             /\ mail' = [m \in Mails |-> IF m \in batch THEN [mail[m] EXCEPT !.next = "later"]
                                         ELSE mail[m]]
             /\ \E rows \in Seq(Copy) :
                  /\ tick' = [tick EXCEPT ![t].rows = rows] /\ rows # <<>>
                  /\ ToSet(rows) = {[m |-> m, attempts |-> mail[m].attempts] : m \in batch}
                  /\ \A i, j \in DOMAIN rows : rows[i].m = rows[j].m => i = j
<1>1. PICK batch \in SUBSET {m \in Mails : DueForRetry(m)} :
        /\ batch # {}
        /\ \E order \in SetToSeqs(batch) :
             tick' = [tick EXCEPT ![t].rows =
               [i \in DOMAIN order |-> [m |-> order[i], attempts |-> mail[order[i]].attempts]]]
        /\ mail' = [m \in Mails |-> IF m \in batch THEN [mail[m] EXCEPT !.next = "later"]
                                    ELSE mail[m]]
  BY DEF ClaimDueRetries, Pushed
<1>2. PICK order \in SetToSeqs(batch) :
        tick' = [tick EXCEPT ![t].rows =
          [i \in DOMAIN order |-> [m |-> order[i], attempts |-> mail[order[i]].attempts]]]
  BY <1>1
<1> DEFINE rows == [i \in DOMAIN order |-> [m |-> order[i], attempts |-> mail[order[i]].attempts]]
<1>3. IsFiniteSet(batch)
  BY FS_Subset, MailAssumption
<1>4. /\ rows \in Seq(Copy) /\ rows # <<>>
      /\ ToSet(rows) = {[m |-> m, attempts |-> mail[m].attempts] : m \in batch}
      /\ \A i, j \in DOMAIN rows : rows[i].m = rows[j].m => i = j
  BY <1>1, <1>3, BatchRows
<1>5. tick' = [tick EXCEPT ![t].rows = rows]
  BY <1>2
<1> HIDE DEF rows
<1> QED
  BY <1>1, <1>4, <1>5

\* The first row of a tick goes, the others stay.
LEMMA RowGone ==
    ASSUME MailTypeOK, Batches, NEW t \in 1 .. Ticks, Busy(t)
    PROVE  /\ Current(t) \in Copies(t) /\ Current(t) \in Copy /\ Current(t).m \in Mails
           /\ NextRow(t) \in Tick
           /\ ToSet(NextRow(t).rows) = Copies(t) \ {Current(t)}
           /\ \A c \in Copies(t) : c.m = Current(t).m => c = Current(t)
           /\ \A i, j \in DOMAIN NextRow(t).rows :
                NextRow(t).rows[i].m = NextRow(t).rows[j].m => i = j
<1> DEFINE q == tick[t].rows
<1>1. q \in Seq(Copy) /\ q # <<>>
  BY DEF MailTypeOK, Busy
<1>2. \A i, j \in DOMAIN q : q[i].m = q[j].m => i = j
  BY DEF Batches
<1> HIDE DEF q
<1>3. Head(q) = q[1] /\ Len(q) \in Nat \ {0} /\ DOMAIN q = 1 .. Len(q) /\ Head(q) \in Copy
  BY <1>1, EmptySeq, HeadTailProperties
<1>4. /\ Tail(q) \in Seq(Copy) /\ Len(Tail(q)) = Len(q) - 1 /\ DOMAIN Tail(q) = 1 .. Len(q) - 1
      /\ \A i \in 1 .. Len(q) - 1 : Tail(q)[i] = q[i + 1]
  BY <1>1, <1>3, HeadTailProperties
<1>5. ToSet(q) = {Head(q)} \cup ToSet(Tail(q))
  <2>1. ASSUME NEW i \in DOMAIN q PROVE q[i] \in {Head(q)} \cup ToSet(Tail(q))
    <3>1. CASE i = 1
      BY <1>3, <3>1
    <3>2. CASE i # 1
      <4>1. i - 1 \in DOMAIN Tail(q) /\ Tail(q)[i - 1] = q[i]
        BY <1>3, <1>4, <3>2
      <4> QED
        BY <4>1 DEF ToSet
    <3> QED
      BY <3>1, <3>2
  <2>2. ASSUME NEW i \in DOMAIN Tail(q) PROVE Tail(q)[i] \in ToSet(q)
    BY <1>3, <1>4 DEF ToSet
  <2>3. Head(q) \in ToSet(q)
    BY <1>3 DEF ToSet
  <2> QED
    BY <2>1, <2>2, <2>3 DEF ToSet
<1>6. \A c \in ToSet(Tail(q)) : c.m # Head(q).m
  BY <1>2, <1>3, <1>4 DEF ToSet
<1>7. ToSet(Tail(q)) = ToSet(q) \ {Head(q)}
  BY <1>5, <1>6
<1>8. \A i, j \in DOMAIN Tail(q) : Tail(q)[i].m = Tail(q)[j].m => i = j
  BY <1>2, <1>3, <1>4
<1>9. Current(t) = Head(q) /\ Copies(t) = ToSet(q) /\ NextRow(t) = [rows |-> Tail(q), answer |-> "none"]
  BY DEF Current, Copies, NextRow, q
<1> QED
  BY <1>3, <1>4, <1>5, <1>6, <1>7, <1>8, <1>9 DEF Tick, Copy, Answer

\* What leaves the ticks and the sends alone.
LEMMA Resting ==
    ASSUME MailTypeOK, Batches, mail' \in [Mails -> MailRow],
           sender' \in [Mails -> {"none", "send", "over"} \cup Answer],
           UNCHANGED <<tick, tries>>,
           \/ UNCHANGED mailFaults
           \/ mailFaults' \in [crashes : Nat, db : Nat, overruns : Nat]
    PROVE  MailTypeOK' /\ Batches'
<1>1. Batches'
  BY DEF Batches
<1>2. MailTypeOK'
  BY DEF MailTypeOK, MailRow
<1> QED
  BY <1>1, <1>2

LEMMA MailNextType ==
    ASSUME MailTypeOK, Batches, [MailNext]_mailVars
    PROVE  MailTypeOK' /\ Batches'
<1>1. ASSUME NEW m \in Mails, Submit(m) \/ FirstSend(m) \/ FirstSettle(m)
      PROVE  MailTypeOK' /\ Batches'
  <2>1. mail' \in [Mails -> MailRow]
    <3>1. CASE Submit(m)
      BY <3>1, Dated DEF Submit
    <3>2. CASE FirstSend(m)
      BY <3>2 DEF FirstSend, MailTypeOK, MailRow
    <3>3. CASE FirstSettle(m)
      BY <3>3, Dated DEF FirstSettle
    <3> QED
      BY <1>1, <3>1, <3>2, <3>3
  <2>2. sender' \in [Mails -> {"none", "send", "over"} \cup Answer]
    BY <1>1 DEF Submit, FirstSend, FirstSettle, MailTypeOK
  <2>3. UNCHANGED <<tick, tries, mailFaults>>
    BY <1>1 DEF Submit, FirstSend, FirstSettle
  <2> QED
    BY <2>1, <2>2, <2>3, Resting
<1>2. ASSUME NEW m \in Mails, FirstSettleFails(m) \/ FirstCrash(m) \/ DateComes(m)
      PROVE  MailTypeOK' /\ Batches'
  <2>1. mailFaults' \in [crashes : Nat, db : Nat, overruns : Nat]
    BY <1>2, MishapCounts DEF FirstSettleFails, FirstCrash, DateComes, MailTypeOK
  <2>2. mail' \in [Mails -> MailRow]
    <3>1. CASE DateComes(m)
      <4>1. mail' = [mail EXCEPT ![m] = [mail[m] EXCEPT !.next = "now"]]
        BY <3>1 DEF DateComes
      <4>2. mail \in [Mails -> MailRow]
        BY DEF MailTypeOK, MailRow
      <4>3. [mail[m] EXCEPT !.next = "now"] \in MailRow
        BY <4>2 DEF MailRow
      <4> QED
        BY <4>1, <4>2, <4>3
    <3>2. CASE FirstSettleFails(m) \/ FirstCrash(m)
      BY <3>2 DEF FirstSettleFails, FirstCrash, MailTypeOK, MailRow
    <3> QED
      BY <1>2, <3>1, <3>2
  <2>3. sender' \in [Mails -> {"none", "send", "over"} \cup Answer]
    BY <1>2 DEF FirstSettleFails, FirstCrash, DateComes, MailTypeOK
  <2>4. UNCHANGED <<tick, tries>>
    BY <1>2 DEF FirstSettleFails, FirstCrash, DateComes
  <2> QED
    BY <2>1, <2>2, <2>3, <2>4, Resting
<1>3. ASSUME NEW t \in 1 .. Ticks, ClaimDueRetries(t) PROVE MailTypeOK' /\ Batches'
  <2>1. PICK batch \in SUBSET Mails, rows \in Seq(Copy) :
          /\ mail' = [m \in Mails |-> IF m \in batch THEN [mail[m] EXCEPT !.next = "later"]
                                      ELSE mail[m]]
          /\ tick' = [tick EXCEPT ![t].rows = rows] /\ rows # <<>>
          /\ \A i, j \in DOMAIN rows : rows[i].m = rows[j].m => i = j
    BY <1>3, Claimed
  <2>2. mail' \in [Mails -> MailRow]
    <3>1. mail \in [Mails -> MailRow]
      BY DEF MailTypeOK, MailRow
    <3>2. \A m \in Mails : [mail[m] EXCEPT !.next = "later"] \in MailRow
      BY <3>1 DEF MailRow
    <3> QED
      BY <2>1, <3>1, <3>2
  <2>5. tick' \in [1 .. Ticks -> Tick]
    BY <2>1 DEF MailTypeOK, Tick
  <2>3. MailTypeOK'
    BY <1>3, <2>2, <2>5 DEF ClaimDueRetries, MailTypeOK, MailRow, Tick
  <2>4. Batches'
    BY <2>1 DEF Batches, MailTypeOK
  <2> QED
    BY <2>3, <2>4
<1>4. ASSUME NEW t \in 1 .. Ticks, RetrySend(t) PROVE MailTypeOK' /\ Batches'
  <2>1. Current(t).m \in Mails
    BY <1>4, RowGone DEF RetrySend
  <2>2. PICK answer \in Answer : tick' = [tick EXCEPT ![t].answer = answer]
    BY <1>4 DEF RetrySend
  <2>3. tick' \in [1 .. Ticks -> Tick]
    BY <2>2 DEF MailTypeOK, Tick
  <2>5. tries' \in [Mails -> Nat]
    BY <1>4, <2>1 DEF RetrySend, MailTypeOK
  <2>4. Batches'
    BY <1>4, <2>2 DEF RetrySend, MailTypeOK, Batches, Busy
  <2> QED
    BY <1>4, <2>3, <2>4, <2>5 DEF RetrySend, MailTypeOK, Tick
<1>5. ASSUME NEW t \in 1 .. Ticks, RetrySettle(t) \/ RetryThrows(t)
      PROVE  MailTypeOK' /\ Batches'
  <2>1. Busy(t) /\ tick' = [tick EXCEPT ![t] = NextRow(t)]
    BY <1>5 DEF RetrySettle, RetryThrows
  <2>2. Current(t) \in Copy /\ NextRow(t) \in Tick
    BY <2>1, RowGone
  <2>3. tick' \in [1 .. Ticks -> Tick]
    BY <2>1, <2>2 DEF MailTypeOK, Tick
  <2>4. mail' \in [Mails -> MailRow]
    <3>1. CASE RetrySettle(t)
      <4>1. AttemptNumber(t) \in Nat /\ NextRetryAt(AttemptNumber(t)) \in {"now", "later", "never"}
        BY <2>2 DEF AttemptNumber, NextRetryAt, Copy
      <4> QED
        BY <3>1, <4>1 DEF RetrySettle, MailTypeOK, MailRow
    <3>2. CASE RetryThrows(t)
      BY <3>2 DEF RetryThrows, MailTypeOK, MailRow
    <3> QED
      BY <1>5, <3>1, <3>2
  <2>5. mailFaults' \in [crashes : Nat, db : Nat, overruns : Nat]
    BY <1>5, MishapCounts DEF RetrySettle, RetryThrows, MailTypeOK
  <2>6. MailTypeOK'
    BY <1>5, <2>3, <2>4, <2>5 DEF RetrySettle, RetryThrows, MailTypeOK, MailRow, Tick
  <2>7. NextRow(t).answer = "none"
    BY DEF NextRow
  <2>9. \A i, j \in DOMAIN NextRow(t).rows :
          NextRow(t).rows[i].m = NextRow(t).rows[j].m => i = j
    BY <2>1, RowGone
  <2>10. /\ tick'[t] = NextRow(t)
         /\ \A u \in 1 .. Ticks \ {t} : tick'[u] = tick[u]
    BY <2>1 DEF MailTypeOK
  <2>8. Batches'
    BY <2>7, <2>9, <2>10 DEF Batches
  <2> QED
    BY <2>6, <2>8
<1>6. ASSUME NEW t \in 1 .. Ticks, TickCrash(t) PROVE MailTypeOK' /\ Batches'
  <2>1. mailFaults' \in [crashes : Nat, db : Nat, overruns : Nat]
    BY <1>6, MishapCounts DEF TickCrash
  <2>2. /\ tick'[t].rows = <<>> /\ tick'[t].answer = "none"
        /\ \A u \in 1 .. Ticks \ {t} : tick'[u] = tick[u]
    BY <1>6 DEF TickCrash, MailTypeOK
  <2>3. [rows |-> <<>>, answer |-> "none"] \in Tick
    BY DEF Tick
  <2>4. tick \in [1 .. Ticks -> Tick]
    BY DEF MailTypeOK, Tick
  <2>5. tick' \in [1 .. Ticks -> Tick]
    BY <1>6, <2>3, <2>4 DEF TickCrash
  <2>6. Batches'
    BY <2>2 DEF Batches
  <2> QED
    BY <1>6, <2>1, <2>5, <2>6 DEF TickCrash, MailTypeOK, Tick
<1>7. ASSUME UNCHANGED mailVars PROVE MailTypeOK' /\ Batches'
  BY <1>7 DEF mailVars, MailTypeOK, Batches
<1> QED
  BY <1>1, <1>2, <1>3, <1>4, <1>5, <1>6, <1>7 DEF MailNext

-----------------------------------------------------------------------------
(* The budget of attempts *)

\* The numbers.
Numbers ==
    \A m \in Mails :
        /\ tries[m] \in Nat /\ mail[m].attempts \in Nat /\ BackoffSteps \in Nat \ {0}
        /\ MailLosses \in Nat /\ Due(m) \in {0, 1}
        /\ IsFiniteSet(Unsent(m)) /\ Cardinality(Unsent(m)) \in Nat
        /\ ~Held(m) => Cardinality(Unsent(m)) = 0
        /\ Pledged(m) \in Nat /\ Pledged(m) >= tries[m]
        /\ \A t \in 1 .. Ticks : \A c \in Copies(t) : c.attempts \in Nat /\ c.m \in Mails

LEMMA MailNumbers == MailTypeOK => Numbers
<1> SUFFICES ASSUME MailTypeOK, NEW m \in Mails
             PROVE  /\ tries[m] \in Nat /\ mail[m].attempts \in Nat /\ BackoffSteps \in Nat \ {0}
                    /\ MailLosses \in Nat /\ Due(m) \in {0, 1}
                    /\ IsFiniteSet(Unsent(m)) /\ Cardinality(Unsent(m)) \in Nat
                    /\ ~Held(m) => Cardinality(Unsent(m)) = 0
                    /\ Pledged(m) \in Nat /\ Pledged(m) >= tries[m]
                    /\ \A t \in 1 .. Ticks : \A c \in Copies(t) :
                         c.attempts \in Nat /\ c.m \in Mails
  BY DEF Numbers
<1>1. IsFiniteSet(1 .. Ticks) /\ Unsent(m) \in SUBSET (1 .. Ticks)
  BY FS_Interval, MailAssumption DEF Unsent
<1>2. IsFiniteSet(Unsent(m)) /\ Cardinality(Unsent(m)) \in Nat
  BY <1>1, FS_Subset, FS_CardinalityType
<1>3. ~Held(m) => Unsent(m) = {}
  BY DEF Held, Unsent
<1>4. tries[m] \in Nat /\ mail[m].attempts \in Nat /\ BackoffSteps \in Nat \ {0}
  BY MailAssumption DEF MailTypeOK
<1>5. MailLosses \in Nat
  BY DEF MailTypeOK, MailLosses
<1>6. Due(m) \in {0, 1}
  BY DEF Due
<1>7. ASSUME NEW t \in 1 .. Ticks, NEW c \in Copies(t) PROVE c \in Copy
  BY DEF Copies, ToSet, MailTypeOK
<1> QED
  BY <1>2, <1>3, <1>4, <1>5, <1>6, <1>7, FS_EmptySet DEF Pledged, Copy

LEMMA MailNumbersNext == MailTypeOK' => Numbers'
<1>1. (MailTypeOK => Numbers)'
  BY MailNumbers, PTL
<1> QED
  BY <1>1

\* Steps that leave ticks and sends alone, and the date of the row where it is, or
\* are the last word of its sender.
LEMMA QuietStep ==
    ASSUME MailTypeOK, MailTypeOK', NEW m \in Mails, Counted(m), Budgeted(m),
           tick' = tick, tries'[m] = tries[m], mail'[m].attempts = mail[m].attempts,
           MailLosses' >= MailLosses, Due(m)' <= Due(m), Sending(m)' => Sending(m),
           Sending(m) \/ mail[m].next # "never" \/ mail'[m].next = "never"
    PROVE  Counted(m)' /\ Budgeted(m)'
<1>1. /\ \A t \in 1 .. Ticks : Copies(t)' = Copies(t)
      /\ Held(m)' <=> Held(m)
      /\ Unsent(m)' = Unsent(m)
  BY DEF Copies, Held, InRows, Unsent, Current
<1>2. Pledged(m)' <= Pledged(m) /\ Pledged(m)' \in Nat
  BY <1>1, MailNumbers, MailNumbersNext DEF Numbers, Pledged
<1>3. Counted(m)'
  BY <1>1, <1>2, MailNumbers, MailNumbersNext DEF Numbers, Counted
<1>4. Budgeted(m)'
  BY <1>1, <1>2, MailNumbers, MailNumbersNext DEF Numbers, Budgeted
<1> QED
  BY <1>3, <1>4

\* A tick loses rows, for which there is a fault.
LEMMA LosingStep ==
    ASSUME MailTypeOK, MailTypeOK', NEW m \in Mails, Counted(m), Budgeted(m),
           UNCHANGED <<mail, sender, tries>>, MailLosses' = MailLosses + 1,
           \A t \in 1 .. Ticks : Copies(t)' \in SUBSET Copies(t),
           Unsent(m)' \in SUBSET Unsent(m)
    PROVE  Counted(m)' /\ Budgeted(m)'
<1>1. Held(m)' => Held(m)
  BY DEF Held, InRows
<1>2. Cardinality(Unsent(m)') <= Cardinality(Unsent(m))
  BY MailNumbers, FS_Subset DEF Numbers
<1>3. Due(m)' = Due(m) /\ (Sending(m)' <=> Sending(m))
  BY DEF Due, Sending
<1>4. Pledged(m)' <= Pledged(m)
  BY <1>2, <1>3, MailNumbers, MailNumbersNext DEF Numbers, Pledged
<1>5. Counted(m)'
  BY <1>1, <1>4, MailNumbers, MailNumbersNext DEF Numbers, Counted
<1>6. Budgeted(m)'
  BY <1>1, <1>3, <1>4, MailNumbers, MailNumbersNext DEF Numbers, Budgeted
<1> QED
  BY <1>5, <1>6

LEMMA BalanceStep ==
    ASSUME MailTypeOK, Batches, Unwritten, Balance, [MailNext]_mailVars
    PROVE  Unwritten' /\ Balance'
<1>0. MailTypeOK' /\ Batches'
  BY MailNextType
<1>1. ASSUME NEW n \in Mails, Submit(n) PROVE Unwritten' /\ Balance'
  <2>1. /\ mail'[n].st = "sending" /\ mail'[n].next = "later"
        /\ mail'[n].attempts = mail[n].attempts
        /\ \A m \in Mails \ {n} : mail'[m] = mail[m]
    BY <1>1, Dated DEF Submit
  <2>2. /\ UNCHANGED <<tick, tries, mailFaults>> /\ MailLosses' = MailLosses
        /\ \A m \in Mails \ {n} : Sending(m)' <=> Sending(m)
        /\ \A m \in Mails : Held(m)' <=> Held(m)
    BY <1>1 DEF Submit, MailLosses, Sending, MailTypeOK, Held, InRows, Copies
  <2>3. Unwritten'
    BY <2>1, <2>2 DEF Unwritten
  <2>4. ~Held(n) /\ tries[n] = 0
    BY <1>1 DEF Submit, Unwritten
  <2>5. Counted(n)' /\ Budgeted(n)'
    <3>1. ~Held(n)' /\ tries'[n] = 0 /\ Due(n)' = 0
      BY <2>1, <2>2, <2>4 DEF Due
    <3>2. Pledged(n)' = 0
      BY <1>0, <3>1, MailNumbersNext DEF Numbers, Pledged
    <3>3. \A t \in 1 .. Ticks : \A c \in Copies(t)' : c.m # n
      BY <3>1 DEF Held, InRows
    <3> QED
      BY <1>0, <3>1, <3>2, <3>3, MailNumbersNext DEF Numbers, Counted, Budgeted
  <2>6. ASSUME NEW m \in Mails, m # n PROVE Counted(m)' /\ Budgeted(m)'
    BY <1>0, <2>1, <2>2, <2>6, QuietStep, MailNumbers DEF Numbers, Balance, Due
  <2> QED
    BY <2>3, <2>5, <2>6 DEF Balance
<1>2. ASSUME NEW n \in Mails, FirstSend(n) \/ FirstSettleFails(n) \/ FirstCrash(n)
      PROVE  Unwritten' /\ Balance'
  <2>1. /\ UNCHANGED <<tick, tries, mail>>
        /\ \A m \in Mails : Sending(m)' => Sending(m)
    BY <1>2 DEF FirstSend, FirstSettleFails, FirstCrash, Sending, MailTypeOK, Answer
  <2>2. MailLosses' >= MailLosses
    BY <1>2, MishapCounts, MailNumbers DEF Numbers, FirstSend, FirstSettleFails, FirstCrash, MailLosses
  <2>3. Unwritten'
    BY <2>1 DEF Unwritten, Held, InRows, Copies
  <2>4. ASSUME NEW m \in Mails PROVE Counted(m)' /\ Budgeted(m)'
    BY <1>0, <2>1, <2>2, QuietStep, MailNumbers DEF Numbers, Balance, Due
  <2> QED
    BY <2>3, <2>4 DEF Balance
<1>3. ASSUME NEW n \in Mails, FirstSettle(n) PROVE Unwritten' /\ Balance'
  <2>1. /\ mail'[n].st # "none" /\ mail'[n].next # "now"
        /\ mail'[n].attempts = mail[n].attempts
        /\ \A m \in Mails \ {n} : mail'[m] = mail[m]
    BY <1>3, Dated DEF FirstSettle
  <2>2. /\ UNCHANGED <<tick, tries, mailFaults>> /\ MailLosses' = MailLosses
        /\ \A m \in Mails : Sending(m)' => Sending(m)
        /\ Sending(n)
    BY <1>3 DEF FirstSettle, MailLosses, Sending, MailTypeOK, Answer
  <2>3. Unwritten'
    BY <2>1, <2>2 DEF Unwritten, Held, InRows, Copies
  <2>4. ASSUME NEW m \in Mails PROVE Counted(m)' /\ Budgeted(m)'
    <3>1. Due(m)' <= Due(m) /\ mail'[m].attempts = mail[m].attempts
      BY <2>1 DEF Due
    <3>2. Sending(m) \/ mail[m].next # "never" \/ mail'[m].next = "never"
      BY <2>1, <2>2
    <3>3. tries'[m] = tries[m] /\ MailLosses' >= MailLosses
      BY <2>2, MailNumbers DEF Numbers
    <3> QED
      BY <1>0, <2>2, <3>1, <3>2, <3>3, QuietStep DEF Balance
  <2> QED
    BY <2>3, <2>4 DEF Balance
\* A date that comes while the row is in somebody's hands is an overrun.
<1>4. ASSUME NEW n \in Mails, DateComes(n) PROVE Unwritten' /\ Balance'
  <2>1. /\ mail[n].next = "later" /\ mail'[n].next = "now" /\ mail'[n].st = mail[n].st
        /\ mail'[n].attempts = mail[n].attempts
        /\ \A m \in Mails \ {n} : mail'[m] = mail[m]
    BY <1>4 DEF DateComes, MailTypeOK
  <2>2. /\ UNCHANGED <<tick, tries, sender>>
        /\ \A m \in Mails : (Sending(m)' <=> Sending(m)) /\ (Held(m)' <=> Held(m))
        /\ \A m \in Mails : Unsent(m)' = Unsent(m)
        /\ \A t \in 1 .. Ticks : Copies(t)' = Copies(t)
    BY <1>4 DEF DateComes, Sending, Held, InRows, Copies, Unsent, Current
  <2>3. Sending(n) \/ Held(n) <=> InHands(n)
    BY DEF InHands, Sending, Held, InRows, Copies, ToSet
  <2>4. MailLosses' = IF InHands(n) THEN MailLosses + 1 ELSE MailLosses
    BY <1>4, MishapCounts DEF DateComes, MailLosses
  <2>5. Unwritten'
    BY <2>1, <2>2 DEF Unwritten
  <2>6. ASSUME NEW m \in Mails, m # n PROVE Counted(m)' /\ Budgeted(m)'
    BY <1>0, <2>1, <2>2, <2>4, <2>6, QuietStep, MailNumbers DEF Numbers, Balance, Due
  <2>7. Counted(n)' /\ Budgeted(n)'
    <3>1. /\ Due(n) = 0 /\ Due(n)' = 1 /\ tries'[n] = tries[n]
          /\ Pledged(n)' = Pledged(n) + 1
      BY <2>1, <2>2, MailNumbers DEF Numbers, Due, Pledged
    <3>2. Counted(n) /\ Budgeted(n)
      BY DEF Balance
    <3>3. CASE InHands(n)
      <4>1. Counted(n)'
        BY <1>0, <2>1, <2>2, <2>4, <3>1, <3>2, <3>3, MailNumbers DEF Numbers, Counted
      <4>2. Budgeted(n)'
        BY <1>0, <2>1, <2>2, <2>3, <2>4, <3>1, <3>2, <3>3, MailNumbers DEF Numbers, Budgeted
      <4> QED
        BY <4>1, <4>2
    <3>4. CASE ~InHands(n)
      <4>1. ~Held(n) /\ ~Sending(n)
        BY <2>3, <3>4
      <4>2. \A t \in 1 .. Ticks : \A c \in Copies(t) : c.m # n
        BY <4>1 DEF Held, InRows
      <4> QED
        BY <2>1, <2>2, <2>4, <3>1, <3>2, <3>4, <4>1, <4>2, MailNumbers DEF Numbers, Counted, Budgeted
    <3> QED
      BY <3>3, <3>4
  <2> QED
    BY <2>5, <2>6, <2>7 DEF Balance

\* A due row goes to the tick that claims it: what was due is now to be sent.
<1>5. ASSUME NEW t \in 1 .. Ticks, ClaimDueRetries(t) PROVE Unwritten' /\ Balance'
  <2>1. PICK batch \in SUBSET Mails :
          /\ \A m \in batch : DueForRetry(m)
          /\ mail' = [m \in Mails |-> IF m \in batch THEN [mail[m] EXCEPT !.next = "later"]
                                      ELSE mail[m]]
          /\ \E rows \in Seq(Copy) :
               /\ tick' = [tick EXCEPT ![t].rows = rows] /\ rows # <<>>
               /\ ToSet(rows) = {[m |-> m, attempts |-> mail[m].attempts] : m \in batch}
    BY <1>5, Claimed
  <2>2. PICK rows \in Seq(Copy) :
          /\ tick' = [tick EXCEPT ![t].rows = rows] /\ rows # <<>>
          /\ ToSet(rows) = {[m |-> m, attempts |-> mail[m].attempts] : m \in batch}
    BY <2>1
  <2>3. tick[t].rows = <<>> /\ tick[t].answer = "none"
    BY <1>5 DEF ClaimDueRetries, Batches
  <2>4. /\ tick'[t].rows = rows /\ tick'[t].answer = "none"
        /\ \A u \in 1 .. Ticks \ {t} : tick'[u] = tick[u]
    BY <2>2, <2>3 DEF MailTypeOK
  <2>5. /\ Copies(t) = {}
        /\ Copies(t)' = {[m |-> m, attempts |-> mail[m].attempts] : m \in batch}
        /\ \A u \in 1 .. Ticks \ {t} : Copies(u)' = Copies(u)
    BY <2>2, <2>3, <2>4 DEF Copies, ToSet
  <2>6. /\ \A m \in Mails : ~InRows(m, t) /\ (InRows(m, t)' <=> m \in batch)
        /\ \A m \in Mails : \A u \in 1 .. Ticks \ {t} : InRows(m, u)' <=> InRows(m, u)
    <3>1. \A m \in batch : \E c \in Copies(t)' : c.m = m
      <4> SUFFICES ASSUME NEW m \in batch PROVE \E c \in Copies(t)' : c.m = m
        OBVIOUS
      <4>1. [m |-> m, attempts |-> mail[m].attempts] \in Copies(t)'
        BY <2>5
      <4> QED
        BY <4>1
    <3>2. \A c \in Copies(t)' : c.m \in batch
      BY <2>5
    <3> QED
      BY <2>5, <3>1, <3>2 DEF InRows
  <2>7. /\ UNCHANGED <<sender, tries, mailFaults>> /\ MailLosses' = MailLosses
        /\ \A m \in Mails : Sending(m)' <=> Sending(m)
    BY <1>5 DEF ClaimDueRetries, MailLosses, Sending
  <2>8. ASSUME NEW m \in Mails
        PROVE  /\ mail'[m].st = mail[m].st /\ mail'[m].attempts = mail[m].attempts
               /\ m \in batch => mail[m].next = "now" /\ mail'[m].next = "later" /\ mail[m].st # "none"
               /\ m \notin batch => mail'[m].next = mail[m].next
    BY <2>1 DEF MailTypeOK, DueForRetry
  <2>9. ASSUME NEW m \in Mails
        PROVE  Unsent(m)' = IF m \in batch THEN Unsent(m) \cup {t} ELSE Unsent(m)
    <3>1. t \notin Unsent(m)
      BY <2>6 DEF Unsent
    <3>2. t \in Unsent(m)' <=> m \in batch
      BY <2>4, <2>6 DEF Unsent
    <3>3. \A u \in 1 .. Ticks \ {t} : u \in Unsent(m)' <=> u \in Unsent(m)
      BY <2>4, <2>6 DEF Unsent, Current
    <3>4. Unsent(m) \in SUBSET (1 .. Ticks) /\ Unsent(m)' \in SUBSET (1 .. Ticks)
      BY DEF Unsent
    <3>5. CASE m \in batch
      BY <3>1, <3>2, <3>3, <3>4, <3>5
    <3>6. CASE m \notin batch
      <4>1. \A u : u \in Unsent(m)' <=> u \in Unsent(m)
        BY <3>1, <3>2, <3>3, <3>4, <3>6
      <4>2. Unsent(m)' = Unsent(m)
        BY <4>1
      <4> QED
        BY <4>2, <3>6
    <3> QED
      BY <3>5, <3>6
  <2>10. Unwritten'
    <3>1. ASSUME NEW m \in Mails, mail'[m].st = "none"
          PROVE  ~Held(m)' /\ ~Sending(m)' /\ tries'[m] = 0
      <4>1. m \notin batch /\ ~Held(m) /\ ~Sending(m) /\ tries[m] = 0
        BY <2>8, <3>1 DEF Unwritten
      <4>2. ~Held(m)'
        BY <2>6, <4>1 DEF Held
      <4> QED
        BY <2>7, <4>1, <4>2
    <3> QED
      BY <3>1 DEF Unwritten
  <2>11. ASSUME NEW m \in Mails \ batch PROVE Counted(m)' /\ Budgeted(m)'
    <3>1. Held(m)' <=> Held(m)
      BY <2>6 DEF Held
    <3>2. Pledged(m)' = Pledged(m)
      BY <2>7, <2>8, <2>9 DEF Pledged, Due
    <3>3. \A u \in 1 .. Ticks : \A c \in Copies(u)' : c.m = m => c \in Copies(u)
      BY <2>5
    <3>4. Counted(m)'
      BY <2>7, <2>8, <3>1, <3>2, <3>3 DEF Balance, Counted
    <3>5. Budgeted(m)'
      BY <2>7, <2>8, <3>1, <3>2 DEF Balance, Budgeted
    <3> QED
      BY <3>4, <3>5
  <2>12. ASSUME NEW m \in batch PROVE Counted(m)' /\ Budgeted(m)'
    <3>1. Due(m) = 1 /\ Due(m)' = 0
      BY <2>8 DEF Due
    <3>2. t \notin Unsent(m) /\ Unsent(m)' = Unsent(m) \cup {t}
      BY <2>6, <2>9 DEF Unsent
    <3>3. Cardinality(Unsent(m)') = Cardinality(Unsent(m)) + 1
      BY <3>2, MailNumbers, FS_AddElement DEF Numbers
    <3>4. Pledged(m)' = Pledged(m)
      BY <2>7, <3>1, <3>3, MailNumbers DEF Numbers, Pledged
    <3>5. Counted(m) /\ Budgeted(m)
      BY DEF Balance
    <3>6. ~Held(m) => Pledged(m) = tries[m] + 1
      BY <3>1, MailNumbers DEF Numbers, Pledged
    <3>7. Pledged(m) <= mail[m].attempts + 1 + MailLosses
      BY <3>5, <3>6, MailNumbers DEF Numbers, Counted
    <3>8. Pledged(m) <= BackoffSteps + MailLosses
      BY <2>8, <3>5, <3>6, MailNumbers DEF Numbers, Budgeted
    <3>9. Held(m)'
      BY <2>6 DEF Held
    <3>10. \A u \in 1 .. Ticks : \A c \in Copies(u)' :
             c.m = m => c.attempts = mail[m].attempts \/ c \in Copies(u)
      BY <2>5
    <3>11. Counted(m)'
      BY <2>7, <2>8, <3>4, <3>5, <3>7, <3>9, <3>10 DEF Counted
    <3>12. Budgeted(m)'
      BY <2>7, <2>8, <3>4, <3>5, <3>8, <3>9 DEF Budgeted
    <3> QED
      BY <3>11, <3>12
  <2> QED
    BY <2>10, <2>11, <2>12 DEF Balance
<1>6. ASSUME NEW t \in 1 .. Ticks, RetrySend(t) PROVE Unwritten' /\ Balance'
  <2>1. PICK n \in Mails : n = Current(t).m /\ Current(t) \in Copies(t)
    BY <1>6, RowGone DEF RetrySend
  <2>2. PICK answer \in Answer : tick' = [tick EXCEPT ![t].answer = answer]
    BY <1>6 DEF RetrySend
  <2>3. /\ tick[t].answer = "none" /\ tick'[t].answer # "none" /\ tick'[t].rows = tick[t].rows
        /\ \A u \in 1 .. Ticks \ {t} : tick'[u] = tick[u]
    BY <1>6, <2>2 DEF RetrySend, MailTypeOK, Answer
  <2>4. /\ \A u \in 1 .. Ticks : Copies(u)' = Copies(u) /\ Current(u)' = Current(u)
        /\ \A m \in Mails : Held(m)' <=> Held(m)
    BY <2>3 DEF Copies, Held, InRows, Current
  <2>5. /\ UNCHANGED <<mail, sender, mailFaults>> /\ MailLosses' = MailLosses
        /\ \A m \in Mails : (Sending(m)' <=> Sending(m)) /\ Due(m)' = Due(m)
    BY <1>6 DEF RetrySend, MailLosses, Sending, Due
  <2>6. \A m \in Mails : tries'[m] = IF m = n THEN tries[m] + 1 ELSE tries[m]
    BY <1>6, <2>1 DEF RetrySend, MailTypeOK
  <2>7. ASSUME NEW m \in Mails
        PROVE  Unsent(m)' = IF m = n THEN Unsent(m) \ {t} ELSE Unsent(m)
    <3>1. \A u \in 1 .. Ticks : InRows(m, u)' <=> InRows(m, u)
      BY <2>4 DEF InRows
    <3>2. t \in Unsent(m) <=> InRows(m, t)
      BY <2>3 DEF Unsent
    <3>3. t \in Unsent(m)' <=> InRows(m, t) /\ m # n
      BY <2>1, <2>3, <2>4, <3>1 DEF Unsent
    <3>4. \A u \in 1 .. Ticks \ {t} : u \in Unsent(m)' <=> u \in Unsent(m)
      BY <2>3, <2>4, <3>1 DEF Unsent
    <3>5. Unsent(m) \in SUBSET (1 .. Ticks) /\ Unsent(m)' \in SUBSET (1 .. Ticks)
      BY DEF Unsent
    <3> QED
      BY <3>2, <3>3, <3>4, <3>5
  <2>8. t \in Unsent(n) /\ Held(n)
    BY <2>1, <2>3 DEF Unsent, InRows, Held
  <2>9. Unwritten'
    BY <2>1, <2>4, <2>5, <2>6, <2>8 DEF Unwritten
  <2>10. ASSUME NEW m \in Mails PROVE Pledged(m)' = Pledged(m)
    <3>1. CASE m = n
      <4>1. Cardinality(Unsent(m)') = Cardinality(Unsent(m)) - 1
        BY <2>7, <2>8, <3>1, MailNumbers, FS_RemoveElement DEF Numbers
      <4> QED
        BY <2>5, <2>6, <3>1, <4>1, MailNumbers DEF Numbers, Pledged
    <3>2. CASE m # n
      BY <2>5, <2>6, <2>7, <3>2 DEF Pledged
    <3> QED
      BY <3>1, <3>2
  <2>11. ASSUME NEW m \in Mails PROVE Counted(m)' /\ Budgeted(m)'
    <3>1. Counted(m) /\ Budgeted(m)
      BY DEF Balance
    <3>2. tries'[m] <= Pledged(m)' /\ (m # n => tries'[m] = tries[m])
      BY <1>0, <2>6, MailNumbersNext DEF Numbers
    <3>3. ~Held(m)' => m # n
      BY <2>4, <2>8
    <3>4. Counted(m)'
      BY <2>4, <2>5, <2>10, <3>1, <3>2, <3>3 DEF Counted
    <3>5. tries'[m] <= BackoffSteps + MailLosses
      <4>1. CASE m = n
        BY <1>0, <2>8, <2>10, <3>1, <3>2, <4>1, MailNumbers, MailNumbersNext DEF Numbers, Budgeted
      <4>2. CASE m # n
        BY <3>1, <3>2, <4>2 DEF Budgeted
      <4> QED
        BY <4>1, <4>2
    <3>6. Budgeted(m)'
      BY <2>4, <2>5, <2>10, <3>1, <3>2, <3>3, <3>5 DEF Budgeted
    <3> QED
      BY <3>4, <3>6
  <2> QED
    BY <2>9, <2>11 DEF Balance
<1>7. ASSUME NEW t \in 1 .. Ticks, RetrySettle(t) PROVE Unwritten' /\ Balance'
  <2>1. Busy(t) /\ tick[t].answer # "none" /\ tick' = [tick EXCEPT ![t] = NextRow(t)]
    BY <1>7 DEF RetrySettle, Answer
  <2>0. PICK n \in Mails, v \in Nat : n = Current(t).m /\ v = Current(t).attempts
    BY <2>1, RowGone DEF Copy
  <2>2. /\ Current(t) \in Copies(t) /\ n \in Mails /\ v \in Nat
        /\ Copies(t)' = Copies(t) \ {Current(t)}
        /\ \A c \in Copies(t) : c.m = n => c = Current(t)
        /\ \A u \in 1 .. Ticks \ {t} : Copies(u)' = Copies(u) /\ tick'[u] = tick[u]
        /\ tick'[t].answer = "none"
    <3>1. tick'[t] = NextRow(t) /\ \A u \in 1 .. Ticks \ {t} : tick'[u] = tick[u]
      BY <2>1 DEF MailTypeOK
    <3>2. /\ Current(t) \in Copies(t) /\ n \in Mails
          /\ ToSet(NextRow(t).rows) = Copies(t) \ {Current(t)}
          /\ \A c \in Copies(t) : c.m = n => c = Current(t)
      BY <2>0, <2>1, RowGone
    <3>3. NextRow(t).answer = "none"
      BY DEF NextRow
    <3> QED
      BY <3>1, <3>2, <3>3 DEF Copies
  <2>3. /\ mail'[n].attempts = v + 1 /\ mail'[n].st # "none"
        /\ mail'[n].next = "never" \/ (mail'[n].next = "later" /\ v + 1 < BackoffSteps)
        /\ \A m \in Mails \ {n} : mail'[m] = mail[m]
    BY <1>7, <2>0, MailAssumption DEF RetrySettle, MailTypeOK, AttemptNumber, NextRetryAt
  <2>4. /\ UNCHANGED <<sender, tries, mailFaults>> /\ MailLosses' = MailLosses
        /\ \A m \in Mails : Sending(m)' <=> Sending(m)
    BY <1>7 DEF RetrySettle, MailLosses, Sending
  <2>5. /\ \A m \in Mails \ {n} : \A u \in 1 .. Ticks : InRows(m, u)' <=> InRows(m, u)
        /\ \A u \in 1 .. Ticks \ {t} : InRows(n, u)' <=> InRows(n, u)
        /\ ~InRows(n, t)' /\ InRows(n, t)
    BY <2>0, <2>2 DEF InRows
  <2>6. ASSUME NEW m \in Mails PROVE Unsent(m)' = Unsent(m)
    <3>1. t \in Unsent(m)' <=> t \in Unsent(m)
      BY <2>0, <2>1, <2>2, <2>5 DEF Unsent
    <3>2. \A u \in 1 .. Ticks \ {t} : u \in Unsent(m)' <=> u \in Unsent(m)
      BY <2>2, <2>5 DEF Unsent, Current
    <3>3. Unsent(m) \in SUBSET (1 .. Ticks) /\ Unsent(m)' \in SUBSET (1 .. Ticks)
      BY DEF Unsent
    <3> QED
      BY <3>1, <3>2, <3>3
  <2>7. Unwritten'
    <3>1. ASSUME NEW m \in Mails, mail'[m].st = "none"
          PROVE  ~Held(m)' /\ ~Sending(m)' /\ tries'[m] = 0
      <4>1. m # n /\ ~Held(m) /\ ~Sending(m) /\ tries[m] = 0
        BY <2>3, <3>1 DEF Unwritten
      <4> QED
        BY <2>4, <2>5, <4>1 DEF Held
    <3> QED
      BY <3>1 DEF Unwritten
  <2>8. ASSUME NEW m \in Mails, m # n PROVE Counted(m)' /\ Budgeted(m)'
    <3>1. Held(m)' <=> Held(m)
      BY <2>5, <2>8 DEF Held
    <3>2. Pledged(m)' = Pledged(m)
      BY <2>3, <2>4, <2>6, <2>8 DEF Pledged, Due
    <3>3. \A u \in 1 .. Ticks : \A c \in Copies(u)' : c \in Copies(u)
      BY <2>2
    <3>4. Counted(m)'
      BY <2>3, <2>4, <2>8, <3>1, <3>2, <3>3 DEF Balance, Counted
    <3>5. Budgeted(m)'
      BY <2>3, <2>4, <2>8, <3>1, <3>2 DEF Balance, Budgeted
    <3> QED
      BY <3>4, <3>5
  <2>9. Counted(n)' /\ Budgeted(n)'
    <3>1. Counted(n) /\ Budgeted(n) /\ n \in Mails
      BY <2>2 DEF Balance
    <3>2. Held(n)
      BY <2>5 DEF Held
    <3>3. Due(n)' = 0 /\ Pledged(n)' <= Pledged(n) /\ tries'[n] = tries[n]
      BY <1>0, <2>3, <2>4, <2>6, <3>1, MailNumbers, MailNumbersNext DEF Numbers, Pledged, Due
    <3>4. Pledged(n) <= v + 1 + MailLosses
      BY <2>0, <2>2, <3>1 DEF Counted
    <3>5. \A u \in 1 .. Ticks : \A c \in Copies(u)' : c \in Copies(u)
      BY <2>2
    <3>6. v \in Nat
      BY <2>2
    <3>7. Counted(n)'
      <4>1. \A u \in 1 .. Ticks : \A c \in Copies(u)' :
              c.m = n => Pledged(n)' <= c.attempts + 1 + MailLosses'
        BY <1>0, <2>4, <3>1, <3>3, <3>5, MailNumbers, MailNumbersNext DEF Numbers, Counted
      <4>2. /\ Pledged(n)' <= mail'[n].attempts + 1 + MailLosses'
            /\ tries'[n] <= mail'[n].attempts + MailLosses'
        BY <1>0, <2>3, <2>4, <3>1, <3>3, <3>4, <3>6, MailNumbers, MailNumbersNext DEF Numbers
      <4> QED
        BY <4>1, <4>2 DEF Counted
    <3>8. Budgeted(n)'
      <4>1. Pledged(n)' <= BackoffSteps + MailLosses'
        BY <1>0, <2>4, <3>1, <3>2, <3>3, MailNumbers, MailNumbersNext DEF Numbers, Budgeted
      <4>2. Sending(n)' => Pledged(n)' + 1 <= BackoffSteps + MailLosses'
        BY <1>0, <2>4, <3>1, <3>3, MailNumbers, MailNumbersNext DEF Numbers, Budgeted
      <4>3. mail'[n].next # "never" => tries'[n] + 1 <= BackoffSteps + MailLosses'
        BY <1>0, <2>3, <2>4, <3>1, <3>3, <3>4, <3>6, MailNumbers, MailNumbersNext DEF Numbers
      <4>4. tries'[n] <= BackoffSteps + MailLosses'
        BY <2>4, <3>1, <3>3 DEF Budgeted
      <4> QED
        BY <4>1, <4>2, <4>3, <4>4 DEF Budgeted
    <3> QED
      BY <3>7, <3>8
  <2> QED
    BY <2>7, <2>8, <2>9 DEF Balance
<1>8. ASSUME NEW t \in 1 .. Ticks, RetryThrows(t) \/ TickCrash(t) PROVE Unwritten' /\ Balance'
  <2>1. Busy(t) /\ UNCHANGED <<mail, sender, tries>> /\ MailLosses' = MailLosses + 1
    BY <1>8, MishapCounts DEF RetryThrows, TickCrash
  <2>2. /\ \A u \in 1 .. Ticks : Copies(u)' \in SUBSET Copies(u)
        /\ \A u \in 1 .. Ticks \ {t} : tick'[u] = tick[u]
        /\ \A m \in Mails : InRows(m, t)' => m # Current(t).m
    <3>1. CASE RetryThrows(t)
      <4>1. tick'[t] = NextRow(t) /\ \A u \in 1 .. Ticks \ {t} : tick'[u] = tick[u]
        BY <3>1 DEF RetryThrows, MailTypeOK
      <4>2. /\ ToSet(NextRow(t).rows) = Copies(t) \ {Current(t)}
            /\ \A c \in Copies(t) : c.m = Current(t).m => c = Current(t)
        BY <2>1, RowGone
      <4> QED
        BY <4>1, <4>2 DEF Copies, InRows
    <3>2. CASE TickCrash(t)
      <4>1. tick'[t].rows = <<>> /\ \A u \in 1 .. Ticks \ {t} : tick'[u] = tick[u]
        BY <3>2 DEF TickCrash, MailTypeOK
      <4> QED
        BY <4>1 DEF Copies, InRows, ToSet
    <3> QED
      BY <1>8, <3>1, <3>2
  <2>3. ASSUME NEW m \in Mails PROVE Unsent(m)' \in SUBSET Unsent(m)
    <3>1. \A u \in 1 .. Ticks : InRows(m, u)' => InRows(m, u)
      BY <2>2 DEF InRows
    <3>2. t \in Unsent(m)' => t \in Unsent(m)
      BY <2>2, <3>1 DEF Unsent
    <3>3. \A u \in 1 .. Ticks \ {t} : u \in Unsent(m)' => u \in Unsent(m)
      BY <2>2, <3>1 DEF Unsent, Current
    <3>4. Unsent(m)' \in SUBSET (1 .. Ticks)
      BY DEF Unsent
    <3> QED
      BY <3>2, <3>3, <3>4
  <2>4. Unwritten'
    BY <2>1, <2>2 DEF Unwritten, Held, InRows, Sending
  <2>5. ASSUME NEW m \in Mails PROVE Counted(m)' /\ Budgeted(m)'
    BY <1>0, <2>1, <2>2, <2>3, LosingStep DEF Balance
  <2> QED
    BY <2>4, <2>5 DEF Balance
<1>9. ASSUME UNCHANGED mailVars PROVE Unwritten' /\ Balance'
  <2>1. Unwritten'
    BY <1>9 DEF mailVars, Unwritten, Held, InRows, Copies, Sending
  <2>2. ASSUME NEW m \in Mails PROVE Counted(m)' /\ Budgeted(m)'
    BY <1>0, <1>9, QuietStep, MailNumbers
       DEF Numbers, mailVars, Balance, Due, Sending, MailLosses
  <2> QED
    BY <2>1, <2>2 DEF Balance
<1> QED
  BY <1>1, <1>2, <1>3, <1>4, <1>5, <1>6, <1>7, <1>8, <1>9 DEF MailNext

LEMMA BalanceInit == MailInit => Batches /\ Unwritten /\ Balance
<1> SUFFICES ASSUME MailInit PROVE Batches /\ Unwritten /\ Balance
  OBVIOUS
<1>1. MailTypeOK
  BY MailInitType
<1>2. \A t \in 1 .. Ticks : tick[t].rows = <<>> /\ tick[t].answer = "none" /\ Copies(t) = {}
  BY DEF MailInit, Copies, ToSet
<1>3. Batches
  BY <1>2 DEF Batches
<1>4. \A m \in Mails : /\ ~Held(m) /\ ~Sending(m) /\ tries[m] = 0
                       /\ mail[m].next = "never" /\ mail[m].attempts = 0
  BY <1>2 DEF MailInit, Held, InRows, Sending, Answer
<1>5. Balance
  BY <1>1, <1>2, <1>4, MailNumbers DEF Numbers, Balance, Counted, Budgeted
<1> QED
  BY <1>3, <1>4, <1>5 DEF Unwritten

\* The rows keep their types, whatever the mails and the bounds.
THEOREM MailTypeCorrect == MailSpec => []MailTypeOK
<1>1. MailInit => MailTypeOK /\ Batches
  BY MailInitType, BalanceInit
<1>2. MailTypeOK /\ Batches /\ [MailNext]_mailVars => (MailTypeOK /\ Batches)'
  BY MailNextType
<1> QED
  BY <1>1, <1>2, PTL DEF MailSpec

\* The worker sends a mail again at most BackoffSteps times, plus once per fault: the
\* attempts are counted after the send, in a row that several may hold.
THEOREM RetryBudgetKept == MailSpec => []RetryBudget
<1> DEFINE Inv == MailTypeOK /\ Batches /\ Unwritten /\ Balance
<1>1. MailInit => Inv
  BY MailInitType, BalanceInit
<1>2. Inv /\ [MailNext]_mailVars => Inv'
  BY MailNextType, BalanceStep
<1>3. Inv => RetryBudget
  <2> SUFFICES ASSUME Inv, NEW m \in Mails
               PROVE  tries[m] <= BackoffSteps + mailFaults.crashes + mailFaults.db
                                    + mailFaults.overruns
    BY DEF RetryBudget
  <2>1. tries[m] <= BackoffSteps + MailLosses
    BY DEF Balance, Budgeted
  <2>2. tries[m] \in Nat /\ BackoffSteps \in Nat
    BY MailAssumption DEF MailTypeOK
  <2>3. mailFaults.crashes \in Nat /\ mailFaults.db \in Nat /\ mailFaults.overruns \in Nat
    BY DEF MailTypeOK
  <2> QED
    BY <2>1, <2>2, <2>3 DEF MailLosses
<1> HIDE DEF Inv
<1> QED
  BY <1>1, <1>2, <1>3, PTL DEF MailSpec

-----------------------------------------------------------------------------
(* A mail that is given up *)

\* The tick has sent the mail and not written that.
Answered(m, t) == IF tick[t].answer # "none" /\ Current(t).m = m THEN 1 ELSE 0

\* The attempts that a row or a copy counts were made, and a row that is not sent has
\* a date until they are spent.
HonestCount(m) ==
    /\ mail[m].attempts <= tries[m]
    /\ \A t \in 1 .. Ticks : \A c \in Copies(t) :
         c.m = m => c.attempts + Answered(m, t) <= tries[m]
    /\ mail[m].st \in {"sending", "failed"} /\ mail[m].next = "never" =>
         mail[m].attempts >= BackoffSteps

CountsHonest == \A m \in Mails : HonestCount(m)

\* A tick's rows are copies.
LEMMA CopyType ==
    MailTypeOK => \A t \in 1 .. Ticks : \A c \in Copies(t) : c.attempts \in Nat
<1> SUFFICES ASSUME MailTypeOK, NEW t \in 1 .. Ticks, NEW c \in Copies(t)
             PROVE  c.attempts \in Nat
  OBVIOUS
<1> DEFINE q == tick[t].rows
<1>1. q \in Seq(Copy)
  BY DEF MailTypeOK
<1>2. PICK i \in DOMAIN q : c = q[i]
  BY DEF Copies, ToSet
<1> HIDE DEF q
<1>3. q[i] \in Copy
  BY <1>1
<1> QED
  BY <1>2, <1>3 DEF Copy

LEMMA HonestStep ==
    ASSUME MailTypeOK, Batches, CountsHonest, [MailNext]_mailVars
    PROVE  CountsHonest'
<1>0. MailTypeOK' /\ Batches' /\ BackoffSteps \in Nat
  BY MailNextType, MailAssumption
<1> DEFINE Steady(n) == /\ mail'[n].attempts = mail[n].attempts
                        /\ mail'[n].st \in {"sending", "failed"} /\ mail'[n].next = "never" =>
                             mail[n].st \in {"sending", "failed"} /\ mail[n].next = "never"
\* Who sends nothing and counts nothing.
<1>1. ASSUME tries' = tries, \A n \in Mails : Steady(n),
             \A t \in 1 .. Ticks : \/ tick'[t] = tick[t]
                                   \/ Copies(t)' \subseteq Copies(t) /\ tick'[t].answer = "none"
      PROVE  CountsHonest'
  <2> SUFFICES ASSUME NEW n \in Mails PROVE HonestCount(n)'
    BY DEF CountsHonest
  <2>1. HonestCount(n) /\ Steady(n)
    BY <1>1 DEF CountsHonest
  <2>2. ASSUME NEW t \in 1 .. Ticks, NEW c \in Copies(t)', c.m = n
        PROVE  c.attempts + Answered(n, t)' <= tries[n]
    <3>1. CASE tick'[t] = tick[t]
      BY <2>1, <2>2, <3>1 DEF HonestCount, Copies, Answered, Current
    <3>2. CASE Copies(t)' \subseteq Copies(t) /\ tick'[t].answer = "none"
      <4>1. c \in Copies(t) /\ Answered(n, t)' = 0 /\ Answered(n, t) \in {0, 1}
        BY <2>2, <3>2 DEF Answered
      <4>2. c.attempts \in Nat /\ tries[n] \in Nat
        BY <4>1, CopyType DEF MailTypeOK
      <4> QED
        BY <2>1, <2>2, <4>1, <4>2 DEF HonestCount
    <3> QED
      BY <1>1, <3>1, <3>2
  <2> QED
    BY <1>1, <2>1, <2>2 DEF HonestCount
<1>2. ASSUME NEW m \in Mails, Submit(m) \/ FirstSettle(m) PROVE CountsHonest'
  <2>1. \A n \in Mails : Steady(n)
    BY <1>2, Dated DEF Submit, FirstSettle
  <2> QED
    BY <1>1, <1>2, <2>1 DEF Submit, FirstSettle
<1>3. ASSUME NEW m \in Mails, FirstSend(m) \/ FirstSettleFails(m) \/ FirstCrash(m)
      PROVE  CountsHonest'
  BY <1>1, <1>3 DEF FirstSend, FirstSettleFails, FirstCrash
<1>4. ASSUME NEW m \in Mails, DateComes(m) PROVE CountsHonest'
  <2>1. \A n \in Mails : Steady(n)
    BY <1>4 DEF DateComes, MailTypeOK
  <2> QED
    BY <1>1, <1>4, <2>1 DEF DateComes
<1>5. ASSUME NEW t \in 1 .. Ticks, ClaimDueRetries(t) PROVE CountsHonest'
  <2>1. PICK batch \in SUBSET Mails :
          /\ mail' = [m \in Mails |-> IF m \in batch THEN [mail[m] EXCEPT !.next = "later"]
                                      ELSE mail[m]]
          /\ \E rows \in Seq(Copy) :
               /\ tick' = [tick EXCEPT ![t].rows = rows] /\ rows # <<>>
               /\ ToSet(rows) = {[m |-> m, attempts |-> mail[m].attempts] : m \in batch}
    BY <1>5, Claimed
  <2>2. PICK rows \in Seq(Copy) :
          /\ tick' = [tick EXCEPT ![t].rows = rows] /\ rows # <<>>
          /\ ToSet(rows) = {[m |-> m, attempts |-> mail[m].attempts] : m \in batch}
    BY <2>1
  <2>3. /\ Copies(t)' = {[m |-> m, attempts |-> mail[m].attempts] : m \in batch}
        /\ tick'[t].answer = "none" /\ \A u \in 1 .. Ticks \ {t} : tick'[u] = tick[u]
        /\ tries' = tries
    <3>1. tick[t].answer = "none" /\ tries' = tries
      BY <1>5 DEF ClaimDueRetries, Batches
    <3>2. tick'[t].rows = rows /\ tick'[t].answer = tick[t].answer
      BY <2>2 DEF MailTypeOK
    <3>3. \A u \in 1 .. Ticks \ {t} : tick'[u] = tick[u]
      BY <2>2 DEF MailTypeOK
    <3> QED
      BY <2>2, <3>1, <3>2, <3>3 DEF Copies
  <2> SUFFICES ASSUME NEW n \in Mails PROVE HonestCount(n)'
    BY DEF CountsHonest
  <2>4. HonestCount(n) /\ Steady(n)
    BY <2>1 DEF CountsHonest, MailTypeOK
  <2>5. ASSUME NEW u \in 1 .. Ticks, NEW c \in Copies(u)', c.m = n
        PROVE  c.attempts + Answered(n, u)' <= tries[n]
    <3>1. CASE u = t
      <4>1. c.attempts = mail[n].attempts /\ Answered(n, u)' = 0
        BY <2>3, <2>5, <3>1 DEF Answered
      <4> QED
        BY <2>4, <4>1 DEF HonestCount, MailTypeOK
    <3>2. CASE u # t
      <4>1. tick'[u] = tick[u]
        BY <2>3, <3>2
      <4> QED
        BY <2>4, <2>5, <4>1 DEF HonestCount, Copies, Answered, Current
    <3> QED
      BY <3>1, <3>2
  <2> QED
    BY <2>3, <2>4, <2>5 DEF HonestCount
\* The tick that sends has one more answer than the attempts it will count.
<1>6. ASSUME NEW t \in 1 .. Ticks, RetrySend(t) PROVE CountsHonest'
  <2>1. /\ Busy(t) /\ tick[t].answer = "none" /\ UNCHANGED mail
        /\ tries' = [tries EXCEPT ![Current(t).m] = @ + 1]
        /\ Current(t) \in Copies(t) /\ Current(t).m \in Mails
    BY <1>6, RowGone DEF RetrySend
  <2>2. /\ \A u \in 1 .. Ticks : tick'[u].rows = tick[u].rows
        /\ \A u \in 1 .. Ticks \ {t} : tick'[u] = tick[u]
    BY <1>6 DEF RetrySend, MailTypeOK
  <2> SUFFICES ASSUME NEW n \in Mails PROVE HonestCount(n)'
    BY DEF CountsHonest
  <2>3. HonestCount(n) /\ tries[n] \in Nat /\ mail[n].attempts \in Nat
    BY DEF CountsHonest, MailTypeOK
  <2>4. tries'[n] = IF n = Current(t).m THEN tries[n] + 1 ELSE tries[n]
    BY <2>1 DEF MailTypeOK
  <2>5. ASSUME NEW u \in 1 .. Ticks, NEW c \in Copies(u)', c.m = n
        PROVE  c.attempts + Answered(n, u)' <= tries'[n]
    <3>1. c \in Copies(u) /\ Current(u)' = Current(u)
      BY <2>2, <2>5 DEF Copies, Current
    <3>4. c.attempts + Answered(n, u) <= tries[n] /\ c.attempts \in Nat
      BY <2>3, <2>5, <3>1, CopyType DEF HonestCount
    <3>2. CASE u = t
      <4>1. /\ Answered(n, u) = 0
            /\ Answered(n, u)' = IF n = Current(t).m /\ tick'[t].answer # "none" THEN 1 ELSE 0
        BY <2>1, <3>1, <3>2 DEF Answered
      <4> QED
        BY <2>3, <2>4, <3>4, <4>1
    <3>3. CASE u # t
      <4>1. Answered(n, u)' = Answered(n, u) /\ Answered(n, u) \in {0, 1}
        BY <2>2, <3>3 DEF Answered, Current
      <4> QED
        BY <2>3, <2>4, <3>4, <4>1
    <3> QED
      BY <3>2, <3>3
  <2> QED
    BY <2>1, <2>3, <2>4, <2>5 DEF HonestCount
\* What it counts was sent.
<1>7. ASSUME NEW t \in 1 .. Ticks, RetrySettle(t) PROVE CountsHonest'
  <2> DEFINE k == Current(t).m
  <2>1. /\ Busy(t) /\ tick[t].answer # "none" /\ tries' = tries
        /\ tick' = [tick EXCEPT ![t] = NextRow(t)]
        /\ Current(t) \in Copies(t) /\ k \in Mails /\ Current(t).attempts \in Nat
        /\ ToSet(NextRow(t).rows) \subseteq Copies(t) /\ NextRow(t).answer = "none"
    BY <1>7, RowGone DEF RetrySettle, Answer, NextRow, Copy
  <2>2. /\ \A n \in Mails \ {k} : mail'[n] = mail[n]
        /\ mail'[k].attempts = Current(t).attempts + 1
        /\ mail'[k].next = "never" => \/ mail'[k].st = "sent"
                                      \/ Current(t).attempts + 1 >= BackoffSteps
    BY <1>7, <2>1 DEF RetrySettle, AttemptNumber, NextRetryAt, MailTypeOK
  <2> SUFFICES ASSUME NEW n \in Mails PROVE HonestCount(n)'
    BY DEF CountsHonest
  <2>3. HonestCount(n) /\ tries[n] \in Nat
    BY DEF CountsHonest, MailTypeOK
  <2>4. ASSUME NEW u \in 1 .. Ticks, NEW c \in Copies(u)', c.m = n
        PROVE  c.attempts + Answered(n, u)' <= tries[n]
    <3>1. CASE u = t
      <4>1. c \in Copies(u) /\ Answered(n, u)' = 0 /\ Answered(n, u) \in {0, 1}
        BY <2>1, <2>4, <3>1 DEF Copies, Answered, MailTypeOK
      <4>2. c.attempts \in Nat
        BY <4>1, CopyType
      <4> QED
        BY <2>3, <2>4, <4>1, <4>2 DEF HonestCount
    <3>2. CASE u # t
      <4>1. tick'[u] = tick[u]
        BY <2>1, <3>2 DEF MailTypeOK
      <4> QED
        BY <2>3, <2>4, <4>1 DEF HonestCount, Copies, Answered, Current
    <3> QED
      BY <3>1, <3>2
  <2>5. CASE n = k
    <3>1. Current(t).attempts + 1 <= tries[n]
      BY <2>1, <2>3, <2>5 DEF HonestCount, Answered
    <3> QED
      BY <2>1, <2>2, <2>4, <2>5, <3>1 DEF HonestCount
  <2>6. CASE n # k
    BY <2>1, <2>2, <2>3, <2>4, <2>6 DEF HonestCount
  <2> QED
    BY <2>5, <2>6
<1>8. ASSUME NEW t \in 1 .. Ticks, RetryThrows(t) \/ TickCrash(t) PROVE CountsHonest'
  <2>1. /\ Busy(t) /\ UNCHANGED <<mail, tries>>
        /\ \A u \in 1 .. Ticks \ {t} : tick'[u] = tick[u]
        /\ tick'[t].answer = "none" /\ Copies(t)' \subseteq Copies(t)
    <3>1. CASE RetryThrows(t)
      BY <3>1, RowGone DEF RetryThrows, NextRow, Copies, MailTypeOK
    <3>2. CASE TickCrash(t)
      BY <3>2 DEF TickCrash, Copies, ToSet, MailTypeOK
    <3> QED
      BY <1>8, <3>1, <3>2
  <2> QED
    BY <1>1, <2>1
<1>9. ASSUME UNCHANGED mailVars PROVE CountsHonest'
  BY <1>1, <1>9 DEF mailVars
<1> QED
  BY <1>2, <1>3, <1>4, <1>5, <1>6, <1>7, <1>8, <1>9 DEF MailNext

\* No mail is given up early: a row that is not sent keeps a date until the worker has
\* sent it BackoffSteps times, through crashes between row and send and between send
\* and record, overlapping ticks and late settlements of old copies (retryOne).  It is
\* the safety half of MailSettles.
THEOREM GivenUpAfterItsTries ==
    MailSpec => [](\A m \in Mails :
                     mail[m].st \in {"sending", "failed"} /\ mail[m].next = "never" =>
                       tries[m] >= BackoffSteps)
<1> DEFINE Inv == MailTypeOK /\ Batches /\ CountsHonest
           Tried == \A m \in Mails :
                      mail[m].st \in {"sending", "failed"} /\ mail[m].next = "never" =>
                        tries[m] >= BackoffSteps
<1>1. MailInit => Inv
  <2> SUFFICES ASSUME MailInit PROVE Inv
    OBVIOUS
  <2>1. \A t \in 1 .. Ticks : Copies(t) = {} /\ tick[t].answer = "none"
    BY DEF MailInit, Copies, ToSet
  <2> QED
    BY <2>1, MailInitType, BalanceInit DEF MailInit, CountsHonest, HonestCount
<1>2. Inv /\ [MailNext]_mailVars => Inv'
  BY MailNextType, HonestStep
<1>3. Inv => Tried
  <2> SUFFICES ASSUME Inv, NEW m \in Mails,
                      mail[m].st \in {"sending", "failed"}, mail[m].next = "never"
               PROVE  tries[m] >= BackoffSteps
    OBVIOUS
  <2>1. mail[m].attempts >= BackoffSteps /\ mail[m].attempts <= tries[m]
    BY DEF CountsHonest, HonestCount
  <2> QED
    BY <2>1, MailAssumption DEF MailTypeOK
<1> HIDE DEF Inv
<1> QED
  BY <1>1, <1>2, <1>3, PTL DEF MailSpec

-----------------------------------------------------------------------------
(* A mail that is sent stays sent *)

\* Without an overrun a row is in one hand at a time, and not settled.
OneHand ==
    mailFaults.overruns = 0 =>
        /\ \A m \in Mails : Sending(m) =>
             mail[m].st = "sending" /\ mail[m].next = "later" /\ ~Held(m)
        /\ \A m \in Mails : \A t \in 1 .. Ticks : InRows(m, t) =>
             /\ mail[m].st \in {"failed", "sending"} /\ mail[m].next = "later"
             /\ \A u \in 1 .. Ticks : InRows(m, u) => u = t

LEMMA OneHandStep ==
    ASSUME MailTypeOK, Batches, Unwritten, OneHand, [MailNext]_mailVars
    PROVE  OneHand'
<1> SUFFICES ASSUME mailFaults'.overruns = 0 PROVE OneHand'
  BY DEF OneHand
<1>0. MailTypeOK' /\ mailFaults \in [crashes : Nat, db : Nat, overruns : Nat]
  BY MailNextType DEF MailTypeOK
<1>1. ASSUME NEW n \in Mails, Submit(n) PROVE OneHand'
  <2>1. /\ mail'[n].st = "sending" /\ mail'[n].next = "later"
        /\ \A m \in Mails \ {n} : mail'[m] = mail[m]
    BY <1>1, Dated DEF Submit
  <2>2. /\ UNCHANGED <<tick, mailFaults>> /\ mailFaults.overruns = 0
        /\ \A m \in Mails \ {n} : Sending(m)' <=> Sending(m)
    BY <1>1 DEF Submit, Sending, MailTypeOK
  <2>3. ~Held(n)
    BY <1>1 DEF Submit, Unwritten
  <2> QED
    BY <2>1, <2>2, <2>3 DEF OneHand, Held, InRows, Copies
<1>2. ASSUME NEW n \in Mails, FirstSend(n) \/ FirstSettleFails(n) \/ FirstCrash(n)
      PROVE  OneHand'
  <2>1. /\ UNCHANGED <<tick, mail>>
        /\ \A m \in Mails : Sending(m)' => Sending(m)
    BY <1>2 DEF FirstSend, FirstSettleFails, FirstCrash, Sending, MailTypeOK, Answer
  <2>2. mailFaults.overruns = 0
    BY <1>2, MishapCounts DEF FirstSend, FirstSettleFails, FirstCrash
  <2> QED
    BY <2>1, <2>2 DEF OneHand, Held, InRows, Copies
<1>3. ASSUME NEW n \in Mails, FirstSettle(n) PROVE OneHand'
  <2>1. \A m \in Mails \ {n} : mail'[m] = mail[m]
    BY <1>3, Dated DEF FirstSettle
  <2>2. /\ UNCHANGED <<tick, mailFaults>> /\ mailFaults.overruns = 0
        /\ \A m \in Mails : Sending(m)' => Sending(m)
        /\ Sending(n) /\ ~Sending(n)'
    BY <1>3 DEF FirstSettle, Sending, MailTypeOK, Answer
  <2>3. ~Held(n)
    BY <2>2 DEF OneHand
  <2> QED
    BY <2>1, <2>2, <2>3 DEF OneHand, Held, InRows, Copies
<1>4. ASSUME NEW n \in Mails, DateComes(n) PROVE OneHand'
  <2>1. /\ \A m \in Mails \ {n} : mail'[m] = mail[m]
        /\ UNCHANGED <<tick, sender>>
    BY <1>4 DEF DateComes, MailTypeOK
  <2>2. mailFaults.overruns = 0 /\ ~InHands(n)
    BY <1>0, <1>4, MishapCounts DEF DateComes
  <2>3. ~Sending(n) /\ ~Held(n)
    BY <2>2 DEF InHands, Sending, Held, InRows, Copies, ToSet
  <2> QED
    BY <2>1, <2>2, <2>3 DEF OneHand, Held, InRows, Copies, Sending
<1>5. ASSUME NEW t \in 1 .. Ticks, ClaimDueRetries(t) PROVE OneHand'
  <2>1. PICK batch \in SUBSET Mails :
          /\ \A m \in batch : DueForRetry(m)
          /\ mail' = [m \in Mails |-> IF m \in batch THEN [mail[m] EXCEPT !.next = "later"]
                                      ELSE mail[m]]
          /\ \E rows \in Seq(Copy) :
               /\ tick' = [tick EXCEPT ![t].rows = rows] /\ rows # <<>>
               /\ ToSet(rows) = {[m |-> m, attempts |-> mail[m].attempts] : m \in batch}
    BY <1>5, Claimed
  <2>2. PICK rows \in Seq(Copy) :
          /\ tick' = [tick EXCEPT ![t].rows = rows]
          /\ ToSet(rows) = {[m |-> m, attempts |-> mail[m].attempts] : m \in batch}
    BY <2>1
  <2>3. /\ tick[t].rows = <<>> /\ tick'[t].rows = rows
        /\ \A u \in 1 .. Ticks \ {t} : tick'[u] = tick[u]
    BY <1>5, <2>2 DEF ClaimDueRetries, MailTypeOK
  <2>4. /\ Copies(t) = {}
        /\ Copies(t)' = {[m |-> m, attempts |-> mail[m].attempts] : m \in batch}
        /\ \A u \in 1 .. Ticks \ {t} : Copies(u)' = Copies(u)
    BY <2>2, <2>3 DEF Copies, ToSet
  <2>5. /\ \A m \in Mails : ~InRows(m, t) /\ (InRows(m, t)' <=> m \in batch)
        /\ \A m \in Mails : \A u \in 1 .. Ticks \ {t} : InRows(m, u)' <=> InRows(m, u)
    <3>1. \A m \in batch : \E c \in Copies(t)' : c.m = m
      <4> SUFFICES ASSUME NEW m \in batch PROVE \E c \in Copies(t)' : c.m = m
        OBVIOUS
      <4>1. [m |-> m, attempts |-> mail[m].attempts] \in Copies(t)'
        BY <2>4
      <4> QED
        BY <4>1
    <3>2. \A c \in Copies(t)' : c.m \in batch
      BY <2>4
    <3> QED
      BY <2>4, <3>1, <3>2 DEF InRows
  <2>6. /\ UNCHANGED <<sender, mailFaults>> /\ mailFaults.overruns = 0
        /\ \A m \in Mails : Sending(m)' <=> Sending(m)
    BY <1>5 DEF ClaimDueRetries, Sending
  <2>7. ASSUME NEW m \in batch
        PROVE  /\ mail'[m].st \in {"failed", "sending"} /\ mail'[m].next = "later"
               /\ mail[m].next = "now"
    BY <2>1 DEF MailTypeOK, DueForRetry
  <2>8. \A m \in Mails \ batch : mail'[m] = mail[m]
    BY <2>1
  <2>9. ASSUME NEW m \in batch PROVE ~Sending(m) /\ \A u \in 1 .. Ticks : ~InRows(m, u)
    BY <2>6, <2>7 DEF OneHand
  <2>10. ASSUME NEW m \in Mails, Sending(m)'
         PROVE  mail'[m].st = "sending" /\ mail'[m].next = "later" /\ ~Held(m)'
    BY <2>5, <2>6, <2>8, <2>9, <2>10 DEF OneHand, Held
  <2>11. ASSUME NEW m \in Mails, NEW u \in 1 .. Ticks, InRows(m, u)'
         PROVE  /\ mail'[m].st \in {"failed", "sending"} /\ mail'[m].next = "later"
                /\ \A w \in 1 .. Ticks : InRows(m, w)' => w = u
    <3>1. CASE m \in batch
      BY <2>5, <2>7, <2>9, <2>11, <3>1
    <3>2. CASE m \notin batch
      BY <2>5, <2>6, <2>8, <2>11, <3>2 DEF OneHand
    <3> QED
      BY <3>1, <3>2
  <2> QED
    BY <2>10, <2>11 DEF OneHand
<1>6. ASSUME NEW t \in 1 .. Ticks, RetrySend(t) PROVE OneHand'
  <2>1. PICK answer \in Answer : tick' = [tick EXCEPT ![t].answer = answer]
    BY <1>6 DEF RetrySend
  <2>2. \A u \in 1 .. Ticks : tick'[u].rows = tick[u].rows
    BY <2>1 DEF MailTypeOK
  <2>3. UNCHANGED <<mail, sender, mailFaults>>
    BY <1>6 DEF RetrySend
  <2> QED
    BY <2>2, <2>3 DEF OneHand, Held, InRows, Copies, Sending
<1>7. ASSUME NEW t \in 1 .. Ticks, RetrySettle(t) \/ RetryThrows(t) \/ TickCrash(t)
      PROVE  OneHand'
  <2>1. Busy(t) /\ UNCHANGED sender
    BY <1>7 DEF RetrySettle, RetryThrows, TickCrash
  <2>0. PICK n \in Mails : n = Current(t).m
    BY <2>1, RowGone
  <2>2. /\ Current(t) \in Copies(t) /\ n \in Mails
        /\ ToSet(NextRow(t).rows) = Copies(t) \ {Current(t)}
        /\ \A c \in Copies(t) : c.m = n => c = Current(t)
    BY <2>0, <2>1, RowGone
  <2>3. mailFaults.overruns = 0
    BY <1>7, MishapCounts DEF RetrySettle, RetryThrows, TickCrash
  <2>4. /\ tick'[t].rows = NextRow(t).rows \/ tick'[t].rows = <<>>
        /\ \A u \in 1 .. Ticks \ {t} : tick'[u] = tick[u]
    <3>1. \A r : tick' = [tick EXCEPT ![t] = r] =>
            tick'[t] = r /\ \A u \in 1 .. Ticks \ {t} : tick'[u] = tick[u]
      BY DEF MailTypeOK
    <3>2. CASE tick' = [tick EXCEPT ![t] = NextRow(t)]
      BY <3>1, <3>2
    <3>3. CASE tick' = [tick EXCEPT ![t] = [rows |-> <<>>, answer |-> "none"]]
      BY <3>1, <3>3
    <3> QED
      BY <1>7, <3>2, <3>3 DEF RetrySettle, RetryThrows, TickCrash
  <2>5. /\ Copies(t)' \in SUBSET (Copies(t) \ {Current(t)})
        /\ \A u \in 1 .. Ticks \ {t} : Copies(u)' = Copies(u)
    <3>1. ToSet(<<>>) = {}
      BY DEF ToSet
    <3> QED
      BY <2>2, <2>4, <3>1 DEF Copies
  <2>6. \A m \in Mails \ {n} : mail'[m] = mail[m]
    BY <1>7, <2>0 DEF RetrySettle, RetryThrows, TickCrash, MailTypeOK
  <2>7. InRows(n, t) /\ ~InRows(n, t)'
    BY <2>0, <2>2, <2>5 DEF InRows
  <2>8. \A m \in Mails : \A u \in 1 .. Ticks : InRows(m, u)' => InRows(m, u)
    BY <2>5 DEF InRows
  <2>9. ~Sending(n) /\ \A u \in 1 .. Ticks : ~InRows(n, u)'
    BY <2>2, <2>3, <2>7, <2>8 DEF OneHand, Held
  <2>10. \A m \in Mails : Sending(m)' <=> Sending(m)
    BY <2>1 DEF Sending
  <2> QED
    BY <2>3, <2>6, <2>8, <2>9, <2>10 DEF OneHand, Held
<1>8. ASSUME UNCHANGED mailVars PROVE OneHand'
  BY <1>8 DEF mailVars, OneHand, Held, InRows, Copies, Sending
<1> QED
  BY <1>1, <1>2, <1>3, <1>4, <1>5, <1>6, <1>7, <1>8 DEF MailNext

\* Who settles a row has it in hand, so that without an overrun it is not sent yet.
THEOREM SentMailStays == MailSpec => SentStays
<1> DEFINE Inv == MailTypeOK /\ Batches /\ Unwritten /\ Balance /\ OneHand
<1>1. MailInit => Inv
  <2>1. MailInit => OneHand
    BY DEF MailInit, OneHand, Sending, Held, InRows, Copies, ToSet, Answer
  <2> QED
    BY <2>1, MailInitType, BalanceInit
<1>2. Inv /\ [MailNext]_mailVars => Inv'
  BY MailNextType, BalanceStep, OneHandStep
<1>3. Inv /\ [MailNext]_mailVars =>
        [\A m \in Mails : mail[m].st = "sent" /\ mailFaults.overruns = 0 =>
           mail'[m].st = "sent"]_mailVars
  <2> SUFFICES ASSUME Inv, MailNext, NEW m \in Mails,
                      mail[m].st = "sent", mailFaults.overruns = 0
               PROVE  mail'[m].st = "sent"
    OBVIOUS
  <2>1. ~Sending(m) /\ ~Held(m)
    BY DEF OneHand, Held
  <2>2. ASSUME NEW n \in Mails, Submit(n) \/ FirstSettle(n) PROVE mail'[m] = mail[m]
    <3>1. n # m
      BY <2>1, <2>2 DEF Submit, FirstSettle, Sending
    <3> QED
      BY <2>2, <3>1 DEF Submit, FirstSettle, MailTypeOK
  <2>3. ASSUME NEW n \in Mails, FirstSend(n) \/ FirstSettleFails(n) \/ FirstCrash(n)
        PROVE  mail'[m] = mail[m]
    BY <2>3 DEF FirstSend, FirstSettleFails, FirstCrash
  <2>4. ASSUME NEW n \in Mails, DateComes(n) PROVE mail'[m].st = mail[m].st
    BY <2>4 DEF DateComes, MailTypeOK
  <2>5. ASSUME NEW t \in 1 .. Ticks, ClaimDueRetries(t) PROVE mail'[m].st = mail[m].st
    <3>1. PICK batch \in SUBSET Mails :
            mail' = [n \in Mails |-> IF n \in batch THEN [mail[n] EXCEPT !.next = "later"]
                                     ELSE mail[n]]
      BY <2>5, Claimed
    <3>2. mail'[m] = IF m \in batch THEN [mail[m] EXCEPT !.next = "later"] ELSE mail[m]
      BY <3>1
    <3> QED
      BY <3>2 DEF MailTypeOK
  <2>6. ASSUME NEW t \in 1 .. Ticks, RetrySettle(t) PROVE mail'[m] = mail[m]
    <3>1. Current(t) \in Copies(t) /\ Current(t).m \in Mails
      BY <2>6, RowGone DEF RetrySettle
    <3>2. Current(t).m # m
      BY <2>1, <3>1 DEF Held, InRows
    <3> QED
      BY <2>6, <3>1, <3>2 DEF RetrySettle, MailTypeOK
  <2>7. ASSUME NEW t \in 1 .. Ticks, RetrySend(t) \/ RetryThrows(t) \/ TickCrash(t)
        PROVE  mail'[m] = mail[m]
    BY <2>7 DEF RetrySend, RetryThrows, TickCrash
  <2> QED
    BY <2>2, <2>3, <2>4, <2>5, <2>6, <2>7 DEF MailNext
<1> HIDE DEF Inv
<1> QED
  BY <1>1, <1>2, <1>3, PTL DEF MailSpec, SentStays

-----------------------------------------------------------------------------
(* Wake streams: what the invariant says                                   *)

\* The set of subscribers is what is open, or shut and not yet gone.
Belongs(s) ==
    /\ \A v \in Servers : s \in subs[v] <=>
         stream[s].on = v /\ stream[s].st \in {"opening", "early", "ready", "shut"}
    /\ stream[s].pending # <<>> => ~Closed(s)

Members == \A s \in Streams : Belongs(s)

\* A subscription is there, and nobody is about to end it, as long as a stream relies
\* on it: one that is ready, and one whose reply has not been read.
ReliedOn(s) ==
    LET v == stream[s].on
    IN  /\ stream[s].st = "ready" => Confirmed(v)
        /\ stream[s].st = "opening" =>
             /\ s \in Range(wire[v]) => Confirmed(v)
             /\ \A k \in 1 .. Len(commands[v]) - 1 : commands[v][k] # s

\* A SUBSCRIBE and its reply are those of the stream that waits for it.
Asked(s) ==
    \A v \in Servers : s \in Range(wire[v]) \/ s \in Range(commands[v]) =>
        stream[s].on = v /\ stream[s].st \notin {"none", "early"}

Relied == \A s \in Streams : ReliedOn(s) /\ Asked(s)

\* Wakes are where they were sent, or their stream is closed for good.
Reaches(n, s) == stream[s].st # "none" /\ (Closed(s) \/ OnTheWay(n, s))

NoGap == \A n \in DOMAIN owed : \A s \in owed[n] : Reaches(n, s)

Sorted(q) == \A i, j \in DOMAIN q : i < j => q[i] < q[j]

WireSorted(q) == \A i, j \in DOMAIN q :
    i < j /\ q[i] \notin Streams /\ q[j] \notin Streams => q[i] < q[j]

\* Everything on the way to a stream is in the order of publication.
WireOrdered(v) == WireSorted(wire[v]) /\ Range(wire[v]) \ Streams \in SUBSET DOMAIN owed

Ordered(s) ==
    /\ Sorted(got[s]) /\ Sorted(stream[s].pending)
    /\ Range(got[s]) \cup Range(stream[s].pending) \in SUBSET DOMAIN owed
    /\ \A a \in Range(got[s]), b \in Range(stream[s].pending) : a < b
    /\ \A a \in Range(got[s]) \cup Range(stream[s].pending) :
         \A b \in Range(wire[stream[s].on]) \ Streams : a < b
    /\ Len(stream[s].pending) <= MaxPending

InOrder == (\A v \in Servers : WireOrdered(v)) /\ (\A s \in Streams : Ordered(s))

-----------------------------------------------------------------------------
(* Sequences *)

Wire == Streams \cup (1 .. MaxWakes)
Command == Streams \cup {Unsubscribe}

State == [st : {"none", "opening", "early", "ready", "shut", "closed"},
          on : Servers, pending : Seq(1 .. MaxWakes)]

LEMMA RangeAppend ==
    ASSUME NEW S, NEW q \in Seq(S), NEW x \in S
    PROVE  Range(Append(q, x)) = Range(q) \cup {x}
<1>1. /\ Len(Append(q, x)) = Len(q) + 1 /\ DOMAIN Append(q, x) = 1 .. Len(q) + 1
      /\ \A i \in 1 .. Len(q) : Append(q, x)[i] = q[i]
      /\ Append(q, x)[Len(q) + 1] = x
      /\ DOMAIN q = 1 .. Len(q) /\ Len(q) \in Nat
  OBVIOUS
<1>2. ASSUME NEW i \in DOMAIN Append(q, x) PROVE Append(q, x)[i] \in Range(q) \cup {x}
  <2>1. i \in 1 .. Len(q) \/ i = Len(q) + 1
    BY <1>1
  <2> QED
    BY <1>1, <2>1 DEF Range
<1>3. ASSUME NEW i \in DOMAIN q PROVE q[i] \in Range(Append(q, x))
  BY <1>1 DEF Range
<1>4. x \in Range(Append(q, x))
  BY <1>1 DEF Range
<1> QED
  BY <1>2, <1>3, <1>4 DEF Range

LEMMA RangeTail ==
    ASSUME NEW S, NEW q \in Seq(S), q # <<>>
    PROVE  Range(q) = {Head(q)} \cup Range(Tail(q)) /\ Head(q) \in S /\ Tail(q) \in Seq(S)
<1>1. Head(q) = q[1] /\ Len(q) \in Nat \ {0} /\ DOMAIN q = 1 .. Len(q)
  BY EmptySeq, HeadTailProperties
<1>2. /\ Tail(q) \in Seq(S) /\ Len(Tail(q)) = Len(q) - 1
      /\ \A i \in 1 .. Len(Tail(q)) : Tail(q)[i] = q[i + 1]
  BY HeadTailProperties
<1>3. ASSUME NEW i \in DOMAIN q PROVE q[i] \in {Head(q)} \cup Range(Tail(q))
  <2>1. CASE i = 1
    BY <1>1, <2>1
  <2>2. CASE i # 1
    <3>1. i - 1 \in 1 .. Len(Tail(q)) /\ Tail(q)[i - 1] = q[i]
      BY <1>1, <1>2, <2>2
    <3>2. DOMAIN Tail(q) = 1 .. Len(Tail(q))
      BY <1>2
    <3> QED
      BY <3>1, <3>2 DEF Range
  <2> QED
    BY <2>1, <2>2
<1>4. ASSUME NEW i \in DOMAIN Tail(q) PROVE Tail(q)[i] \in Range(q)
  BY <1>1, <1>2 DEF Range
<1>5. Head(q) \in Range(q)
  BY <1>1 DEF Range
<1> QED
  BY <1>1, <1>2, <1>3, <1>4, <1>5 DEF Range

LEMMA SortedTail ==
    ASSUME NEW S \in SUBSET Nat, NEW q \in Seq(S), q # <<>>, Sorted(q)
    PROVE  /\ Sorted(Tail(q))
           /\ \A y \in Range(Tail(q)) : Head(q) < y
<1>1. Head(q) = q[1] /\ Len(q) \in Nat \ {0} /\ DOMAIN q = 1 .. Len(q)
  BY EmptySeq, HeadTailProperties
<1>2. /\ Len(Tail(q)) = Len(q) - 1 /\ DOMAIN Tail(q) = 1 .. Len(Tail(q))
      /\ \A i \in 1 .. Len(Tail(q)) : Tail(q)[i] = q[i + 1]
  BY HeadTailProperties
<1> QED
  BY <1>1, <1>2 DEF Sorted, Range

LEMMA SortedAppend ==
    ASSUME NEW S \in SUBSET Nat, NEW q \in Seq(S), NEW x \in S, Sorted(q),
           \A y \in Range(q) : y < x
    PROVE  Sorted(Append(q, x))
BY DEF Sorted, Range

LEMMA WireTail ==
    ASSUME NEW q \in Seq(Wire), q # <<>>, WireSorted(q)
    PROVE  /\ WireSorted(Tail(q))
           /\ Head(q) \notin Streams => \A y \in Range(Tail(q)) \ Streams : Head(q) < y
<1>1. Head(q) = q[1] /\ Len(q) \in Nat \ {0} /\ DOMAIN q = 1 .. Len(q)
  BY EmptySeq, HeadTailProperties
<1>2. /\ Len(Tail(q)) = Len(q) - 1 /\ DOMAIN Tail(q) = 1 .. Len(Tail(q))
      /\ \A i \in 1 .. Len(Tail(q)) : Tail(q)[i] = q[i + 1]
  BY HeadTailProperties
<1> QED
  BY <1>1, <1>2 DEF WireSorted, Range

LEMMA WireAppend ==
    ASSUME NEW q \in Seq(Wire), NEW x \in Wire, WireSorted(q),
           x \in Streams \/ \A y \in Range(q) \ Streams : y < x
    PROVE  WireSorted(Append(q, x))
<1>1. /\ Len(q) \in Nat /\ DOMAIN q = 1 .. Len(q) /\ DOMAIN Append(q, x) = 1 .. Len(q) + 1
      /\ \A i \in 1 .. Len(q) : Append(q, x)[i] = q[i]
      /\ Append(q, x)[Len(q) + 1] = x
  OBVIOUS
<1> QED
  BY <1>1 DEF WireSorted, Range

-----------------------------------------------------------------------------
(* Types *)

\* A record with another status or another queue.
LEMMA StateWith ==
    ASSUME NEW x \in State, NEW st \in {"none", "opening", "early", "ready", "shut", "closed"},
           NEW q \in Seq(1 .. MaxWakes)
    PROVE  /\ LET y == [x EXCEPT !.st = st]
              IN  y \in State /\ y.st = st /\ y.on = x.on /\ y.pending = x.pending
           /\ LET y == [x EXCEPT !.pending = q]
              IN  y \in State /\ y.st = x.st /\ y.on = x.on /\ y.pending = q
           /\ LET y == [x EXCEPT !.st = st, !.pending = q]
              IN  y \in State /\ y.st = st /\ y.on = x.on /\ y.pending = q
BY DEF State

LEMMA BusInitType == BusInit => BusTypeOK
<1> SUFFICES ASSUME BusInit PROVE BusTypeOK
  OBVIOUS
<1>1. stream \in [Streams -> State]
  <2>1. <<>> \in Seq(1 .. MaxWakes)
    OBVIOUS
  <2>2. [st : {"none"}, on : Servers, pending : {<<>>}] \in SUBSET State
    BY <2>1 DEF State
  <2> HIDE DEF State
  <2> QED
    BY <2>2 DEF BusInit
<1>2. owed \in Seq(SUBSET Streams) /\ Len(owed) <= MaxWakes
  BY BusAssumption DEF BusInit
<1> QED
  BY <1>1, <1>2 DEF BusInit, BusTypeOK, State

LEMMA ClosedState ==
    ASSUME BusTypeOK, NEW s \in Streams, NEW as \in {"shut", "closed"}
    PROVE  /\ Close(s, as) \in State /\ Close(s, as).st = as
           /\ Close(s, as).on = stream[s].on /\ Close(s, as).pending = <<>>
<1>1. stream[s] \in State /\ <<>> \in Seq(1 .. MaxWakes)
  BY DEF BusTypeOK, State
<1> QED
  BY <1>1 DEF Close, State

LEMMA LeaveType ==
    ASSUME BusTypeOK, NEW v \in Servers, NEW leaving \in SUBSET Streams, Leave(v, leaving)
    PROVE  /\ subs' \in [Servers -> SUBSET Streams]
           /\ commands' \in [Servers -> Seq(Command)]
BY DEF BusTypeOK, Leave, Command

LEMMA BusNextType == BusTypeOK /\ [BusNext]_busVars => BusTypeOK'
<1> SUFFICES ASSUME BusTypeOK, [BusNext]_busVars PROVE BusTypeOK'
  OBVIOUS
<1>1. ASSUME PublishWake PROVE BusTypeOK'
  <2>1. Len(owed) + 1 \in 1 .. MaxWakes
    BY <1>1, BusAssumption DEF PublishWake, BusTypeOK
  <2>2. wire' \in [Servers -> Seq(Wire)]
    BY <1>1, <2>1 DEF PublishWake, BusTypeOK, Wire
  <2>3. owed' \in Seq(SUBSET Streams) /\ Len(owed') <= MaxWakes
    BY <1>1, <2>1 DEF PublishWake, BusTypeOK
  <2> QED
    BY <1>1, <2>2, <2>3 DEF PublishWake, BusTypeOK, Wire
<1>2. ASSUME NEW s \in Streams, Attach(s) PROVE BusTypeOK'
  <2>1. stream[s].on \in Servers
    BY DEF BusTypeOK
  <2>2. PICK st \in {"opening", "ready", "early"} : stream' = [stream EXCEPT ![s].st = st]
    BY <1>2 DEF Attach
  <2>3. stream \in [Streams -> State] /\ stream' = [stream EXCEPT ![s] = [stream[s] EXCEPT !.st = st]]
    BY <2>2 DEF BusTypeOK, State
  <2>4. stream' \in [Streams -> State]
    <3>1. [stream[s] EXCEPT !.st = st] \in State
      BY <2>3 DEF State
    <3> QED
      BY <2>3, <3>1
  <2>5. commands \in [Servers -> Seq(Command)] /\ s \in Command
    BY DEF BusTypeOK, Command
  <2>6. commands' \in [Servers -> Seq(Command)]
    <3>1. CASE commands' = [commands EXCEPT ![stream[s].on] = Append(@, s)]
      BY <2>1, <2>5, <3>1
    <3>2. CASE UNCHANGED commands
      BY <2>5, <3>2
    <3> QED
      BY <1>2, <3>1, <3>2 DEF Attach
  <2> QED
    BY <1>2, <2>1, <2>4, <2>6 DEF Attach, BusTypeOK, State, Command
<1>3. ASSUME NEW s \in Streams, Disconnect(s) \/ Revoke(s) PROVE BusTypeOK'
  <2>1. stream[s].on \in Servers
    BY DEF BusTypeOK
  <2>2. stream' \in [Streams -> State]
    BY <1>3, ClosedState DEF Disconnect, Revoke, BusTypeOK, State
  <2>3. Leave(stream[s].on, {s})
    BY <1>3 DEF Disconnect, Revoke
  <2>4. busFaults' \in Nat
    BY <1>3 DEF Disconnect, Revoke, BusFault, BusTypeOK
  <2>5. subs' \in [Servers -> SUBSET Streams] /\ commands' \in [Servers -> Seq(Command)]
    BY <2>1, <2>3, LeaveType
  <2>6. UNCHANGED <<subscribed, wire, owed, got>>
    BY <1>3 DEF Disconnect, Revoke
  <2> QED
    BY <2>2, <2>4, <2>5, <2>6 DEF BusTypeOK, State, Command
<1>4. ASSUME NEW s \in Streams, DeliverTo(s) PROVE BusTypeOK'
  <2>1. stream[s].pending \in Seq(1 .. MaxWakes) /\ stream[s].pending # <<>>
    BY <1>4 DEF DeliverTo, BusTypeOK
  <2>2. /\ Head(stream[s].pending) \in 1 .. MaxWakes
        /\ Tail(stream[s].pending) \in Seq(1 .. MaxWakes)
    BY <2>1, RangeTail
  <2>3. stream' \in [Streams -> State]
    <3>1. stream' = [stream EXCEPT ![s] = [stream[s] EXCEPT !.pending = Tail(stream[s].pending)]]
      BY <1>4 DEF DeliverTo
    <3>2. stream \in [Streams -> State]
      BY DEF BusTypeOK, State
    <3>3. [stream[s] EXCEPT !.pending = Tail(stream[s].pending)] \in State
      <4>1. stream[s] \in State
        BY <3>2
      <4>2. PICK q \in Seq(1 .. MaxWakes) : q = Tail(stream[s].pending)
        BY <2>2
      <4>3. [stream[s] EXCEPT !.pending = q] \in State
        BY <4>1 DEF State
      <4> QED
        BY <4>2, <4>3
    <3> QED
      BY <3>1, <3>2, <3>3
  <2>4. got' \in [Streams -> Seq(1 .. MaxWakes)]
    BY <1>4, <2>2 DEF DeliverTo, BusTypeOK
  <2> QED
    BY <1>4, <2>3, <2>4 DEF DeliverTo, BusTypeOK, State
<1>5. ASSUME NEW s \in Streams, Shut(s) PROVE BusTypeOK'
  <2>1. stream' \in [Streams -> State]
    BY <1>5, ClosedState DEF Shut, BusTypeOK, State
  <2> QED
    BY <1>5, <2>1 DEF Shut, BusFault, BusTypeOK, State
<1>6. ASSUME NEW v \in Servers, Execute(v) PROVE BusTypeOK'
  <2>1. Head(commands[v]) \in Command /\ Tail(commands[v]) \in Seq(Command)
    BY <1>6 DEF Execute, BusTypeOK, Command
  <2>2. commands' \in [Servers -> Seq(Command)] /\ subscribed' \in [Servers -> BOOLEAN]
    BY <1>6, <2>1 DEF Execute, BusTypeOK, Command
  <2>3. wire' \in [Servers -> Seq(Wire)]
    BY <1>6, <2>1 DEF Execute, BusTypeOK, Command, Wire
  <2> QED
    BY <1>6, <2>2, <2>3 DEF Execute, BusTypeOK, Command, Wire
<1>7. ASSUME NEW v \in Servers, CommandFails(v) PROVE BusTypeOK'
  <2>1. commands' \in [Servers -> Seq(Command)]
    BY <1>7 DEF CommandFails, BusTypeOK, Command
  <2> QED
    BY <1>7, <2>1 DEF CommandFails, BusFault, BusTypeOK, Command
<1>8. ASSUME NEW v \in Servers, BecomeReady(v) PROVE BusTypeOK'
  <2>1. stream' \in [Streams -> State]
    <3>1. stream \in [Streams -> State]
      BY DEF BusTypeOK, State
    <3>2. \A s \in Streams : [stream[s] EXCEPT !.st = "ready"] \in State
      BY <3>1 DEF State
    <3> QED
      BY <1>8, <3>1, <3>2 DEF BecomeReady
  <2>2. wire' \in [Servers -> Seq(Wire)]
    BY <1>8 DEF BecomeReady, BusTypeOK, Wire
  <2> QED
    BY <1>8, <2>1, <2>2 DEF BecomeReady, BusTypeOK, State, Wire
<1>9. ASSUME NEW v \in Servers, FanOutWake(v) PROVE BusTypeOK'
  <2> DEFINE open == {s \in subs[v] : ~Closed(s)}
             revoked == {s \in open : Overfull(s)}
  <2>1. Head(wire[v]) \in 1 .. MaxWakes /\ Tail(wire[v]) \in Seq(Wire)
    BY <1>9 DEF FanOutWake, BusTypeOK, Wire
  <2>2. \A s \in Streams :
          [stream[s] EXCEPT !.pending = Append(stream[s].pending, Head(wire[v]))] \in State
    <3> SUFFICES ASSUME NEW s \in Streams
                 PROVE  [stream[s] EXCEPT !.pending = Append(stream[s].pending, Head(wire[v]))]
                          \in State
      OBVIOUS
    <3>1. stream[s] \in State /\ stream[s].pending \in Seq(1 .. MaxWakes)
      BY DEF BusTypeOK, State
    <3>2. Append(stream[s].pending, Head(wire[v])) \in Seq(1 .. MaxWakes)
      BY <2>1, <3>1
    <3>3. PICK q \in Seq(1 .. MaxWakes) : q = Append(stream[s].pending, Head(wire[v]))
      BY <3>2
    <3>4. [stream[s] EXCEPT !.pending = q] \in State
      BY <3>1 DEF State
    <3> QED
      BY <3>3, <3>4
  <2>3. stream' \in [Streams -> State]
    BY <1>9, <2>2, ClosedState DEF FanOutWake, BusTypeOK, State
  <2>4. revoked \in SUBSET Streams /\ Leave(v, revoked)
    BY <1>9 DEF FanOutWake, BusTypeOK
  <2>5. wire' \in [Servers -> Seq(Wire)]
    BY <1>9, <2>1 DEF FanOutWake, BusTypeOK, Wire
  <2> HIDE DEF open, revoked
  <2> QED
    BY <1>9, <2>3, <2>4, <2>5, LeaveType DEF FanOutWake, BusTypeOK, State, Command, Wire
<1>10. ASSUME UNCHANGED busVars PROVE BusTypeOK'
  BY <1>10 DEF busVars, BusTypeOK
<1> QED
  BY <1>1, <1>2, <1>3, <1>4, <1>5, <1>6, <1>7, <1>8, <1>9, <1>10 DEF BusNext

\* The streams, the connections to Redis and what is under way have their types.
THEOREM BusTypeCorrect == BusSpec => []BusTypeOK
<1> QED
  BY BusInitType, BusNextType, PTL DEF BusSpec

-----------------------------------------------------------------------------
(* What the steps do *)

LEMMA LeaveEffect ==
    ASSUME BusTypeOK, NEW v \in Servers, NEW leaving \in SUBSET Streams, Leave(v, leaving)
    PROVE  /\ subs'[v] = subs[v] \ leaving
           /\ \A u \in Servers \ {v} : subs'[u] = subs[u] /\ commands'[u] = commands[u]
           /\ subs[v] \ leaving # {} => commands'[v] = commands[v]
           /\ commands'[v] = commands[v] \/ commands'[v] = Append(commands[v], Unsubscribe)
BY DEF BusTypeOK, Leave, LastLeft

\* A stream that closes is the only one that changes.
LEMMA CloseEffect ==
    ASSUME BusTypeOK, NEW s \in Streams, NEW as \in {"shut", "closed"},
           stream' = [stream EXCEPT ![s] = Close(s, as)]
    PROVE  /\ stream'[s].on = stream[s].on /\ stream'[s].st = as /\ stream'[s].pending = <<>>
           /\ \A x \in Streams \ {s} : stream'[x] = stream[x]
BY DEF BusTypeOK, Close

LEMMA ReadyEffect ==
    ASSUME BusTypeOK, Members, Relied, NEW v \in Servers, BecomeReady(v)
    PROVE  /\ Range(wire[v]) = {Head(wire[v])} \cup Range(wire'[v]) /\ Head(wire[v]) \in Streams
           /\ wire'[v] = Tail(wire[v]) /\ \A u \in Servers \ {v} : wire'[u] = wire[u]
           /\ \A s \in Streams :
                /\ stream'[s].on = stream[s].on /\ stream'[s].pending = stream[s].pending
                /\ \/ stream'[s] = stream[s]
                   \/ /\ stream[s].st \in {"opening", "early", "ready"} /\ stream'[s].st = "ready"
                      /\ Confirmed(stream[s].on)
<1>1. wire[v] \in Seq(Wire) /\ wire[v] # <<>> /\ wire' = [wire EXCEPT ![v] = Tail(wire[v])]
  BY DEF BecomeReady, BusTypeOK, Wire
<1>2. wire'[v] = Tail(wire[v]) /\ \A u \in Servers \ {v} : wire'[u] = wire[u]
  BY <1>1 DEF BusTypeOK
<1>3. Range(wire[v]) = {Head(wire[v])} \cup Range(Tail(wire[v]))
  BY <1>1, RangeTail
<1>4. Head(wire[v]) \in Streams
  BY DEF BecomeReady
<1>5. ASSUME NEW s \in Streams, stream'[s] # stream[s]
      PROVE  /\ stream[s].st \in {"opening", "early", "ready"} /\ stream'[s].st = "ready"
             /\ stream'[s].on = stream[s].on /\ stream'[s].pending = stream[s].pending
             /\ Confirmed(stream[s].on)
  <2>1. stream[s] \in State /\ subs[v] \in SUBSET Streams
    BY DEF BusTypeOK, State
  <2>2. /\ stream'[s] = [stream[s] EXCEPT !.st = "ready"]
        /\ \/ s = Head(wire[v]) /\ ~Closed(s)
           \/ s \in subs[v] /\ stream[s].st = "early" /\ Confirmed(v)
    BY <1>5 DEF BecomeReady
  <2>3. CASE s = Head(wire[v]) /\ ~Closed(s)
    <3>1. stream[s].on = v /\ stream[s].st \in {"opening", "ready"} /\ s \in Range(wire[v])
      BY <1>3, <2>1, <2>3 DEF Relied, Asked, Closed, State
    <3> QED
      BY <2>1, <2>2, <3>1 DEF Relied, ReliedOn, State
  <2>4. CASE s \in subs[v] /\ stream[s].st = "early" /\ Confirmed(v)
    <3>1. stream[s].on = v
      BY <2>4 DEF Members, Belongs
    <3> QED
      BY <2>1, <2>2, <2>4, <3>1 DEF State
  <2> QED
    BY <2>2, <2>3, <2>4
<1> QED
  BY <1>2, <1>3, <1>4, <1>5

LEMMA FanOutEffect ==
    ASSUME BusTypeOK, NEW v \in Servers, FanOutWake(v)
    PROVE  LET h == Head(wire[v])
           IN  /\ Range(wire[v]) = {h} \cup Range(wire'[v]) /\ h \in 1 .. MaxWakes
               /\ wire'[v] = Tail(wire[v]) /\ \A u \in Servers \ {v} : wire'[u] = wire[u]
               /\ \A s \in Streams :
                    /\ stream'[s].on = stream[s].on
                    /\ Closed(s) \/ s \notin subs[v] => stream'[s] = stream[s]
                    /\ ~Closed(s) /\ s \in subs[v] =>
                         \/ stream'[s].st = "closed" /\ stream'[s].pending = <<>>
                         \/ /\ stream'[s].st = stream[s].st
                            /\ stream'[s].pending = Append(stream[s].pending, h)
                            /\ Len(stream[s].pending) < MaxPending
               /\ \E revoked \in SUBSET subs[v] :
                    /\ Leave(v, revoked)
                    /\ \A s \in Streams : ~Closed(s) /\ s \in subs[v] =>
                         (s \in revoked <=> stream'[s].st = "closed")
                    /\ \A s \in revoked : ~Closed(s)
<1> DEFINE h == Head(wire[v])
           open == {s \in subs[v] : ~Closed(s)}
           revoked == {s \in open : Overfull(s)}
<1>1. wire[v] \in Seq(Wire) /\ wire[v] # <<>> /\ wire' = [wire EXCEPT ![v] = Tail(wire[v])]
  BY DEF FanOutWake, BusTypeOK, Wire
<1>2. wire'[v] = Tail(wire[v]) /\ \A u \in Servers \ {v} : wire'[u] = wire[u]
  BY <1>1 DEF BusTypeOK
<1>3. Range(wire[v]) = {h} \cup Range(Tail(wire[v])) /\ h \in 1 .. MaxWakes
  BY <1>1, RangeTail DEF FanOutWake, Wire
<1>4. Leave(v, revoked)
  BY DEF FanOutWake
<1>5. ASSUME NEW s \in Streams
      PROVE  /\ stream[s] \in State /\ Close(s, "closed") = [stream[s] EXCEPT !.st = "closed", !.pending = <<>>]
             /\ stream'[s] = IF s \in revoked THEN Close(s, "closed")
                             ELSE IF s \in open
                                  THEN [stream[s] EXCEPT !.pending = Append(stream[s].pending, h)]
                                  ELSE stream[s]
  BY DEF FanOutWake, BusTypeOK, State, Close
<1>6. /\ open \in SUBSET subs[v] /\ \A s \in Streams : s \in open <=> s \in subs[v] /\ ~Closed(s)
      /\ revoked \in SUBSET open /\ \A s \in open : s \in revoked <=> Overfull(s)
      /\ subs[v] \in SUBSET Streams
  BY DEF BusTypeOK
<1> HIDE DEF h, open, revoked
<1>7. ASSUME NEW s \in Streams
      PROVE  /\ stream'[s].on = stream[s].on
             /\ s \in revoked => stream'[s].st = "closed" /\ stream'[s].pending = <<>>
             /\ s \in open \ revoked =>
                  /\ stream'[s].st = stream[s].st /\ stream'[s].st # "closed"
                  /\ stream'[s].pending = Append(stream[s].pending, h)
                  /\ Len(stream[s].pending) < MaxPending
             /\ s \notin open => stream'[s] = stream[s]
  <2>0. stream[s].pending \in Seq(1 .. MaxWakes) /\ stream[s] \in State
    BY <1>5 DEF State
  <2>1. s \in open \ revoked => Len(stream[s].pending) < MaxPending /\ stream[s].st # "closed"
    <3>1. Len(stream[s].pending) \in Nat /\ MaxPending \in Nat
      BY <2>0, BusAssumption
    <3> QED
      BY <1>6, <3>1 DEF Overfull, Closed
  <2>2. CASE s \in revoked
    <3>1. stream'[s] = Close(s, "closed") /\ s \in open
      BY <1>5, <1>6, <2>2
    <3> QED
      BY <2>2, <3>1, ClosedState
  <2>3. CASE s \in open \ revoked
    <3>1. Append(stream[s].pending, h) \in Seq(1 .. MaxWakes)
      BY <1>3, <2>0
    <3>2. stream'[s] = [stream[s] EXCEPT !.pending = Append(stream[s].pending, h)]
      BY <1>5, <2>3
    <3> QED
      BY <2>0, <2>1, <2>3, <3>2 DEF State
  <2>4. CASE s \notin open
    BY <1>5, <1>6, <2>4
  <2> QED
    BY <1>6, <2>2, <2>3, <2>4
<1>8. \E r \in SUBSET subs[v] :
        /\ Leave(v, r)
        /\ \A s \in Streams : ~Closed(s) /\ s \in subs[v] => (s \in r <=> stream'[s].st = "closed")
        /\ \A s \in r : ~Closed(s)
  <2>1. revoked \in SUBSET subs[v]
    BY <1>6
  <2>2. \A s \in Streams : ~Closed(s) /\ s \in subs[v] => (s \in revoked <=> stream'[s].st = "closed")
    BY <1>6, <1>7
  <2>3. \A s \in revoked : ~Closed(s)
    BY <1>6
  <2> QED
    BY <1>4, <2>1, <2>2, <2>3
<1>9. ASSUME NEW s \in Streams
      PROVE  /\ stream'[s].on = stream[s].on
             /\ Closed(s) \/ s \notin subs[v] => stream'[s] = stream[s]
             /\ ~Closed(s) /\ s \in subs[v] =>
                  \/ stream'[s].st = "closed" /\ stream'[s].pending = <<>>
                  \/ /\ stream'[s].st = stream[s].st
                     /\ stream'[s].pending = Append(stream[s].pending, h)
                     /\ Len(stream[s].pending) < MaxPending
  BY <1>6, <1>7
<1> QED
  BY <1>2, <1>3, <1>8, <1>9 DEF h

\* The state of a stream.
LEMMA StreamState ==
    ASSUME BusTypeOK, NEW s \in Streams
    PROVE  /\ stream[s].st \in {"none", "opening", "early", "ready", "shut", "closed"}
           /\ stream[s].on \in Servers /\ stream[s].pending \in Seq(1 .. MaxWakes)
BY DEF BusTypeOK

\* Where the first subscriber of a server asks, and the others do not.
LEMMA AttachEffect ==
    ASSUME BusTypeOK, NEW s \in Streams, Attach(s)
    PROVE  LET v == stream[s].on
           IN  /\ stream'[s].on = v /\ stream'[s].pending = stream[s].pending
               /\ stream'[s].st \in {"opening", "early", "ready"}
               /\ \A x \in Streams \ {s} : stream'[x] = stream[x]
               /\ subs'[v] = subs[v] \cup {s}
               /\ \A u \in Servers \ {v} : subs'[u] = subs[u] /\ commands'[u] = commands[u]
               /\ \/ /\ subs[v] = {} /\ stream'[s].st = "opening"
                     /\ commands'[v] = Append(commands[v], s)
                  \/ /\ subs[v] # {} /\ commands'[v] = commands[v]
                     /\ stream'[s].st = "early" \/ (stream'[s].st = "ready" /\ Confirmed(v))
<1>1. stream[s].on \in Servers /\ stream[s] \in State
  BY DEF BusTypeOK, State
<1>2. PICK st \in {"opening", "early", "ready"} :
        /\ stream' = [stream EXCEPT ![s].st = st]
        /\ \/ /\ subs[stream[s].on] = {} /\ st = "opening"
              /\ commands' = [commands EXCEPT ![stream[s].on] = Append(@, s)]
           \/ /\ subs[stream[s].on] # {} /\ UNCHANGED commands
              /\ st = "early" \/ (st = "ready" /\ Confirmed(stream[s].on))
  BY DEF Attach
<1>3. /\ stream'[s].on = stream[s].on /\ stream'[s].pending = stream[s].pending
      /\ stream'[s].st = st /\ \A x \in Streams \ {s} : stream'[x] = stream[x]
  BY <1>1, <1>2 DEF BusTypeOK
<1>4. /\ subs'[stream[s].on] = subs[stream[s].on] \cup {s}
      /\ \A u \in Servers \ {stream[s].on} : subs'[u] = subs[u]
  BY <1>1 DEF Attach, BusTypeOK
<1>5. /\ \A u \in Servers \ {stream[s].on} : commands'[u] = commands[u]
      /\ \/ /\ subs[stream[s].on] = {} /\ st = "opening"
            /\ commands'[stream[s].on] = Append(commands[stream[s].on], s)
         \/ /\ subs[stream[s].on] # {} /\ commands'[stream[s].on] = commands[stream[s].on]
            /\ st = "early" \/ (st = "ready" /\ Confirmed(stream[s].on))
  BY <1>1, <1>2 DEF BusTypeOK
<1> QED
  BY <1>2, <1>3, <1>4, <1>5

\* One delivery from the queue of a stream to its response.
LEMMA DeliverEffect ==
    ASSUME BusTypeOK, NEW s \in Streams, DeliverTo(s)
    PROVE  LET h == Head(stream[s].pending)
           IN  /\ stream[s].pending # <<>> /\ h \in 1 .. MaxWakes
               /\ Range(stream[s].pending) = {h} \cup Range(stream'[s].pending)
               /\ stream'[s].on = stream[s].on /\ stream'[s].st = stream[s].st
               /\ stream'[s].pending = Tail(stream[s].pending)
               /\ got'[s] = Append(got[s], h) /\ Range(got'[s]) = Range(got[s]) \cup {h}
               /\ \A x \in Streams \ {s} : stream'[x] = stream[x] /\ got'[x] = got[x]
<1>1. stream[s] \in State /\ stream[s].pending \in Seq(1 .. MaxWakes) /\ got[s] \in Seq(1 .. MaxWakes)
  BY DEF BusTypeOK, State
<1>2. stream[s].pending # <<>>
  BY DEF DeliverTo
<1>3. /\ Head(stream[s].pending) \in 1 .. MaxWakes
      /\ Range(stream[s].pending) = {Head(stream[s].pending)} \cup Range(Tail(stream[s].pending))
  BY <1>1, <1>2, RangeTail
<1>4. /\ stream'[s].on = stream[s].on /\ stream'[s].st = stream[s].st
      /\ stream'[s].pending = Tail(stream[s].pending)
      /\ \A x \in Streams \ {s} : stream'[x] = stream[x]
  BY <1>1 DEF DeliverTo, BusTypeOK
<1>5. /\ got'[s] = Append(got[s], Head(stream[s].pending))
      /\ \A x \in Streams \ {s} : got'[x] = got[x]
  BY DEF DeliverTo, BusTypeOK
<1>6. Range(Append(got[s], Head(stream[s].pending))) = Range(got[s]) \cup {Head(stream[s].pending)}
  <2> DEFINE W == 1 .. MaxWakes
  <2>1. got[s] \in Seq(W) /\ Head(stream[s].pending) \in W
    BY <1>1, <1>3
  <2> HIDE DEF W
  <2> QED
    BY <2>1, RangeAppend
<1>7. Range(got'[s]) = Range(got[s]) \cup {Head(stream[s].pending)}
  BY <1>5, <1>6
<1>8. Range(stream[s].pending) = {Head(stream[s].pending)} \cup Range(stream'[s].pending)
  BY <1>3, <1>4
<1> QED
  BY <1>2, <1>3, <1>4, <1>5, <1>7, <1>8

LEMMA MembersStep ==
    ASSUME BusTypeOK, Members, Relied, [BusNext]_busVars
    PROVE  Members'
<1> SUFFICES ASSUME NEW x \in Streams PROVE Belongs(x)'
  BY DEF Members
<1>0. /\ stream[x].on \in Servers /\ Belongs(x)
      /\ stream[x].st \in {"none", "opening", "early", "ready", "shut", "closed"}
  BY StreamState DEF Members
<1>1. ASSUME UNCHANGED subs, stream'[x] = stream[x] PROVE Belongs(x)'
  BY <1>0, <1>1 DEF Belongs, Closed
<1>2. ASSUME NEW s \in Streams, Attach(s) PROVE Belongs(x)'
  <2>1. stream[s].on \in Servers /\ stream[s].st = "none" /\ Belongs(s)
    BY <1>2, StreamState DEF Attach, Members
  <2>2. /\ stream'[s].on = stream[s].on /\ stream'[s].pending = stream[s].pending
        /\ stream'[s].st \in {"opening", "early", "ready"}
        /\ \A y \in Streams \ {s} : stream'[y] = stream[y]
        /\ subs'[stream[s].on] = subs[stream[s].on] \cup {s}
        /\ \A u \in Servers \ {stream[s].on} : subs'[u] = subs[u]
    BY <1>2, AttachEffect
  <2> QED
    BY <1>0, <2>1, <2>2 DEF Belongs, Closed
<1>3. ASSUME NEW s \in Streams, Disconnect(s) \/ Revoke(s) PROVE Belongs(x)'
  <2>1. /\ stream'[s].on = stream[s].on /\ stream'[s].st = "closed" /\ stream'[s].pending = <<>>
        /\ \A y \in Streams \ {s} : stream'[y] = stream[y]
    BY <1>3, CloseEffect DEF Disconnect, Revoke
  <2>2. /\ stream[s].on \in Servers /\ Belongs(s)
        /\ subs'[stream[s].on] = subs[stream[s].on] \ {s}
        /\ \A u \in Servers \ {stream[s].on} : subs'[u] = subs[u]
    BY <1>3, StreamState, LeaveEffect DEF Disconnect, Revoke, Members
  <2> QED
    BY <1>0, <2>1, <2>2 DEF Belongs, Closed
<1>4. ASSUME NEW s \in Streams, DeliverTo(s) PROVE Belongs(x)'
  <2>1. /\ stream'[s].on = stream[s].on /\ stream'[s].st = stream[s].st
        /\ stream[s].pending # <<>> /\ Belongs(s)
        /\ \A y \in Streams \ {s} : stream'[y] = stream[y]
    BY <1>4, DeliverEffect DEF Members
  <2>2. UNCHANGED subs
    BY <1>4 DEF DeliverTo
  <2> QED
    BY <1>0, <2>1, <2>2 DEF Belongs, Closed
<1>5. ASSUME NEW s \in Streams, Shut(s) PROVE Belongs(x)'
  <2>1. /\ stream'[s].on = stream[s].on /\ stream'[s].st = "shut" /\ stream'[s].pending = <<>>
        /\ \A y \in Streams \ {s} : stream'[y] = stream[y]
    BY <1>5, CloseEffect DEF Shut
  <2>2. UNCHANGED subs /\ Belongs(s) /\ stream[s].pending # <<>>
    BY <1>5 DEF Shut, Members
  <2>3. stream[s].st \in {"opening", "early", "ready"} /\ stream[s].on \in Servers
    BY <2>2, StreamState DEF Belongs, Closed
  <2> QED
    BY <1>0, <2>1, <2>2, <2>3 DEF Belongs, Closed
<1>6. ASSUME NEW v \in Servers, BecomeReady(v) PROVE Belongs(x)'
  <2>1. /\ stream'[x].on = stream[x].on /\ stream'[x].pending = stream[x].pending
        /\ \/ stream'[x] = stream[x]
           \/ stream[x].st \in {"opening", "early", "ready"} /\ stream'[x].st = "ready"
    BY <1>6, ReadyEffect
  <2>2. UNCHANGED subs
    BY <1>6 DEF BecomeReady
  <2> QED
    BY <1>0, <2>1, <2>2 DEF Belongs, Closed
<1>7. ASSUME NEW v \in Servers, FanOutWake(v) PROVE Belongs(x)'
  <2>1. PICK revoked \in SUBSET subs[v] :
          /\ Leave(v, revoked)
          /\ \A s \in Streams : ~Closed(s) /\ s \in subs[v] =>
               (s \in revoked <=> stream'[s].st = "closed")
          /\ \A s \in revoked : ~Closed(s)
    BY <1>7, FanOutEffect
  <2>2. subs'[v] = subs[v] \ revoked /\ \A u \in Servers \ {v} : subs'[u] = subs[u]
    BY <2>1, LeaveEffect DEF BusTypeOK
  <2>3. /\ stream'[x].on = stream[x].on
        /\ Closed(x) \/ x \notin subs[v] => stream'[x] = stream[x]
        /\ ~Closed(x) /\ x \in subs[v] =>
             \/ stream'[x].st = "closed" /\ stream'[x].pending = <<>>
             \/ stream'[x].st = stream[x].st
    BY <1>7, FanOutEffect
  <2>4. CASE Closed(x) \/ x \notin subs[v]
    BY <1>0, <2>1, <2>2, <2>3, <2>4 DEF Belongs, Closed
  <2>5. CASE ~Closed(x) /\ x \in subs[v]
    BY <1>0, <2>1, <2>2, <2>3, <2>5 DEF Belongs, Closed
  <2> QED
    BY <2>4, <2>5
<1>8. ASSUME PublishWake \/ UNCHANGED busVars \/ \E v \in Servers : Execute(v) \/ CommandFails(v)
      PROVE  UNCHANGED <<stream, subs>>
  BY <1>8 DEF PublishWake, busVars, Execute, CommandFails
<1> QED
  BY <1>1, <1>2, <1>3, <1>4, <1>5, <1>6, <1>7, <1>8 DEF BusNext

\* A stream that relies on a subscription which stays, and asks for nothing.
LEMMA ReliedFrame ==
    ASSUME NEW x \in Streams, ReliedOn(x), stream'[x].on = stream[x].on,
           subscribed'[stream[x].on] = subscribed[stream[x].on],
           x \in Range(wire'[stream[x].on]) => x \in Range(wire[stream[x].on]),
           \/ stream'[x].st = stream[x].st
           \/ stream'[x].st \in {"early", "shut", "closed"}
           \/ stream'[x].st = "ready" /\ Confirmed(stream[x].on),
           stream'[x].st \in {"opening", "ready"} =>
             commands'[stream[x].on] = commands[stream[x].on]
    PROVE  ReliedOn(x)'
BY DEF ReliedOn, Confirmed

LEMMA AskedFrame ==
    ASSUME NEW x \in Streams, Asked(x), stream'[x].on = stream[x].on,
           stream'[x].st = stream[x].st \/ stream'[x].st \notin {"none", "early"},
           \A v \in Servers : x \in Range(wire'[v]) \/ x \in Range(commands'[v]) =>
                              x \in Range(wire[v]) \/ x \in Range(commands[v])
    PROVE  Asked(x)'
BY DEF Asked

\* Commands that a server has sent to Redis: one goes, or one joins; the last stream
\* that leaves asks to unsubscribe.
LEMMA ReliedStep ==
    ASSUME BusTypeOK, Members, Relied, [BusNext]_busVars
    PROVE  Relied'
<1> SUFFICES ASSUME NEW x \in Streams PROVE ReliedOn(x)' /\ Asked(x)'
  BY DEF Relied
<1>0. /\ stream[x].on \in Servers /\ Belongs(x) /\ ReliedOn(x) /\ Asked(x)
      /\ stream[x].st \in {"none", "opening", "early", "ready", "shut", "closed"}
  BY StreamState DEF Members, Relied
<1>00. \A v \in Servers : /\ commands[v] \in Seq(Command) /\ wire[v] \in Seq(Wire)
                          /\ subs[v] \in SUBSET Streams
  BY DEF BusTypeOK, Command, Wire
<1>1. ASSUME UNCHANGED <<commands, subscribed>>, stream'[x].on = stream[x].on,
             \/ stream'[x].st = stream[x].st
             \/ stream'[x].st \in {"shut", "closed"}
             \/ stream'[x].st = "ready" /\ Confirmed(stream[x].on),
             \A v \in Servers : x \in Range(wire'[v]) => x \in Range(wire[v])
      PROVE  ReliedOn(x)' /\ Asked(x)'
  <2>1. ReliedOn(x)'
    BY <1>0, <1>1, ReliedFrame
  <2>2. Asked(x)'
    BY <1>0, <1>1, AskedFrame
  <2> QED
    BY <2>1, <2>2
\* A server on which a stream stays does not unsubscribe.
<1>2. ASSUME NEW v \in Servers, NEW leaving \in SUBSET Streams, Leave(v, leaving),
             stream'[x].on = stream[x].on, UNCHANGED subscribed,
             stream'[x].st = stream[x].st \/ stream'[x].st = "closed",
             x \in leaving => stream'[x].st = "closed",
             \A u \in Servers : x \in Range(wire'[u]) => x \in Range(wire[u])
      PROVE  ReliedOn(x)' /\ Asked(x)'
  <2>1. /\ \A u \in Servers \ {v} : commands'[u] = commands[u]
        /\ subs[v] \ leaving # {} => commands'[v] = commands[v]
        /\ commands'[v] = commands[v] \/ commands'[v] = Append(commands[v], Unsubscribe)
    BY <1>2, LeaveEffect
  <2>2. stream'[x].st \in {"opening", "ready"} => commands'[stream[x].on] = commands[stream[x].on]
    BY <1>0, <1>2, <2>1 DEF Belongs
  <2>3. \A u \in Servers : x \in Range(commands'[u]) => x \in Range(commands[u])
    <3>1. Range(Append(commands[v], Unsubscribe)) = Range(commands[v]) \cup {Unsubscribe}
      BY <1>00, RangeAppend DEF Command
    <3> QED
      BY <2>1, <3>1, BusAssumption
  <2>4. ReliedOn(x)'
    BY <1>0, <1>2, <2>2, ReliedFrame
  <2>5. Asked(x)'
    BY <1>0, <1>2, <2>3, AskedFrame
  <2> QED
    BY <2>4, <2>5
<1>3. ASSUME NEW s \in Streams, Attach(s) PROVE ReliedOn(x)' /\ Asked(x)'
  <2>1. PICK v \in Servers : v = stream[s].on
    BY <1>3, StreamState
  <2>2. stream[s].st = "none" /\ \A u \in Servers : s \notin Range(commands[u]) /\ s \notin Range(wire[u])
    BY <1>3 DEF Attach, Relied, Asked
  <2>3. /\ stream'[s].on = v /\ stream'[s].st \in {"opening", "early", "ready"}
        /\ \A y \in Streams \ {s} : stream'[y] = stream[y]
        /\ \A u \in Servers \ {v} : commands'[u] = commands[u]
        /\ \/ /\ subs[v] = {} /\ stream'[s].st = "opening" /\ commands'[v] = Append(commands[v], s)
           \/ /\ subs[v] # {} /\ commands'[v] = commands[v]
              /\ stream'[s].st = "early" \/ (stream'[s].st = "ready" /\ Confirmed(v))
    BY <1>3, <2>1, AttachEffect
  <2>4. UNCHANGED <<subscribed, wire>>
    BY <1>3 DEF Attach
  <2>5. CASE commands'[v] = commands[v] /\ subs[v] # {} /\ stream'[s].st # "opening"
    <3>1. \A u \in Servers : commands'[u] = commands[u]
      BY <2>3, <2>5
    <3>2. stream'[x].on = stream[x].on
      BY <2>1, <2>3
    <3>3. \/ stream'[x].st = stream[x].st
          \/ x = s /\ stream'[x].st = "early"
          \/ x = s /\ stream'[x].st = "ready" /\ Confirmed(stream[x].on)
      BY <2>1, <2>3, <2>5
    <3>4. ReliedOn(x)'
      BY <1>0, <2>4, <3>1, <3>2, <3>3, ReliedFrame
    <3>5. Asked(x)'
      BY <1>0, <2>2, <2>4, <3>1, <3>2, <3>3 DEF Asked
    <3> QED
      BY <3>4, <3>5
  <2>6. CASE subs[v] = {} /\ stream'[s].st = "opening" /\ commands'[v] = Append(commands[v], s)
    <3>1. Range(commands'[v]) = Range(commands[v]) \cup {s}
      BY <1>00, <2>6, RangeAppend DEF Command
    <3>2. CASE x = s
      <4>1. Asked(x)'
        BY <2>1, <2>2, <2>3, <2>4, <2>6, <3>1, <3>2 DEF Asked
      <4>2. /\ Len(commands'[v]) - 1 = Len(commands[v])
            /\ \A k \in 1 .. Len(commands[v]) : commands'[v][k] = commands[v][k]
            /\ \A k \in 1 .. Len(commands[v]) : commands[v][k] \in Range(commands[v])
        BY <1>00, <2>6 DEF Range
      <4>5. \A k \in 1 .. Len(commands'[v]) - 1 : commands'[v][k] # s
        BY <2>2, <4>2
      <4>6. s \notin Range(wire'[v]) /\ stream'[s].on = v /\ stream'[s].st # "ready"
        BY <2>2, <2>3, <2>4, <2>6
      <4>3. ReliedOn(x)'
        BY <3>2, <4>5, <4>6 DEF ReliedOn
      <4> QED
        BY <4>1, <4>3
    <3>3. CASE x # s
      <4>1. stream'[x] = stream[x]
        BY <2>3, <3>3
      <4>2. Asked(x)'
        BY <1>0, <2>3, <2>4, <3>1, <3>3, <4>1, AskedFrame
      <4>3. stream[x].st \in {"opening", "ready"} => stream[x].on # v
        BY <1>0, <2>6 DEF Belongs
      <4>4. ReliedOn(x)'
        BY <1>0, <2>3, <2>4, <4>1, <4>3, ReliedFrame
      <4> QED
        BY <4>2, <4>4
    <3> QED
      BY <3>2, <3>3
  <2> QED
    BY <2>3, <2>5, <2>6
<1>4. ASSUME NEW s \in Streams, Disconnect(s) \/ Revoke(s) PROVE ReliedOn(x)' /\ Asked(x)'
  <2>1. /\ stream'[s].on = stream[s].on /\ stream'[s].st = "closed"
        /\ \A y \in Streams \ {s} : stream'[y] = stream[y]
    BY <1>4, CloseEffect DEF Disconnect, Revoke
  <2>2. stream[s].on \in Servers /\ Leave(stream[s].on, {s}) /\ UNCHANGED <<subscribed, wire>>
    BY <1>4, StreamState DEF Disconnect, Revoke
  <2> QED
    BY <1>2, <2>1, <2>2
<1>5. ASSUME NEW s \in Streams, DeliverTo(s) PROVE ReliedOn(x)' /\ Asked(x)'
  <2>1. /\ stream'[s].on = stream[s].on /\ stream'[s].st = stream[s].st
        /\ \A y \in Streams \ {s} : stream'[y] = stream[y]
    BY <1>5, DeliverEffect
  <2>2. UNCHANGED <<commands, subscribed, wire>>
    BY <1>5 DEF DeliverTo
  <2> QED
    BY <1>1, <2>1, <2>2
<1>6. ASSUME NEW s \in Streams, Shut(s) PROVE ReliedOn(x)' /\ Asked(x)'
  <2>1. /\ stream'[s].on = stream[s].on /\ stream'[s].st = "shut"
        /\ \A y \in Streams \ {s} : stream'[y] = stream[y]
    BY <1>6, CloseEffect DEF Shut
  <2>2. UNCHANGED <<commands, subscribed, wire>>
    BY <1>6 DEF Shut
  <2> QED
    BY <1>1, <2>1, <2>2
<1>7. ASSUME NEW v \in Servers, BecomeReady(v) PROVE ReliedOn(x)' /\ Asked(x)'
  <2>1. /\ Range(wire[v]) = {Head(wire[v])} \cup Range(wire'[v])
        /\ \A u \in Servers \ {v} : wire'[u] = wire[u]
        /\ stream'[x].on = stream[x].on
        /\ \/ stream'[x] = stream[x]
           \/ stream'[x].st = "ready" /\ Confirmed(stream[x].on)
    BY <1>7, ReadyEffect
  <2>2. UNCHANGED <<commands, subscribed>>
    BY <1>7 DEF BecomeReady
  <2> QED
    BY <1>1, <2>1, <2>2
<1>8. ASSUME NEW v \in Servers, FanOutWake(v) PROVE ReliedOn(x)' /\ Asked(x)'
  <2>1. PICK revoked \in SUBSET subs[v] :
          /\ Leave(v, revoked)
          /\ \A s \in Streams : ~Closed(s) /\ s \in subs[v] =>
               (s \in revoked <=> stream'[s].st = "closed")
          /\ \A s \in revoked : ~Closed(s)
    BY <1>8, FanOutEffect
  <2>2. /\ Range(wire[v]) = {Head(wire[v])} \cup Range(wire'[v])
        /\ \A u \in Servers \ {v} : wire'[u] = wire[u]
        /\ stream'[x].on = stream[x].on
        /\ Closed(x) \/ x \notin subs[v] => stream'[x] = stream[x]
        /\ ~Closed(x) /\ x \in subs[v] => stream'[x].st = "closed" \/ stream'[x].st = stream[x].st
    BY <1>8, FanOutEffect
  <2>3. UNCHANGED subscribed /\ revoked \in SUBSET Streams
    BY <1>00, <1>8, <2>1 DEF FanOutWake
  <2>4. x \in revoked => stream'[x].st = "closed"
    BY <2>1
  <2>5. stream'[x].st = stream[x].st \/ stream'[x].st = "closed"
    BY <2>2
  <2>6. \A u \in Servers : x \in Range(wire'[u]) => x \in Range(wire[u])
    BY <2>2
  <2> QED
    BY <1>2, <2>1, <2>2, <2>3, <2>4, <2>5, <2>6
<1>9. ASSUME PublishWake PROVE ReliedOn(x)' /\ Asked(x)'
  <2>1. Len(owed) + 1 \in 1 .. MaxWakes
    BY <1>9, BusAssumption DEF PublishWake, BusTypeOK
  <2>2. \A v \in Servers : Range(wire'[v]) \in SUBSET (Range(wire[v]) \cup {Len(owed) + 1})
    <3>1. \A v \in Servers : Range(Append(wire[v], Len(owed) + 1)) = Range(wire[v]) \cup {Len(owed) + 1}
      BY <1>00, <2>1, RangeAppend DEF Wire
    <3> QED
      BY <1>9, <3>1 DEF PublishWake
  <2>3. x # Len(owed) + 1
    BY <2>1, BusAssumption
  <2>4. UNCHANGED <<commands, subscribed, stream>>
    BY <1>9 DEF PublishWake
  <2> QED
    BY <1>1, <2>2, <2>3, <2>4
\* The command at the head of the queue goes, and with it the reply.
<1>10. ASSUME NEW v \in Servers, Execute(v) \/ CommandFails(v) PROVE ReliedOn(x)' /\ Asked(x)'
  <2> DEFINE c == Head(commands[v])
  <2>1. /\ commands[v] # <<>> /\ commands' = [commands EXCEPT ![v] = Tail(@)]
        /\ UNCHANGED stream
    BY <1>10 DEF Execute, CommandFails
  <2>2. /\ commands'[v] = Tail(commands[v]) /\ \A u \in Servers \ {v} : commands'[u] = commands[u]
    BY <2>1 DEF BusTypeOK
  <2>3. Range(commands[v]) = {c} \cup Range(Tail(commands[v])) /\ c \in Command
    BY <1>00, <2>1, RangeTail
  <2>4. /\ Len(commands[v]) \in Nat \ {0} /\ Len(Tail(commands[v])) = Len(commands[v]) - 1
        /\ commands[v][1] = c
        /\ \A k \in 1 .. Len(commands[v]) - 1 : Tail(commands[v])[k] = commands[v][k + 1]
        /\ \A k \in 1 .. Len(commands[v]) : commands[v][k] \in Range(commands[v])
    BY <1>00, <2>1, EmptySeq, HeadTailProperties DEF Range
  <2>5. /\ \A u \in Servers \ {v} : wire'[u] = wire[u] /\ subscribed'[u] = subscribed[u]
        /\ \/ wire'[v] = wire[v]
           \/ c \in Streams /\ wire'[v] = Append(wire[v], c) /\ subscribed'[v] = TRUE
    <3>1. CASE Execute(v)
      <4>1. /\ subscribed' = [subscribed EXCEPT ![v] = c # Unsubscribe]
            /\ wire' = IF c = Unsubscribe THEN wire ELSE [wire EXCEPT ![v] = Append(@, c)]
        BY <3>1 DEF Execute
      <4>2. c \in Streams \cup {Unsubscribe} /\ DOMAIN wire = Servers /\ DOMAIN subscribed = Servers
        BY <2>3 DEF Command, BusTypeOK
      <4> QED
        BY <4>1, <4>2
    <3>2. CASE CommandFails(v)
      BY <3>2 DEF CommandFails
    <3> QED
      BY <1>10, <3>1, <3>2
  <2>6. c \in Streams => Range(Append(wire[v], c)) = Range(wire[v]) \cup {c}
    BY <1>00, RangeAppend DEF Wire
  <2> HIDE DEF c
  <2>7. Asked(x)'
    <3>1. \A u \in Servers : x \in Range(wire'[u]) \/ x \in Range(commands'[u]) =>
                             x \in Range(wire[u]) \/ x \in Range(commands[u])
      BY <2>2, <2>3, <2>5, <2>6
    <3> QED
      BY <1>0, <2>1, <3>1, AskedFrame
  <2>8. CASE stream[x].on # v
    BY <1>0, <2>1, <2>2, <2>5, <2>7, <2>8, ReliedFrame
  <2>9. CASE stream[x].on = v
    <3>1. stream[x].st # "ready"
      BY <1>0, <2>1, <2>9 DEF ReliedOn, Confirmed
    <3>2. ASSUME stream[x].st = "opening"
          PROVE  /\ x \in Range(wire'[v]) => Confirmed(v)'
                 /\ \A k \in 1 .. Len(commands'[v]) - 1 : commands'[v][k] # x
      <4>1. x \notin Range(wire[v]) /\ \A k \in 1 .. Len(commands[v]) - 1 : commands[v][k] # x
        BY <1>0, <2>1, <2>9, <3>2 DEF ReliedOn, Confirmed
      <4>2. \A k \in 1 .. Len(commands'[v]) - 1 : commands'[v][k] # x
        BY <2>2, <2>4, <4>1
      <4>3. ASSUME x \in Range(wire'[v]) PROVE Confirmed(v)'
        <5>1. x = c /\ subscribed'[v] = TRUE
          BY <2>5, <2>6, <4>1, <4>3
        <5>2. Len(commands[v]) = 1
          <6> SUFFICES ASSUME Len(commands[v]) # 1 PROVE FALSE
            OBVIOUS
          <6>1. Len(commands[v]) \in Nat \ {0} /\ commands[v][1] = x
            BY <2>4, <5>1
          <6>2. 1 \in 1 .. Len(commands[v]) - 1
            <7>1. ASSUME NEW k \in Nat \ {0}, k # 1 PROVE 1 \in 1 .. k - 1
              BY <7>1
            <7> QED
              BY <6>1, <7>1
          <6> QED
            BY <4>1, <6>1, <6>2
        <5>3. Tail(commands[v]) = <<>>
          <6>1. Tail(commands[v]) \in Seq(Command) /\ Len(Tail(commands[v])) = 0
            <7>1. Tail(commands[v]) \in Seq(Command)
              BY <1>00, <2>1, RangeTail
            <7>2. Len(Tail(commands[v])) = 0
              BY <2>4, <5>2
            <7> QED
              BY <7>1, <7>2
          <6> QED
            BY <6>1, EmptySeq
        <5> QED
          BY <2>2, <5>1, <5>3 DEF Confirmed
      <4> QED
        BY <4>2, <4>3
    <3>3. ReliedOn(x)'
      BY <2>1, <2>9, <3>1, <3>2 DEF ReliedOn
    <3> QED
      BY <2>7, <3>3
  <2> QED
    BY <2>8, <2>9
<1>11. ASSUME UNCHANGED busVars PROVE ReliedOn(x)' /\ Asked(x)'
  BY <1>1, <1>11 DEF busVars
<1> QED
  BY <1>3, <1>4, <1>5, <1>6, <1>7, <1>8, <1>9, <1>10, <1>11 DEF BusNext

LEMMA ReachesFrame ==
    ASSUME NEW x \in Streams, NEW n, Reaches(n, x), stream'[x].on = stream[x].on,
           stream'[x].st # "none",
           \/ stream'[x].st \in {"shut", "closed"}
           \/ /\ Closed(x) => Closed(x)'
              /\ OnTheWay(n, x) => OnTheWay(n, x)'
    PROVE  Reaches(n, x)'
BY DEF Reaches, Closed

\* A wake that is published goes to the server of every stream that is ready, and from
\* there it moves on to the stream, if that is not closed.
LEMMA NoGapStep ==
    ASSUME BusTypeOK, Members, Relied, NoGap, [BusNext]_busVars
    PROVE  NoGap'
<1>0. \A v \in Servers : wire[v] \in Seq(Wire) /\ commands[v] \in Seq(Command)
  BY DEF BusTypeOK, Wire, Command
<1>00. /\ owed \in Seq(SUBSET Streams) /\ DOMAIN owed = 1 .. Len(owed)
       /\ Len(owed) \in Nat /\ Len(owed) <= MaxWakes /\ MaxWakes \in Nat
  BY BusAssumption DEF BusTypeOK
<1>1. ASSUME UNCHANGED owed,
             \A n \in 1 .. MaxWakes : \A x \in Streams : Reaches(n, x) => Reaches(n, x)'
      PROVE  NoGap'
  BY <1>00, <1>1 DEF NoGap
<1>2. ASSUME UNCHANGED owed, NEW s \in Streams, stream'[s].on = stream[s].on,
             stream'[s].st \in {"shut", "closed"},
             \A y \in Streams \ {s} : stream'[y] = stream[y],
             UNCHANGED <<wire, got>>
      PROVE  NoGap'
  <2>1. ASSUME NEW n \in 1 .. MaxWakes, NEW x \in Streams, Reaches(n, x) PROVE Reaches(n, x)'
    BY <1>2, <2>1 DEF Reaches, Closed, OnTheWay
  <2> QED
    BY <1>1, <1>2, <2>1
<1>3. ASSUME PublishWake PROVE NoGap'
  <2>1. /\ UNCHANGED <<stream, got>>
        /\ owed' = Append(owed, {s \in Streams : stream[s].st = "ready"})
        /\ Len(owed) + 1 \in Wire
        /\ \A v \in Servers : wire'[v] = IF subscribed[v] THEN Append(wire[v], Len(owed) + 1) ELSE wire[v]
    BY <1>3, BusAssumption DEF PublishWake, BusTypeOK, Wire
  <2>2. \A v \in Servers : Range(wire'[v]) = IF subscribed[v] THEN Range(wire[v]) \cup {Len(owed) + 1}
                                             ELSE Range(wire[v])
    <3>1. \A v \in Servers : Range(Append(wire[v], Len(owed) + 1)) = Range(wire[v]) \cup {Len(owed) + 1}
      BY <1>0, <2>1, RangeAppend
    <3> QED
      BY <2>1, <3>1
  <2>0. PICK new \in Wire : new = Len(owed) + 1
    BY <2>1
  <2>3. /\ DOMAIN owed' = 1 .. Len(owed) + 1 /\ \A n \in 1 .. Len(owed) : owed'[n] = owed[n]
        /\ owed'[new] = {s \in Streams : stream[s].st = "ready"}
    BY <1>00, <2>0, <2>1
  <2>4. ASSUME NEW n \in 1 .. Len(owed), NEW x \in owed[n] PROVE Reaches(n, x)'
    <3>1. x \in Streams /\ Reaches(n, x) /\ stream[x].on \in Servers
      BY <1>00, <2>4, StreamState DEF NoGap
    <3> QED
      BY <2>1, <2>2, <3>1 DEF Reaches, Closed, OnTheWay
  <2>5. ASSUME NEW x \in Streams, stream[x].st = "ready" PROVE Reaches(new, x)'
    <3>1. stream[x].on \in Servers /\ subscribed[stream[x].on]
      BY <2>5, StreamState DEF Relied, ReliedOn, Confirmed
    <3>2. new \in Range(wire'[stream[x].on])
      BY <2>0, <2>2, <3>1
    <3> QED
      BY <2>1, <2>5, <3>2 DEF Reaches, OnTheWay
  <2>6. ASSUME NEW n \in 1 .. Len(owed) + 1, NEW x \in owed'[n] PROVE Reaches(n, x)'
    <3>1. CASE n \in 1 .. Len(owed)
      BY <2>3, <2>4, <2>6, <3>1
    <3>2. CASE n = new
      BY <2>3, <2>5, <2>6, <3>2
    <3> QED
      BY <1>00, <2>0, <3>1, <3>2
  <2> QED
    BY <2>3, <2>6 DEF NoGap
<1>4. ASSUME NEW s \in Streams, Attach(s) PROVE NoGap'
  <2>1. /\ stream[s].st = "none" /\ UNCHANGED <<wire, owed, got>>
        /\ \A y \in Streams \ {s} : stream'[y] = stream[y]
    BY <1>4, AttachEffect DEF Attach
  <2>2. ASSUME NEW n \in 1 .. MaxWakes, NEW x \in Streams, Reaches(n, x) PROVE Reaches(n, x)'
    BY <2>1, <2>2 DEF Reaches, Closed, OnTheWay
  <2> QED
    BY <1>1, <2>1, <2>2
<1>5. ASSUME NEW s \in Streams, Disconnect(s) \/ Revoke(s) \/ Shut(s) PROVE NoGap'
  <2>1. PICK as \in {"shut", "closed"} : stream' = [stream EXCEPT ![s] = Close(s, as)]
    BY <1>5 DEF Disconnect, Revoke, Shut
  <2>2. /\ stream'[s].on = stream[s].on /\ stream'[s].st = as
        /\ \A y \in Streams \ {s} : stream'[y] = stream[y]
    BY <2>1, CloseEffect
  <2>3. UNCHANGED <<wire, owed, got>>
    BY <1>5 DEF Disconnect, Revoke, Shut
  <2> QED
    BY <1>2, <2>2, <2>3
<1>6. ASSUME NEW s \in Streams, DeliverTo(s) PROVE NoGap'
  <2>1. PICK h : /\ Range(stream[s].pending) = {h} \cup Range(stream'[s].pending)
                 /\ Range(got'[s]) = Range(got[s]) \cup {h}
                 /\ stream'[s].on = stream[s].on /\ stream'[s].st = stream[s].st
                 /\ \A y \in Streams \ {s} : stream'[y] = stream[y] /\ got'[y] = got[y]
    BY <1>6, DeliverEffect
  <2>2. UNCHANGED <<wire, owed>>
    BY <1>6 DEF DeliverTo
  <2>3. ASSUME NEW n \in 1 .. MaxWakes, NEW x \in Streams, Reaches(n, x) PROVE Reaches(n, x)'
    <3>1. CASE x = s
      BY <2>1, <2>2, <2>3, <3>1 DEF Reaches, Closed, OnTheWay
    <3>2. CASE x # s
      BY <2>1, <2>2, <2>3, <3>2 DEF Reaches, Closed, OnTheWay
    <3> QED
      BY <3>1, <3>2
  <2> QED
    BY <1>1, <2>2, <2>3
<1>7. ASSUME NEW v \in Servers, BecomeReady(v) PROVE NoGap'
  <2>1. /\ Range(wire[v]) = {Head(wire[v])} \cup Range(wire'[v]) /\ Head(wire[v]) \in Streams
        /\ \A u \in Servers \ {v} : wire'[u] = wire[u]
        /\ \A x \in Streams :
             /\ stream'[x].on = stream[x].on /\ stream'[x].pending = stream[x].pending
             /\ stream'[x] = stream[x] \/ (stream[x].st \in {"opening", "early", "ready"}
                                           /\ stream'[x].st = "ready")
    BY <1>7, ReadyEffect
  <2>2. UNCHANGED <<owed, got>>
    BY <1>7 DEF BecomeReady
  <2>3. ASSUME NEW n \in 1 .. MaxWakes, NEW x \in Streams, Reaches(n, x) PROVE Reaches(n, x)'
    <3>1. n # Head(wire[v]) /\ stream[x].on \in Servers
      BY <2>1, BusAssumption, StreamState
    <3>2. OnTheWay(n, x) => OnTheWay(n, x)'
      BY <2>1, <2>2, <3>1 DEF OnTheWay
    <3>3. stream'[x].on = stream[x].on /\ stream'[x].st # "none" /\ (Closed(x) => Closed(x)')
      BY <2>1, <2>3 DEF Reaches, Closed
    <3> QED
      BY <2>3, <3>2, <3>3, ReachesFrame
  <2> QED
    BY <1>1, <2>2, <2>3
<1>8. ASSUME NEW v \in Servers, FanOutWake(v) PROVE NoGap'
  <2>1. PICK h \in 1 .. MaxWakes :
          /\ Range(wire[v]) = {h} \cup Range(wire'[v])
          /\ \A u \in Servers \ {v} : wire'[u] = wire[u]
          /\ \A x \in Streams :
               /\ stream'[x].on = stream[x].on
               /\ Closed(x) \/ x \notin subs[v] => stream'[x] = stream[x]
               /\ ~Closed(x) /\ x \in subs[v] =>
                    \/ stream'[x].st = "closed"
                    \/ /\ stream'[x].st = stream[x].st
                       /\ stream'[x].pending = Append(stream[x].pending, h)
    BY <1>8, FanOutEffect
  <2>2. UNCHANGED <<owed, got>>
    BY <1>8 DEF FanOutWake
  <2>3. ASSUME NEW n \in 1 .. MaxWakes, NEW x \in Streams, Reaches(n, x) PROVE Reaches(n, x)'
    <3>1. stream[x].on \in Servers /\ Belongs(x) /\ stream[x].pending \in Seq(1 .. MaxWakes)
          /\ stream[x].st \in {"none", "opening", "early", "ready", "shut", "closed"}
      BY StreamState DEF Members
    <3>2. CASE Closed(x)
      BY <2>1, <2>3, <3>2 DEF Reaches, Closed
    <3>3. CASE ~Closed(x) /\ stream[x].on # v
      <4>1. stream'[x] = stream[x]
        BY <2>1, <3>1, <3>3 DEF Belongs
      <4> QED
        BY <2>1, <2>2, <2>3, <3>1, <3>3, <4>1 DEF Reaches, Closed, OnTheWay
    <3>4. CASE ~Closed(x) /\ stream[x].on = v
      <4>1. x \in subs[v]
        BY <3>1, <3>4 DEF Belongs, Closed
      <4>2. CASE stream'[x].st = "closed"
        BY <2>1, <2>3, <4>2, ReachesFrame
      <4>3. CASE stream'[x].st # "closed"
        <5>1. /\ stream'[x].st = stream[x].st /\ stream'[x].on = stream[x].on
              /\ stream'[x].pending = Append(stream[x].pending, h)
          BY <2>1, <3>4, <4>1, <4>3
        <5>2. Range(stream'[x].pending) = Range(stream[x].pending) \cup {h}
          <6> DEFINE W == 1 .. MaxWakes
          <6>1. stream[x].pending \in Seq(W) /\ h \in W
            BY <3>1
          <6> HIDE DEF W
          <6> QED
            BY <5>1, <6>1, RangeAppend
        <5> QED
          BY <2>1, <2>2, <2>3, <3>4, <5>1, <5>2 DEF Reaches, Closed, OnTheWay
      <4> QED
        BY <4>2, <4>3
    <3> QED
      BY <3>2, <3>3, <3>4
  <2> QED
    BY <1>1, <2>2, <2>3
<1>9. ASSUME NEW v \in Servers, Execute(v) \/ CommandFails(v) PROVE NoGap'
  <2>1. /\ UNCHANGED <<stream, owed, got>>
        /\ \/ UNCHANGED wire
           \/ /\ Head(commands[v]) # Unsubscribe /\ commands[v] # <<>>
              /\ wire' = [wire EXCEPT ![v] = Append(@, Head(commands[v]))]
    BY <1>9 DEF Execute, CommandFails
  <2>2. \A u \in Servers : Range(wire[u]) \in SUBSET Range(wire'[u])
    <3>1. CASE UNCHANGED wire
      BY <3>1
    <3>2. CASE /\ Head(commands[v]) # Unsubscribe /\ commands[v] # <<>>
               /\ wire' = [wire EXCEPT ![v] = Append(@, Head(commands[v]))]
      <4>1. Head(commands[v]) \in Wire
        BY <1>0, <3>2, RangeTail DEF Command, Wire
      <4>2. Range(Append(wire[v], Head(commands[v]))) = Range(wire[v]) \cup {Head(commands[v])}
        BY <1>0, <4>1, RangeAppend
      <4>3. /\ wire'[v] = Append(wire[v], Head(commands[v]))
            /\ \A u \in Servers \ {v} : wire'[u] = wire[u]
        BY <3>2 DEF BusTypeOK
      <4> QED
        BY <4>2, <4>3
    <3> QED
      BY <2>1, <3>1, <3>2
  <2>3. ASSUME NEW n \in 1 .. MaxWakes, NEW x \in Streams, Reaches(n, x) PROVE Reaches(n, x)'
    <3>1. stream[x].on \in Servers
      BY StreamState
    <3> QED
      BY <2>1, <2>2, <2>3, <3>1 DEF Reaches, Closed, OnTheWay
  <2> QED
    BY <1>1, <2>1, <2>3
<1>10. ASSUME UNCHANGED busVars PROVE NoGap'
  BY <1>10 DEF busVars, NoGap, Reaches, Closed, OnTheWay
<1> QED
  BY <1>3, <1>4, <1>5, <1>6, <1>7, <1>8, <1>9, <1>10 DEF BusNext

\* Nothing that is new to the stream.
LEMMA OrderedFrame ==
    ASSUME NEW x \in Streams, Ordered(x), stream'[x].on = stream[x].on, got'[x] = got[x],
           stream'[x].pending = stream[x].pending \/ stream'[x].pending = <<>>,
           MaxPending \in Nat, DOMAIN owed \in SUBSET DOMAIN owed',
           \A b \in Range(wire'[stream[x].on]) \ Streams :
             b \in Range(wire[stream[x].on]) \/ \A n \in DOMAIN owed : n < b
    PROVE  Ordered(x)'
<1>1. /\ Sorted(<<>>) /\ Range(<<>>) = {} /\ Len(<<>>) = 0
  BY DEF Sorted, Range
<1>2. CASE stream'[x].pending = stream[x].pending
  BY <1>2 DEF Ordered
<1>3. CASE stream'[x].pending = <<>>
  BY <1>1, <1>3 DEF Ordered
<1> QED
  BY <1>2, <1>3

LEMMA WireStep ==
    ASSUME BusTypeOK, Members, Relied, InOrder, [BusNext]_busVars, NEW v \in Servers
    PROVE  WireOrdered(v)'
<1>0. /\ wire[v] \in Seq(Wire) /\ commands[v] \in Seq(Command) /\ WireOrdered(v)
      /\ owed \in Seq(SUBSET Streams) /\ DOMAIN owed = 1 .. Len(owed) /\ Len(owed) \in Nat
  BY DEF BusTypeOK, Wire, Command, InOrder
<1>1. ASSUME UNCHANGED owed, wire'[v] = wire[v] PROVE WireOrdered(v)'
  BY <1>0, <1>1 DEF WireOrdered
<1>2. ASSUME UNCHANGED owed, wire[v] # <<>>, wire'[v] = Tail(wire[v]) PROVE WireOrdered(v)'
  BY <1>0, <1>2, RangeTail, WireTail DEF WireOrdered
<1>3. ASSUME NEW s \in Streams,
             Attach(s) \/ Disconnect(s) \/ DeliverTo(s) \/ Shut(s) \/ Revoke(s)
      PROVE  UNCHANGED <<owed, wire>>
  BY <1>3 DEF Attach, Disconnect, DeliverTo, Shut, Revoke
<1>4. ASSUME NEW u \in Servers, BecomeReady(u) \/ FanOutWake(u) PROVE WireOrdered(v)'
  <2>1. /\ UNCHANGED owed /\ wire[u] # <<>> /\ wire' = [wire EXCEPT ![u] = Tail(@)]
    BY <1>4 DEF BecomeReady, FanOutWake
  <2>2. (wire'[v] = Tail(wire[v]) /\ v = u) \/ wire'[v] = wire[v]
    BY <2>1 DEF BusTypeOK
  <2> QED
    BY <1>1, <1>2, <2>1, <2>2
<1>5. ASSUME NEW u \in Servers, Execute(u) \/ CommandFails(u) PROVE WireOrdered(v)'
  <2>1. UNCHANGED owed /\ commands[u] # <<>> /\ commands[u] \in Seq(Command)
    BY <1>5 DEF Execute, CommandFails, BusTypeOK, Command
  <2>2. CASE wire'[v] = wire[v]
    BY <1>1, <2>1, <2>2
  <2>3. CASE wire'[v] # wire[v]
    <3>1. Execute(u) /\ u = v /\ Head(commands[u]) # Unsubscribe
          /\ wire'[v] = Append(wire[v], Head(commands[u]))
      BY <1>5, <2>3 DEF Execute, CommandFails, BusTypeOK
    <3>2. Head(commands[u]) \in Streams
      BY <2>1, <3>1, RangeTail DEF Command
    <3>3. Range(wire'[v]) = Range(wire[v]) \cup {Head(commands[u])}
      BY <1>0, <3>1, <3>2, RangeAppend DEF Wire
    <3>4. WireSorted(wire'[v])
      BY <1>0, <3>1, <3>2, WireAppend DEF Wire, WireOrdered
    <3> QED
      BY <1>0, <2>1, <3>2, <3>3, <3>4 DEF WireOrdered
  <2> QED
    BY <2>2, <2>3
<1>6. ASSUME PublishWake PROVE WireOrdered(v)'
  <2>1. /\ Len(owed) + 1 \in Wire /\ Len(owed) + 1 \notin Streams
        /\ wire'[v] = IF subscribed[v] THEN Append(wire[v], Len(owed) + 1) ELSE wire[v]
        /\ DOMAIN owed' = 1 .. Len(owed) + 1
    BY <1>0, <1>6, BusAssumption DEF PublishWake, BusTypeOK, Wire
  <2>2. \A y \in Range(wire[v]) \ Streams : y \in 1 .. Len(owed)
    BY <1>0 DEF WireOrdered
  <2>3. \A y \in Range(wire[v]) \ Streams : y < Len(owed) + 1
    BY <1>0, <2>2
  <2>4. CASE wire'[v] = wire[v]
    BY <1>0, <2>1, <2>2, <2>4 DEF WireOrdered
  <2>5. CASE wire'[v] = Append(wire[v], Len(owed) + 1)
    <3>1. WireSorted(wire'[v])
      BY <1>0, <2>1, <2>3, <2>5, WireAppend DEF WireOrdered
    <3>2. Range(wire'[v]) = Range(wire[v]) \cup {Len(owed) + 1}
      BY <1>0, <2>1, <2>5, RangeAppend
    <3> QED
      BY <1>0, <2>1, <2>2, <3>1, <3>2 DEF WireOrdered
  <2> QED
    BY <2>1, <2>4, <2>5
<1>7. ASSUME UNCHANGED busVars PROVE WireOrdered(v)'
  BY <1>1, <1>7 DEF busVars
<1> QED
  BY <1>1, <1>3, <1>4, <1>5, <1>6, <1>7 DEF BusNext

LEMMA InOrderStep ==
    ASSUME BusTypeOK, Members, Relied, InOrder, [BusNext]_busVars
    PROVE  InOrder'
<1> SUFFICES ASSUME NEW x \in Streams PROVE Ordered(x)'
  BY WireStep DEF InOrder
<1>0. /\ stream[x].on \in Servers /\ stream[x].pending \in Seq(1 .. MaxWakes)
      /\ got[x] \in Seq(1 .. MaxWakes) /\ MaxPending \in Nat /\ Ordered(x)
      /\ owed \in Seq(SUBSET Streams) /\ DOMAIN owed = 1 .. Len(owed) /\ Len(owed) \in Nat
  <2>1. /\ stream[x].on \in Servers /\ stream[x].pending \in Seq(1 .. MaxWakes)
        /\ MaxPending \in Nat
    BY StreamState, BusAssumption
  <2>2. got[x] \in Seq(1 .. MaxWakes) /\ Ordered(x)
    BY DEF BusTypeOK, InOrder
  <2>3. owed \in Seq(SUBSET Streams)
    BY DEF BusTypeOK
  <2> QED
    BY <2>1, <2>2, <2>3
<1>1. ASSUME UNCHANGED <<owed, wire, got>>, stream'[x].on = stream[x].on,
             stream'[x].pending = stream[x].pending \/ stream'[x].pending = <<>>
      PROVE  Ordered(x)'
  BY <1>0, <1>1, OrderedFrame
<1>2. ASSUME NEW s \in Streams, Attach(s) PROVE Ordered(x)'
  <2>1. /\ stream'[s].on = stream[s].on /\ stream'[s].pending = stream[s].pending
        /\ \A y \in Streams \ {s} : stream'[y] = stream[y]
    BY <1>2, AttachEffect
  <2>2. UNCHANGED <<owed, wire, got>>
    BY <1>2 DEF Attach
  <2> QED
    BY <1>1, <2>1, <2>2
<1>3. ASSUME NEW s \in Streams, Disconnect(s) \/ Revoke(s) \/ Shut(s) PROVE Ordered(x)'
  <2>1. PICK as \in {"shut", "closed"} : stream' = [stream EXCEPT ![s] = Close(s, as)]
    BY <1>3 DEF Disconnect, Revoke, Shut
  <2>2. /\ stream'[s].on = stream[s].on /\ stream'[s].pending = <<>>
        /\ \A y \in Streams \ {s} : stream'[y] = stream[y]
    BY <2>1, CloseEffect
  <2>3. UNCHANGED <<wire, owed, got>>
    BY <1>3 DEF Disconnect, Revoke, Shut
  <2> QED
    BY <1>1, <2>2, <2>3
<1>4. ASSUME NEW s \in Streams, DeliverTo(s) PROVE Ordered(x)'
  <2>1. PICK h \in 1 .. MaxWakes :
          /\ h = Head(stream[s].pending) /\ stream[s].pending # <<>>
          /\ Range(stream[s].pending) = {h} \cup Range(stream'[s].pending)
          /\ stream'[s].on = stream[s].on
          /\ stream'[s].pending = Tail(stream[s].pending)
          /\ got'[s] = Append(got[s], h) /\ Range(got'[s]) = Range(got[s]) \cup {h}
          /\ \A y \in Streams \ {s} : stream'[y] = stream[y] /\ got'[y] = got[y]
    BY <1>4, DeliverEffect
  <2>2. UNCHANGED <<wire, owed>>
    BY <1>4 DEF DeliverTo
  <2>3. CASE x # s
    BY <1>0, <2>1, <2>2, <2>3, OrderedFrame
  <2>4. CASE x = s
    <3> DEFINE W == 1 .. MaxWakes
    <3>1. W \in SUBSET Nat /\ stream[x].pending \in Seq(W) /\ got[x] \in Seq(W) /\ h \in W
      BY <1>0, <2>1, BusAssumption
    <3> HIDE DEF W
    <3>2. /\ Sorted(stream'[x].pending)
          /\ \A y \in Range(stream'[x].pending) : h < y
      BY <1>0, <2>1, <2>4, <3>1, SortedTail DEF Ordered
    <3>3. Sorted(got'[x])
      <4>1. \A y \in Range(got[x]) : y < h
        BY <1>0, <2>1, <2>4 DEF Ordered
      <4> QED
        BY <1>0, <2>1, <2>4, <3>1, <4>1, SortedAppend DEF Ordered
    <3>4. Len(stream'[x].pending) <= MaxPending
      <4>1. Len(Tail(stream[x].pending)) = Len(stream[x].pending) - 1 /\ Len(stream[x].pending) \in Nat
        BY <2>1, <2>4, <3>1, HeadTailProperties
      <4>2. Len(stream[x].pending) <= MaxPending /\ stream'[x].pending = Tail(stream[x].pending)
        BY <1>0, <2>1, <2>4 DEF Ordered
      <4>3. ASSUME NEW a \in Nat, NEW b \in Nat, a <= b PROVE a - 1 <= b
        BY <4>3
      <4> QED
        BY <1>0, <4>1, <4>2, <4>3
    <3>5. \A a \in Range(got'[x]), b \in Range(stream'[x].pending) : a < b
      BY <1>0, <2>1, <2>4, <3>2 DEF Ordered
    <3>6. Range(got'[x]) \cup Range(stream'[x].pending)
            = Range(got[x]) \cup Range(stream[x].pending)
      BY <2>1, <2>4
    <3> QED
      BY <1>0, <2>1, <2>2, <2>4, <3>2, <3>3, <3>4, <3>5, <3>6 DEF Ordered
  <2> QED
    BY <2>3, <2>4
<1>5. ASSUME NEW v \in Servers, BecomeReady(v) PROVE Ordered(x)'
  <2>1. /\ Range(wire[v]) = {Head(wire[v])} \cup Range(wire'[v])
        /\ \A u \in Servers \ {v} : wire'[u] = wire[u]
        /\ stream'[x].on = stream[x].on /\ stream'[x].pending = stream[x].pending
    BY <1>5, ReadyEffect
  <2>2. UNCHANGED <<owed, got>>
    BY <1>5 DEF BecomeReady
  <2> QED
    BY <1>0, <2>1, <2>2, OrderedFrame
<1>6. ASSUME NEW v \in Servers, FanOutWake(v) PROVE Ordered(x)'
  <2>1. PICK h \in 1 .. MaxWakes :
          /\ h = Head(wire[v])
          /\ Range(wire[v]) = {h} \cup Range(wire'[v]) /\ wire'[v] = Tail(wire[v])
          /\ \A u \in Servers \ {v} : wire'[u] = wire[u]
          /\ stream'[x].on = stream[x].on
          /\ Closed(x) \/ x \notin subs[v] => stream'[x] = stream[x]
          /\ ~Closed(x) /\ x \in subs[v] =>
               \/ stream'[x].pending = <<>>
               \/ /\ stream'[x].pending = Append(stream[x].pending, h)
                  /\ Len(stream[x].pending) < MaxPending
    BY <1>6, FanOutEffect
  <2>2. UNCHANGED <<owed, got>>
    BY <1>6 DEF FanOutWake
  <2>3. CASE stream'[x].pending = stream[x].pending \/ stream'[x].pending = <<>>
    BY <1>0, <2>1, <2>2, <2>3, OrderedFrame
  <2>4. CASE /\ x \in subs[v] /\ stream'[x].pending = Append(stream[x].pending, h)
             /\ Len(stream[x].pending) < MaxPending
    <3> DEFINE W == 1 .. MaxWakes
    <3>1. W \in SUBSET Nat /\ stream[x].pending \in Seq(W) /\ h \in W
      BY <1>0, <2>1, BusAssumption
    <3> HIDE DEF W
    <3>2. stream[x].on = v
      BY <2>4 DEF Members, Belongs
    <3>3. /\ h \in Range(wire[v]) \ Streams /\ h \in DOMAIN owed
          /\ \A b \in Range(wire'[v]) \ Streams : h < b
      <4>1. h \notin Streams /\ wire[v] \in Seq(Wire) /\ wire[v] # <<>> /\ WireOrdered(v)
        BY <1>6, <2>1, BusAssumption DEF FanOutWake, BusTypeOK, Wire, InOrder
      <4> QED
        BY <2>1, <4>1, WireTail DEF WireOrdered
    <3>4. Range(stream'[x].pending) = Range(stream[x].pending) \cup {h}
      BY <2>4, <3>1, RangeAppend
    <3>5. \A a \in Range(got[x]) \cup Range(stream[x].pending) : a < h
      BY <1>0, <3>2, <3>3 DEF Ordered
    <3>6. Sorted(stream'[x].pending)
      BY <1>0, <2>4, <3>1, <3>5, SortedAppend DEF Ordered
    <3>7. Len(stream'[x].pending) <= MaxPending
      BY <1>0, <2>4
    <3>8. \A b \in Range(wire'[v]) : b \in Range(wire[v])
      BY <2>1
    <3> QED
      BY <1>0, <2>1, <2>2, <3>2, <3>3, <3>4, <3>5, <3>6, <3>7, <3>8 DEF Ordered
  <2> QED
    BY <2>1, <2>3, <2>4
<1>7. ASSUME NEW v \in Servers, Execute(v) \/ CommandFails(v) PROVE Ordered(x)'
  <2>1. UNCHANGED <<stream, owed, got>> /\ commands[v] \in Seq(Command) /\ commands[v] # <<>>
    BY <1>7 DEF Execute, CommandFails, BusTypeOK, Command
  <2>2. \A b \in Range(wire'[stream[x].on]) \ Streams : b \in Range(wire[stream[x].on])
    <3>1. CASE wire'[stream[x].on] = wire[stream[x].on]
      BY <3>1
    <3>2. CASE wire'[stream[x].on] # wire[stream[x].on]
      <4>1. /\ Head(commands[v]) # Unsubscribe
            /\ wire'[stream[x].on] = Append(wire[stream[x].on], Head(commands[v]))
            /\ wire[stream[x].on] \in Seq(Wire)
        <5>1. Execute(v)
          BY <1>7, <3>2 DEF CommandFails
        <5>2. wire \in [Servers -> Seq(Wire)]
          BY DEF BusTypeOK, Wire
        <5> QED
          BY <1>0, <3>2, <5>1, <5>2 DEF Execute
      <4>2. Head(commands[v]) \in Streams
        BY <2>1, <4>1, RangeTail DEF Command
      <4>3. Range(wire'[stream[x].on]) = Range(wire[stream[x].on]) \cup {Head(commands[v])}
        BY <4>1, <4>2, RangeAppend DEF Wire
      <4> QED
        BY <4>2, <4>3
    <3> QED
      BY <3>1, <3>2
  <2> QED
    BY <1>0, <2>1, <2>2, OrderedFrame
<1>8. ASSUME PublishWake PROVE Ordered(x)'
  <2>1. UNCHANGED <<stream, got>> /\ DOMAIN owed' = 1 .. Len(owed) + 1
    BY <1>0, <1>8 DEF PublishWake
  <2>2. \A b \in Range(wire'[stream[x].on]) : b \in Range(wire[stream[x].on]) \/ b = Len(owed) + 1
    <3>1. wire[stream[x].on] \in Seq(Wire) /\ Len(owed) + 1 \in Wire
      BY <1>0, <1>8, BusAssumption DEF PublishWake, BusTypeOK, Wire
    <3>2. Range(Append(wire[stream[x].on], Len(owed) + 1)) = Range(wire[stream[x].on]) \cup {Len(owed) + 1}
      BY <3>1, RangeAppend
    <3> QED
      BY <1>0, <1>8, <3>2 DEF PublishWake
  <2>3. DOMAIN owed \in SUBSET DOMAIN owed' /\ \A n \in DOMAIN owed : n < Len(owed) + 1
    BY <1>0, <2>1
  <2> QED
    BY <1>0, <2>1, <2>2, <2>3, OrderedFrame
<1>9. ASSUME UNCHANGED busVars PROVE Ordered(x)'
  BY <1>1, <1>9 DEF busVars
<1> QED
  BY <1>2, <1>3, <1>4, <1>5, <1>6, <1>7, <1>8, <1>9 DEF BusNext

LEMMA BusInitInv == BusInit => Members /\ Relied /\ NoGap /\ InOrder
<1> SUFFICES ASSUME BusInit PROVE Members /\ Relied /\ NoGap /\ InOrder
  OBVIOUS
<1>1. \A s \in Streams : stream[s].st = "none" /\ stream[s].pending = <<>> /\ got[s] = <<>>
                         /\ stream[s].on \in Servers
  BY DEF BusInit
<1>2. \A v \in Servers : wire[v] = <<>> /\ commands[v] = <<>> /\ subs[v] = {}
  BY DEF BusInit
<1>3. Range(<<>>) = {} /\ Sorted(<<>>) /\ WireSorted(<<>>) /\ Len(<<>>) = 0 /\ DOMAIN <<>> = {}
  BY DEF Range, Sorted, WireSorted
<1>4. Members
  BY <1>1, <1>2 DEF Members, Belongs
<1>5. Relied
  BY <1>1, <1>2, <1>3 DEF Relied, ReliedOn, Asked
<1>6. NoGap
  BY <1>3 DEF NoGap, BusInit
<1>7. InOrder
  BY <1>1, <1>2, <1>3, BusAssumption DEF InOrder, WireOrdered, Ordered
<1> QED
  BY <1>4, <1>5, <1>6, <1>7

\* A stream that is ready gets every wake from then on, in order and once, until it is
\* closed, whatever the other streams of its server do; and what waits for it is bounded.
THEOREM StreamHasNoGap == BusSpec => []NoGapUntilClosed
<1> DEFINE Inv == BusTypeOK /\ Members /\ Relied /\ NoGap /\ InOrder
<1>1. BusInit => Inv
  BY BusInitType, BusInitInv
<1>2. Inv /\ [BusNext]_busVars => Inv'
  BY BusNextType, MembersStep, ReliedStep, NoGapStep, InOrderStep
<1>3. Inv => NoGapUntilClosed
  BY DEF NoGap, Reaches, InOrder, Ordered, Sorted, NoGapUntilClosed
<1> HIDE DEF Inv
<1> QED
  BY <1>1, <1>2, <1>3, PTL DEF BusSpec

-----------------------------------------------------------------------------
(* The sum *)

Proved == INSTANCE WakeRetryProofs WITH Replicas <- Retriers, stream <- podStream

\* The wakes of the sum are those of the proofs.
LEMMA SameRetry ==
    /\ Retry!RetryInit <=> Proved!RetryInit
    /\ Retry!RetryNext <=> Proved!RetryNext
    /\ Retry!RetryAssumption <=> Proved!RetryAssumption
    /\ Retry!RetryTypeOK <=> Proved!RetryTypeOK
<1> QED
  BY DEF Retry!RetryInit, Proved!RetryInit, Retry!RetryNext, Proved!RetryNext,
     Retry!retryVars, Proved!retryVars, Retry!RetryTypeOK, Proved!RetryTypeOK,
     Retry!RetryAssumption, Proved!RetryAssumption, Retry!Job, Proved!Job, Retry!Tasks,
     Proved!Tasks, Retry!Steps, Proved!Steps, Retry!Sequel, Proved!Sequel, Retry!At,
     Proved!At, Retry!Goto, Proved!Goto, Retry!End, Proved!End, Retry!WakeFault,
     Proved!WakeFault, Retry!BoardAction, Proved!BoardAction, Retry!ReadBatch,
     Proved!ReadBatch, Retry!ClaimRetry, Proved!ClaimRetry, Retry!GetJob, Proved!GetJob,
     Retry!DeleteJob, Proved!DeleteJob, Retry!Counted, Proved!Counted, Retry!Heard,
     Proved!Heard, Retry!Deliver, Proved!Deliver, Retry!Queue, Proved!Queue,
     Retry!ResolveHost, Proved!ResolveHost, Retry!HealthCheck, Proved!HealthCheck,
     Retry!EnsurePod, Proved!EnsurePod, Retry!Scheduled, Proved!Scheduled,
     Retry!NextAttempt, Proved!NextAttempt, Retry!Exhausted, Proved!Exhausted,
     Retry!PutJob, Proved!PutJob, Retry!QueueJob, Proved!QueueJob, Retry!CallThrows,
     Proved!CallThrows, Retry!Replay, Proved!Replay, Retry!GiveUp, Proved!GiveUp,
     Retry!CancelMember, Proved!CancelMember, Retry!CancelJob, Proved!CancelJob,
     Retry!DueComes, Proved!DueComes, Retry!StreamOpens, Proved!StreamOpens,
     Retry!StreamGoes, Proved!StreamGoes, Retry!Unsubscribe, Proved!Unsubscribe,
     Retry!WakeCrash, Proved!WakeCrash, Retry!TaskStep, Proved!TaskStep

\* A behaviour of the sum is one of each part, so that what is proved of a part holds
\* of the behaviours of the run.
LEMMA SumOfDelivery ==
    DeliverySpec => Spec /\ MailSpec /\ PollSpec /\ BusSpec /\ Proved!RetrySpec
<1>1. DeliveryInit => Init /\ MailInit /\ PollInit /\ BusInit /\ Proved!RetryInit
  BY SameRetry DEF DeliveryInit
<1>2. [DeliveryNext]_<<part, outboxVars, mailVars, pollVars, retryVars, busVars>>
      => /\ [Next]_vars /\ [MailNext]_mailVars /\ [PollNext]_pollVars /\ [BusNext]_busVars
         /\ [Proved!RetryNext]_(Proved!retryVars)
  <2> SUFFICES ASSUME [DeliveryNext]_<<part, outboxVars, mailVars, pollVars, retryVars, busVars>>
               PROVE  /\ [Next]_vars /\ [MailNext]_mailVars /\ [PollNext]_pollVars /\ [BusNext]_busVars
                      /\ [Proved!RetryNext]_(Proved!retryVars)
    OBVIOUS
  <2>1. /\ [Next]_vars /\ [MailNext]_mailVars /\ [PollNext]_pollVars /\ [BusNext]_busVars
        /\ Retry!RetryNext \/ UNCHANGED retryVars
    BY DEF DeliveryNext, outboxVars
  <2>2. UNCHANGED retryVars => UNCHANGED Proved!retryVars
    BY DEF retryVars, Proved!retryVars
  <2> QED
    BY <2>1, <2>2, SameRetry
<1> QED
  BY <1>1, <1>2, PTL DEF DeliverySpec, Spec, MailSpec, PollSpec, BusSpec, Proved!RetrySpec

\* The state of every part of the delivery keeps its type, whichever a behaviour runs.
THEOREM DeliveryTypeCorrect == DeliverySpec => []DeliveryTypeOK
<1>1. Proved!RetrySpec => [](Proved!RetryTypeOK /\ \A p \in Proved!Tasks : Proved!HasJob(p))
  <2>1. Proved!RetryAssumption
    BY SameRetry, DeliveryAssumption
  <2> QED
    BY <2>1, Proved!RetryTypeCorrect
<1>2. /\ TypeOK /\ MailTypeOK /\ PollTypeOK /\ BusTypeOK
      /\ Proved!RetryTypeOK /\ \A p \in Proved!Tasks : Proved!HasJob(p)
      => DeliveryTypeOK
  BY SameRetry DEF DeliveryTypeOK
<1> QED
  BY <1>1, <1>2, SumOfDelivery, TypeCorrect, MailTypeCorrect, PollTypeCorrect, BusTypeCorrect, PTL
=============================================================================
