----------------------------- MODULE Documents -----------------------------
(***************************************************************************)
(* One collaborative document: its rooms in the server instances           *)
(* (documents/rooms.ts), its log and snapshot in PostgreSQL                *)
(* (documents/persistence.ts) and the Redis channel between the rooms.     *)
(*                                                                         *)
(* A Yjs update is an element and a document the set of those applied to   *)
(* it: applying one twice, or in another order, makes no difference.       *)
(***************************************************************************)
EXTENDS Integers, FiniteSets

CONSTANTS
    Instances,
    Updates,
    MaxDocFaults    \* bound: crashes, failing statements and lost messages

ASSUME DocAssumption == IsFiniteSet(Updates) /\ MaxDocFaults \in Nat

VARIABLES
    rowOf,      \* document_updates: the state of the row of each update
    idOf,       \* its id, taken from a sequence before its transaction commits
    snapshot,   \* document_snapshots: the merged updates and the highest id
    compactor,  \* what the compaction of each instance has read
    room,       \* the room of each instance and the updates in its Y.Doc
    saving,     \* updates each instance has still to insert
    bus,        \* updates on their way to the room of an instance
    unheard,    \* updates an instance did not hear of since its last load (ghost)
    docFaults   \* what went wrong so far (ghost)

docVars == <<rowOf, idOf, snapshot, compactor, room, saving, bus, unheard, docFaults>>

None == [rows |-> {}, merged |-> {}]
Row == {"none", "open", "in", "merged", "lost"}

DocTypeOK ==
    /\ rowOf \in [Updates -> Row]
    /\ idOf \in [Updates -> 0 .. Cardinality(Updates)]
    /\ snapshot \in [merged : SUBSET Updates, at : 0 .. Cardinality(Updates)]
    /\ compactor \in [Instances -> [rows : SUBSET Updates, merged : SUBSET Updates]]
    /\ room \in [Instances -> [st : {"absent", "loading", "read", "ready"},
                               doc : SUBSET Updates]]
    /\ saving \in [Instances -> SUBSET Updates]
    /\ bus \in SUBSET (Updates \X Instances) /\ unheard \in SUBSET (Updates \X Instances)
    /\ docFaults \in Nat

DocInit ==
    /\ rowOf = [u \in Updates |-> "none"] /\ idOf = [u \in Updates |-> 0]
    /\ snapshot = [merged |-> {}, at |-> 0]
    /\ compactor = [i \in Instances |-> None]
    /\ room = [i \in Instances |-> [st |-> "absent", doc |-> {}]]
    /\ saving = [i \in Instances |-> {}]
    /\ bus = {} /\ unheard = {} /\ docFaults = 0

DocFault == docFaults < MaxDocFaults /\ docFaults' = docFaults + 1

Log == {u \in Updates : rowOf[u] = "in"}

\* What a cold load can still find.
Stored == Log \cup snapshot.merged

\* Mutant: a load reads the rows behind the snapshot.
LogBehindSnapshot == {u \in Log : idOf[u] > snapshot.at} \cup snapshot.merged

\* readDocumentState: the snapshot and all rows that remain, in one statement.
DocumentState == Log \cup snapshot.merged

-----------------------------------------------------------------------------
(* Rooms *)

\* getOrCreateRoom: the room is in the map, not hydrated.
BeginLoad(i) ==
    /\ room[i].st = "absent"
    /\ room' = [room EXCEPT ![i] = [st |-> "loading", doc |-> {}]]
    /\ UNCHANGED <<rowOf, idOf, snapshot, compactor, saving, bus, unheard, docFaults>>

ReadState(i) ==
    /\ room[i].st = "loading"
    /\ room' = [room EXCEPT ![i] = [st |-> "read", doc |-> DocumentState]]
    /\ unheard' = unheard \ (Stored \X {i})
    /\ UNCHANGED <<rowOf, idOf, snapshot, compactor, saving, bus, docFaults>>

Hydrate(i) ==
    /\ room[i].st = "read"
    /\ room' = [room EXCEPT ![i].st = "ready"]
    /\ UNCHANGED <<rowOf, idOf, snapshot, compactor, saving, bus, unheard, docFaults>>

\* A load that fails takes its room out of the map: the next request starts over.
LoadFails(i) ==
    /\ room[i].st \in {"loading", "read"}
    /\ DocFault
    /\ room' = [room EXCEPT ![i] = [st |-> "absent", doc |-> {}]]
    /\ UNCHANGED <<rowOf, idOf, snapshot, compactor, saving, bus, unheard>>

\* The grace time after the last subscriber left is over.  Inserts go on, here and
\* elsewhere: a room loaded before they commit does not hear of them again.
CloseRoom(i) ==
    /\ room[i].st = "ready"
    /\ room' = [room EXCEPT ![i] = [st |-> "absent", doc |-> {}]]
    /\ unheard' = unheard \cup ((room[i].doc \ Stored) \X {i})
    /\ UNCHANGED <<rowOf, idOf, snapshot, compactor, saving, bus, docFaults>>

Published(i, u) == {<<u, j>> : j \in Instances \ {i}}

\* An edit of a subscriber or an agent: the room has it, its insert and its
\* publication start, neither waits for the other.  An edit collected into the
\* transaction of its caller does the same, and is lost with the transaction.
Edit(i, u) ==
    /\ room[i].st = "ready"
    /\ rowOf[u] = "none" /\ \A j \in Instances : u \notin saving[j] \cup room[j].doc
    /\ room' = [room EXCEPT ![i].doc = @ \cup {u}]
    /\ saving' = [saving EXCEPT ![i] = @ \cup {u}]
    /\ bus' = bus \cup Published(i, u)
    /\ UNCHANGED <<rowOf, idOf, snapshot, compactor, unheard, docFaults>>

\* applyRemoteUpdate: nobody is listening unless the room is hydrated; what comes
\* before that is dropped.
Receive(i, u) ==
    /\ <<u, i>> \in bus
    /\ bus' = bus \ {<<u, i>>}
    /\ IF room[i].st = "ready"
       THEN room' = [room EXCEPT ![i].doc = @ \cup {u}] /\ UNCHANGED unheard
       ELSE unheard' = unheard \cup {<<u, i>>} /\ UNCHANGED room
    /\ UNCHANGED <<rowOf, idOf, snapshot, compactor, saving, docFaults>>

\* Redis keeps nothing for a subscriber that is away.
LoseMessage(i, u) ==
    /\ <<u, i>> \in bus
    /\ DocFault
    /\ bus' = bus \ {<<u, i>>}
    /\ unheard' = unheard \cup {<<u, i>>}
    /\ UNCHANGED <<rowOf, idOf, snapshot, compactor, room, saving>>

-----------------------------------------------------------------------------
(* persistUpdate and persistUpdateWith *)

LastId == CHOOSE n \in 0 .. Cardinality(Updates) :
            /\ \A u \in Updates : idOf[u] <= n
            /\ n = 0 \/ \E u \in Updates : idOf[u] = n

Insert(i, u) ==
    /\ u \in saving[i] /\ rowOf[u] = "none"
    /\ rowOf' = [rowOf EXCEPT ![u] = "open"]
    /\ idOf' = [idOf EXCEPT ![u] = LastId + 1]
    /\ UNCHANGED <<snapshot, compactor, room, saving, bus, unheard, docFaults>>

Commit(i, u) ==
    /\ u \in saving[i] /\ rowOf[u] = "open"
    /\ rowOf' = [rowOf EXCEPT ![u] = "in"]
    /\ saving' = [saving EXCEPT ![i] = @ \ {u}]
    /\ UNCHANGED <<idOf, snapshot, compactor, room, bus, unheard, docFaults>>

\* Logged only (persistUpdate), or rolled back with its caller's transaction.
InsertFails(i, u) ==
    /\ u \in saving[i]
    /\ DocFault
    /\ rowOf' = [rowOf EXCEPT ![u] = "lost"]
    /\ saving' = [saving EXCEPT ![i] = @ \ {u}]
    /\ UNCHANGED <<idOf, snapshot, compactor, room, bus, unheard>>

-----------------------------------------------------------------------------
(* compactDocument *)

Compacting(i) == compactor[i].rows # {}

\* The advisory lock, and the read.
BeginCompact(i) ==
    /\ \A j \in Instances : ~Compacting(j)
    /\ Log # {}
    /\ compactor' = [compactor EXCEPT ![i] = [rows |-> Log, merged |-> DocumentState]]
    /\ UNCHANGED <<rowOf, idOf, snapshot, room, saving, bus, unheard, docFaults>>

HighestId(S) == CHOOSE n \in {idOf[u] : u \in S} : \A u \in S : idOf[u] <= n

\* Mutant: the rows up to the highest id are deleted.
DeletedUpTo(i) == {u \in Log : idOf[u] <= HighestId(compactor[i].rows)}

\* Only the exact rows that were merged.
Deleted(i) == compactor[i].rows

\* COMMIT of the new snapshot and the deletion.
Compact(i) ==
    /\ Compacting(i)
    /\ snapshot' = [merged |-> compactor[i].merged, at |-> HighestId(compactor[i].merged)]
    /\ rowOf' = [u \in Updates |-> IF u \in Deleted(i) THEN "merged" ELSE rowOf[u]]
    /\ compactor' = [compactor EXCEPT ![i] = None]
    /\ UNCHANGED <<idOf, room, saving, bus, unheard, docFaults>>

CompactFails(i) ==
    /\ Compacting(i)
    /\ DocFault
    /\ compactor' = [compactor EXCEPT ![i] = None]
    /\ UNCHANGED <<rowOf, idOf, snapshot, room, saving, bus, unheard>>

\* The instance dies with its room, its inserts and its compaction, and restarts.
InstanceCrash(i) ==
    /\ DocFault
    /\ rowOf' = [u \in Updates |-> IF u \in saving[i] THEN "lost" ELSE rowOf[u]]
    /\ compactor' = [compactor EXCEPT ![i] = None]
    /\ room' = [room EXCEPT ![i] = [st |-> "absent", doc |-> {}]]
    /\ saving' = [saving EXCEPT ![i] = {}]
    /\ bus' = {x \in bus : x[2] # i}
    /\ unheard' = unheard \cup {x \in bus : x[2] = i} \cup ((room[i].doc \ Stored) \X {i})
    /\ UNCHANGED <<idOf, snapshot>>

-----------------------------------------------------------------------------
DocNext ==
    \E i \in Instances :
        \/ BeginLoad(i) \/ ReadState(i) \/ Hydrate(i) \/ LoadFails(i) \/ CloseRoom(i)
        \/ BeginCompact(i) \/ Compact(i) \/ CompactFails(i) \/ InstanceCrash(i)
        \/ \E u \in Updates : \/ Edit(i, u) \/ Receive(i, u) \/ LoseMessage(i, u)
                              \/ Insert(i, u) \/ Commit(i, u) \/ InsertFails(i, u)

DocSpec == DocInit /\ [][DocNext]_docVars

-----------------------------------------------------------------------------
(* Properties *)

\* What a cold load can find is never lost: compaction, with inserts that took
\* their ids early and commit late, keeps every committed update (comment of
\* compactDocument).
CommittedStays == [][Stored \subseteq Stored']_docVars

\* A hydrated room lacks a stored update only while its message is on the way, or
\* if that message came before the room was hydrated, or never, and the commit
\* came after the load had read: loads miss nothing that was committed (comment
\* of readDocumentState), and every edit goes to the other rooms.
OnlyTheGap ==
    \A i \in Instances, u \in Stored :
        room[i].st = "ready" => u \in room[i].doc \/ <<u, i>> \in bus \cup unheard
=============================================================================
