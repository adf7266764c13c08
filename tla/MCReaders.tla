----------------------------- MODULE MCReaders -----------------------------
(***************************************************************************)
(* The two kinds of readers of a conversation in one run of TLC: the inbox *)
(* of an agent (AgentInbox) and the screen of a client (MessageStore).     *)
(* They share no state: a behaviour runs one of them, the part.  The inbox *)
(* has two parts: everything about one conversation, and less, with one    *)
(* message more, about several.                                            *)
(***************************************************************************)
EXTENDS MCAgentInbox, MessageStore

VARIABLE part

ReadersInit == part \in {"agent", "rooms", "screen"} /\ Init /\ StoreInit

\* Nothing happens in the groups, and the last transaction is left out.
DirectOnly ==
    /\ Len(tx) < MaxTx
    /\ \A i \in DOMAIN tx : tx[i].in \in Direct
    /\ \A c \in Convs \ Direct : cursor[c] = 0

\* Turns over several conversations, of an agent that reads and does not write; one
\* wake is under way at a time.
RoomsNext ==
    \/ Turn \/ DebounceEnds \/ Poll
    \/ \E c \in Convs : BeginPost(c) \/ Look(c) \/ Steer(c)
    \/ \E i \in DOMAIN tx : (wakes = {} /\ Post(i)) \/ Wake(i)

ReadersNext ==
    /\ UNCHANGED part
    /\ \/ part = "agent" /\ Next /\ DirectOnly' /\ UNCHANGED storeVars
       \/ part = "rooms" /\ RoomsNext /\ UNCHANGED storeVars
       \/ part = "screen" /\ StoreNext /\ UNCHANGED vars

\* The fairness of AgentInbox; nothing is asked of a client.
FairReaders ==
    /\ ReadersInit /\ [][ReadersNext]_<<part, vars, storeVars>>
    /\ WF_vars(/\ part # "screen"
               /\ Turn \/ DebounceEnds \/ Poll \/ \E i \in DOMAIN tx : Reply(i))
    /\ WF_vars(part # "screen" /\ BackoffEnds)

ReadersTypeOK == TypeOK /\ StoreTypeOK

\* Two fetches at a time while all is published and at most one event is on the way;
\* sends with one fetch, while the log is short.
ShortScreen ==
    /\ Cardinality(fetches) <= 2
    /\ \/ Cardinality(fetches) <= 1
       \/ /\ outbox = {} /\ Cardinality(wire) <= 1
          /\ \A c \in ClientIds : post[c] = "unused"
    /\ (\E c \in ClientIds : post[c] # "unused") => Len(history) < MaxLog
=============================================================================
