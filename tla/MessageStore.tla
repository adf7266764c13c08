---------------------------- MODULE MessageStore ----------------------------
(***************************************************************************)
(* One conversation in the client (src/src/stores/messages.ts): the cached *)
(* rows, optimistic bubbles with their POST and its retries, fetches page    *)
(* by page, and the WebSocket that loses events while it is down.          *)
(*                                                                         *)
(* A message is its sequence number; history[n] says whose it is.  The     *)
(* server appends in the order of the numbers (CommitOrder of ReplyGate)   *)
(* and publishes at least once, in any order (EventDelivery).              *)
(***************************************************************************)
EXTENDS Integers, Sequences, FiniteSets

CONSTANTS
    ClientIds,      \* client ids of the sends of this client
    PageSize,       \* MESSAGES_PAGE_SIZE
    MaxLog,         \* bound: sequence numbers
    MaxMishaps      \* bound: outages, failing requests, rolled-back numbers

ASSUME StoreAssumption ==
    /\ PageSize \in Nat \ {0} /\ MaxLog \in Nat \ {0} /\ MaxMishaps \in Nat
    /\ ClientIds \cap {"other", "gap", "none"} = {}

VARIABLES
    history,        \* messages of the server by sequence
    outbox,     \* committed messages still to be published
    online,     \* the socket is registered with a server
    wire,       \* message.new events on the way to this client
    orphans,    \* POSTs the client gave up, still on the way to the server
    open,       \* the conversation is selected
    cached,     \* byConvo[id]
    loaded,     \* the id is in `loaded`
    hasOlder,   \* hasMoreOlder[id]
    post,       \* what became of the send of each client id
    fetches,    \* calls of fetchMessagesSinceCache and loadOlder under way
    stale,      \* the cache may have a hole that the client cannot know of (ghost)
    mishaps     \* what went wrong so far (ghost)

storeVars == <<history, outbox, online, wire, orphans, open, cached, loaded, hasOlder, post,
               fetches, stale, mishaps>>
serverVars == <<history, outbox, orphans>>
screenVars == <<cached, loaded, hasOlder, fetches, stale>>

Other == "other"
Gap == "gap"        \* a number that was taken and has no row
NoClient == "none"
Beyond == MaxLog + 1
Numbers == 1 .. MaxLog

\* Number 0 is the temporary id of a bubble; all but "stored" rows stand at the tail.
CachedRow == [id : 0 .. MaxLog, client : ClientIds \cup {NoClient},
              st : {"stored", "sent", "pending", "failed", "unconfirmed"}]
Fetch == [kind : {"load", "reload", "older"}, latest : 0 .. MaxLog, held : SUBSET Numbers,
          before : 1 .. Beyond, got : SUBSET Numbers, fresh : BOOLEAN, done : BOOLEAN]

StoreTypeOK ==
    /\ history \in Seq(ClientIds \cup {Other, Gap}) /\ Len(history) <= MaxLog
    /\ outbox \in SUBSET Numbers /\ wire \in SUBSET Numbers /\ orphans \in SUBSET ClientIds
    /\ {online, open, loaded, stale} \subseteq BOOLEAN
    /\ cached \in SUBSET CachedRow
    /\ hasOlder \in {"unknown", "yes", "no"}
    /\ post \in [ClientIds -> {"unused", "asked", "answered", "idle"}]
    /\ fetches \in SUBSET Fetch
    /\ mishaps \in 0 .. MaxMishaps

StoreInit ==
    /\ history = <<>> /\ outbox = {} /\ online = FALSE /\ wire = {} /\ orphans = {}
    /\ open = FALSE /\ cached = {} /\ loaded = FALSE /\ hasOlder = "unknown"
    /\ post = [c \in ClientIds |-> "unused"]
    /\ fetches = {} /\ stale = FALSE /\ mishaps = 0

Mishap == mishaps < MaxMishaps /\ mishaps' = mishaps + 1

-----------------------------------------------------------------------------
(* The server *)

Real == {n \in DOMAIN history : history[n] # Gap}

AppendMessage(who) ==
    /\ Len(history) < MaxLog
    /\ history' = Append(history, who)
    /\ outbox' = IF who = Gap THEN outbox ELSE outbox \cup {Len(history) + 1}

OthersPost ==
    /\ AppendMessage(Other)
    /\ UNCHANGED <<online, wire, orphans, open, post, screenVars, mishaps>>

InsertRollsBack ==
    /\ AppendMessage(Gap) /\ Mishap
    /\ UNCHANGED <<online, wire, orphans, open, post, screenVars>>

\* Idempotent on the client id: a retry finds the row of the first attempt, and the
\* number that it took is burned.
Persist(c) == AppendMessage(IF \E n \in Real : history[n] = c THEN Gap ELSE c)

PostArrives(c) ==
    /\ post[c] = "asked"
    /\ Persist(c)
    /\ post' = [post EXCEPT ![c] = "answered"]
    /\ UNCHANGED <<online, wire, orphans, open, screenVars, mishaps>>

OrphanArrives(c) ==
    /\ c \in orphans
    /\ Persist(c)
    /\ orphans' = orphans \ {c}
    /\ UNCHANGED <<online, wire, open, post, screenVars, mishaps>>

\* Without a socket the event is gone.
Publish(n) ==
    /\ n \in outbox
    /\ outbox' = outbox \ {n}
    /\ wire' = IF online THEN wire \cup {n} ELSE wire
    /\ UNCHANGED <<history, orphans, online, open, post, screenVars, mishaps>>

\* The outbox delivers at least once.
PublishAgain(n) ==
    /\ n \in Real \ outbox /\ online /\ Mishap
    /\ wire' = wire \cup {n}
    /\ UNCHANGED <<serverVars, online, open, post, screenVars>>

\* GET messages: the newest PageSize rows below the cursor.
Page(before) ==
    {n \in Real : n < before /\ Cardinality({k \in Real : n <= k /\ k < before}) <= PageSize}

-----------------------------------------------------------------------------
(* Fetches *)

Smallest(S) == CHOOSE n \in S : \A k \in S : n <= k
Largest(S) == CHOOSE n \in S : \A k \in S : k <= n

StoredIds == {r.id : r \in {x \in cached : x.st = "stored"}}

\* Mutant: the newest sequence of the cache.
NewestCached == IF StoredIds = {} THEN 0 ELSE Largest(StoredIds)

\* The end of the first unbroken run of the cache.
CompleteThrough ==
    IF StoredIds = {} THEN 0
    ELSE Largest({n \in StoredIds : Smallest(StoredIds) .. n \subseteq StoredIds})

NewFetch(kind, before) ==
    [kind |-> kind, latest |-> CompleteThrough, held |-> {r.id : r \in cached} \ {0},
     before |-> before, got |-> {}, fresh |-> TRUE, done |-> FALSE]

Loading == \E f \in fetches : f.kind = "load"

LoadConversation == ~loaded /\ ~Loading /\ fetches' = fetches \cup {NewFetch("load", Beyond)}

\* The warming of the cache on the phone, or retryLoad.
Prefetch ==
    /\ LoadConversation
    /\ UNCHANGED <<serverVars, online, wire, open, post, cached, loaded, hasOlder, stale,
                   mishaps>>

OpenConversation ==
    /\ ~open /\ open' = TRUE
    /\ LoadConversation \/ ((loaded \/ Loading) /\ UNCHANGED fetches)
    /\ UNCHANGED <<serverVars, online, wire, post, cached, loaded, hasOlder, stale, mishaps>>

CloseConversation ==
    /\ open /\ open' = FALSE
    /\ UNCHANGED <<serverVars, online, wire, post, screenVars, mishaps>>

\* The reloaded sidebar names a last message that the cache does not have (bound: one
\* reload of this kind at a time).
SidebarMoved ==
    /\ open /\ ~Loading /\ (cached # {} \/ loaded)
    /\ Real \ {r.id : r \in cached} # {}
    /\ ~ \E f \in fetches : f.kind = "reload"
    /\ fetches' = fetches \cup {NewFetch("reload", Beyond)}
    /\ UNCHANGED <<serverVars, online, wire, open, post, cached, loaded, hasOlder, stale,
                   mishaps>>

LoadOlder ==
    /\ loaded /\ hasOlder # "no" /\ cached # {}
    /\ ~ \E f \in fetches : f.kind = "older"
    /\ LET oldest == IF StoredIds = {} THEN Beyond ELSE Smallest(StoredIds)
       IN  IF oldest <= 1
           THEN hasOlder' = "no" /\ UNCHANGED fetches
           ELSE fetches' = fetches \cup {NewFetch("older", oldest)} /\ UNCHANGED hasOlder
    /\ UNCHANGED <<serverVars, online, wire, open, post, cached, loaded, stale, mishaps>>

\* One request; pages are bridged down to what the cache is complete through.
ReadPage(f) ==
    /\ ~f.done
    /\ LET page  == Page(f.before)
           first == f.before = Beyond \/ f.kind = "older"
           more  == /\ f.kind # "older" /\ f.latest # 0 /\ Cardinality(page) = PageSize
                    /\ Smallest(page) > f.latest
           new   == IF first THEN page ELSE {n \in page : n \notin f.held /\ n > f.latest}
       IN  fetches' = (fetches \ {f}) \cup
             {[f EXCEPT !.got = @ \cup new, !.done = ~more,
                        !.before = IF more THEN Smallest(page) ELSE @]}
    /\ UNCHANGED <<serverVars, online, wire, open, post, cached, loaded, hasOlder, stale,
                   mishaps>>

Stored(n) == [id |-> n, client |-> IF history[n] = Other THEN NoClient ELSE history[n],
              st |-> "stored"]

\* mergeFetchedMessages: rows that the snapshot lacks are kept.
Merged(got) ==
    {Stored(n) : n \in got} \cup
    {r \in cached : r.id \notin got /\ r.client \notin {history[n] : n \in got} \ {Other}}

FullPage(f) == IF Cardinality(f.got) >= PageSize THEN "yes" ELSE "no"

OlderAfter(f) == IF f.kind = "reload" /\ hasOlder # "unknown" THEN hasOlder ELSE FullPage(f)

\* What began with an empty cache, or before the last hello, builds no bridge to the
\* rows that came meanwhile.
Unbridged(f) ==
    /\ f.kind # "older" /\ (f.latest = 0 \/ ~f.fresh)
    /\ \E m \in Real \ (StoredIds \cup f.got), a, b \in StoredIds \cup f.got : a < m /\ m < b

FetchAnswers(f) ==
    /\ f.done
    /\ fetches' = {[g EXCEPT !.fresh = @ /\ ~Unbridged(f)] : g \in fetches \ {f}}
    /\ cached' = Merged(f.got)
    /\ loaded' = (loaded \/ f.kind # "older")
    /\ hasOlder' = OlderAfter(f)
    /\ stale' = IF f.kind = "older" THEN stale
                ELSE Unbridged(f) \/ (IF f.fresh THEN FALSE ELSE stale \/ ~loaded)
    /\ UNCHANGED <<serverVars, online, wire, open, post, mishaps>>

\* Only logged: a conversation that is loaded stays so when its reload fails.
FetchFails(f) ==
    /\ Mishap
    /\ fetches' = fetches \ {f}
    /\ stale' = (stale \/ (f.kind = "reload" /\ loaded))
    /\ UNCHANGED <<serverVars, online, wire, open, post, cached, loaded, hasOlder>>

-----------------------------------------------------------------------------
(* The socket *)

SocketCloses ==
    /\ online /\ Mishap
    /\ online' = FALSE /\ wire' = {}
    /\ UNCHANGED <<serverVars, open, post, screenVars>>

\* Events are not queued while the socket is away: the open conversation is fetched
\* again, the others when they are viewed.
Hello ==
    /\ ~online
    /\ online' = TRUE
    /\ loaded' = (loaded /\ open)
    /\ fetches' = {[f EXCEPT !.fresh = @ /\ f.got = {} /\ ~f.done] : f \in fetches}
                  \cup (IF open THEN {NewFetch("reload", Beyond)} ELSE {})
    /\ UNCHANGED <<serverVars, wire, open, post, cached, hasOlder, stale, mishaps>>

\* The rows an event stands for: by id, or the bubble with its client id.
Prior(n) ==
    {r \in cached : \/ r.id = n
                  \/ /\ r.client \in ClientIds /\ r.client = history[n]
                     /\ ~ \E x \in cached : x.id = n /\ x.st = "stored"}

\* An event that comes so late, or again, that it is an island below the oldest row.
Late(n) == StoredIds # {} /\ \E m \in Real : n < m /\ m < Smallest(StoredIds)

MessageNew(n) ==
    /\ n \in wire
    /\ wire' = wire \ {n}
    /\ cached' = (cached \ Prior(n)) \cup {Stored(n)}
    /\ fetches' = {[f EXCEPT !.fresh = @ /\ ~Late(n)] : f \in fetches}
    /\ stale' = (stale \/ Late(n))
    /\ UNCHANGED <<serverVars, online, open, post, loaded, hasOlder, mishaps>>

-----------------------------------------------------------------------------
(* Sending *)

Bubble(c) == {r \in cached : r.id = 0 /\ r.client = c}

Settled(c, st) == {[r EXCEPT !.st = st] : r \in Bubble(c)}

SendUserMessage(c) ==
    /\ post[c] = "unused"
    /\ cached' = cached \cup {[id |-> 0, client |-> c, st |-> "pending"]}
    /\ post' = [post EXCEPT ![c] = "asked"]
    /\ UNCHANGED <<serverVars, online, wire, open, loaded, hasOlder, fetches, stale, mishaps>>

\* The bubble takes the real id, or goes when the echo was faster.
PostAnswers(c) ==
    /\ post[c] = "answered"
    /\ post' = [post EXCEPT ![c] = "idle"]
    /\ \E n \in Real :
         /\ history[n] = c
         /\ cached' = (cached \ Bubble(c)) \cup
                    (IF \E r \in cached : r.id = n THEN {}
                     ELSE {[r EXCEPT !.id = n, !.st = "sent"] : r \in Bubble(c)})
    /\ UNCHANGED <<serverVars, online, wire, open, loaded, hasOlder, fetches, stale, mishaps>>

\* A 4xx is definite.
PostRejected(c) ==
    /\ post[c] = "asked" /\ Mishap
    /\ post' = [post EXCEPT ![c] = "idle"]
    /\ cached' = (cached \ Bubble(c)) \cup Settled(c, "failed")
    /\ UNCHANGED <<serverVars, online, wire, open, loaded, hasOlder, fetches, stale>>

\* No answer, or a 5xx: the message may be stored, or be stored later.
PostUnconfirmed(c) ==
    /\ post[c] \in {"asked", "answered"} /\ Mishap
    /\ post' = [post EXCEPT ![c] = "idle"]
    /\ orphans' = IF post[c] = "asked" THEN orphans \cup {c} ELSE orphans
    /\ cached' = (cached \ Bubble(c)) \cup Settled(c, "unconfirmed")
    /\ UNCHANGED <<history, outbox, online, wire, open, loaded, hasOlder, fetches, stale>>

Unsent(c) == \E r \in Bubble(c) : r.st \in {"failed", "unconfirmed"}

DiscardFailedMessage(c) ==
    /\ Unsent(c)
    /\ cached' = cached \ Bubble(c)
    /\ UNCHANGED <<serverVars, online, wire, open, post, loaded, hasOlder, fetches, stale, mishaps>>

RetryFailedMessage(c) ==
    /\ Unsent(c)
    /\ cached' = (cached \ Bubble(c)) \cup Settled(c, "pending")
    /\ post' = [post EXCEPT ![c] = "asked"]
    /\ UNCHANGED <<serverVars, online, wire, open, loaded, hasOlder, fetches, stale, mishaps>>

-----------------------------------------------------------------------------
StoreNext ==
    \/ OthersPost \/ InsertRollsBack
    \/ \E n \in Numbers : Publish(n) \/ PublishAgain(n) \/ MessageNew(n)
    \/ Prefetch \/ OpenConversation \/ CloseConversation \/ SidebarMoved \/ LoadOlder
    \/ \E f \in fetches : ReadPage(f) \/ FetchAnswers(f) \/ FetchFails(f)
    \/ SocketCloses \/ Hello
    \/ \E c \in ClientIds : \/ PostArrives(c) \/ OrphanArrives(c)
                            \/ SendUserMessage(c) \/ PostAnswers(c) \/ PostRejected(c)
                            \/ PostUnconfirmed(c) \/ DiscardFailedMessage(c)
                            \/ RetryFailedMessage(c)

StoreSpec == StoreInit /\ [][StoreNext]_storeVars

-----------------------------------------------------------------------------
(* Properties *)

\* The rows that show message n: under its number, or as a bubble with its client id.
Showing(n) == {r \in cached : r.id = n \/ (r.client \in ClientIds /\ r.client = history[n])}

\* It will come: published later, in an event or in an answer, or on the next hello or
\* opening.  What the code loses is excepted: a reload that failed, an answer from before
\* the last hello that was taken for the present, an event or an answer without a bridge
\* to the rows that came meanwhile.
OnItsWay(n) ==
    \/ n \in outbox \cup wire
    \/ ~online \/ ~loaded \/ stale
    \/ \E f \in fetches : f.kind # "older" /\ f.fresh

\* Older than all that is cached: that is for scrolling up.
Older(n) == StoredIds # {} /\ \A k \in StoredIds : n < k

\* Nobody sees a message twice, and nobody misses one for good, through outages, pages,
\* late echoes, answers that are older than the events and retries of a send (comments
\* of completeThrough, mergeFetchedMessages and applyEvent).
ShownOnce ==
    \A n \in Real : /\ Cardinality(Showing(n)) <= 1
                    /\ Showing(n) = {} => OnItsWay(n) \/ Older(n)
=============================================================================
