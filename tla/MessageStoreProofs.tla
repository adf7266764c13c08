------------------------- MODULE MessageStoreProofs -------------------------
(***************************************************************************)
(* Proofs about the message store of the client (MessageStore): whatever   *)
(* the page size, the sends and the mishaps, no message is shown twice and *)
(* none is missed for good.  The rows and the log are one half of the      *)
(* invariant, what each fetch has read so far is the other.                *)
(***************************************************************************)
EXTENDS MCReaders, AgentInboxProofs, FiniteSetTheorems, WellFoundedInduction, TLAPS

-----------------------------------------------------------------------------
(* Smallest, largest, pages *)

\* A nonempty set of natural numbers has a smallest element, and Smallest is it.
LEMMA SmallestFacts ==
    ASSUME NEW S \in SUBSET Nat, S # {}
    PROVE  Smallest(S) \in S /\ \A k \in S : Smallest(S) <= k
<1>1. PICK m \in S : \A k \in S : ~ (<<k, m>> \in OpToRel(<, Nat))
  <2>1. S \subseteq Nat
    OBVIOUS
  <2> QED
    BY <2>1, WFMin, NatLessThanWellFounded, Zenon
<1>2. \A k \in S : m <= k
  <2>1. TAKE k \in S
  <2>2. <<k, m>> \in OpToRel(<, Nat) <=> k < m
    <3>1. m \in Nat /\ k \in Nat
      OBVIOUS
    <3> QED
      BY <3>1, SMT DEF OpToRel
  <2>3. m \in Nat /\ k \in Nat
    OBVIOUS
  <2>4. ~ (k < m)
    BY <1>1, <2>2, Zenon
  <2> QED
    BY <2>3, <2>4
<1>3. \E n \in S : \A k \in S : n <= k
  BY <1>2
<1> QED
  BY <1>3, Zenon DEF Smallest

\* The same for the largest of a bounded set.
LEMMA LargestFacts ==
    ASSUME NEW S \in SUBSET Nat, NEW M \in Nat, \A k \in S : k <= M, S # {}
    PROVE  Largest(S) \in S /\ \A k \in S : k <= Largest(S)
<1> DEFINE T == {M - k : k \in S}
<1>1. T \in SUBSET Nat /\ T # {}
  <2>1. \A k \in S : k \in Nat /\ M - k \in Nat
    OBVIOUS
  <2>2. T \in SUBSET Nat
    BY <2>1
  <2>3. PICK k \in S : TRUE
    OBVIOUS
  <2>4. M - k \in T
    BY <2>3
  <2> QED
    BY <2>2, <2>4
<1> HIDE DEF T
<1>2. Smallest(T) \in T /\ \A k \in T : Smallest(T) <= k
  BY <1>1, SmallestFacts, Zenon
<1>3. PICK n \in S : Smallest(T) = M - n
  BY <1>2 DEF T
<1>4. \A k \in S : k <= n
  <2>1. TAKE k \in S
  <2>2. M - k \in T
    BY DEF T
  <2> QED
    BY <1>2, <1>3, <2>2
<1>5. \E m \in S : \A k \in S : k <= m
  BY <1>4
<1> QED
  BY <1>5, Zenon DEF Largest

\* The numbers of the log that have a row.
LEMMA RealFacts ==
    ASSUME StoreTypeOK
    PROVE  /\ Real \in SUBSET Numbers /\ Real \in SUBSET Nat
           /\ \A n \in Real : n <= Len(history) /\ history[n] \in ClientIds \cup {Other}
<1> QED
  BY StoreAssumption DEF StoreTypeOK, Real, Numbers

\* A page is the newest rows below its cursor without a gap, and one that is not full
\* holds all of them.
LEMMA PageFacts ==
    ASSUME StoreTypeOK, NEW b \in 1 .. Beyond
    PROVE  /\ Page(b) \in SUBSET Real
           /\ \A n \in Page(b) : n < b
           /\ \A n \in Page(b), m \in Real : n <= m /\ m < b => m \in Page(b)
           /\ Cardinality(Page(b)) # PageSize => \A n \in Real : n < b => n \in Page(b)
           /\ Page(b) = {} => Cardinality(Page(b)) # PageSize
           /\ IsFiniteSet(Page(b))
<1> DEFINE Above(n) == {k \in Real : n <= k /\ k < b}
<1>0. Real \in SUBSET Nat /\ \A n \in Real : n <= MaxLog
  BY RealFacts DEF Numbers
<1>1. MaxLog \in Nat /\ PageSize \in Nat /\ PageSize > 0 /\ b \in Nat
  BY StoreAssumption DEF Beyond
<1>2. IsFiniteSet(Real)
  BY <1>0, <1>1, FS_BoundedSetOfNaturals
<1>3. Page(b) = {n \in Real : n < b /\ Cardinality(Above(n)) <= PageSize}
  BY DEF Page
<1>4. \A n \in Nat : IsFiniteSet(Above(n)) /\ Cardinality(Above(n)) \in Nat
  <2>1. TAKE n \in Nat
  <2>2. Above(n) \in SUBSET Real
    OBVIOUS
  <2> HIDE DEF Above
  <2>3. IsFiniteSet(Above(n))
    BY <1>2, <2>2, FS_Subset
  <2> QED
    BY <2>3, FS_CardinalityType
<1>5. Page(b) \in SUBSET Real /\ \A n \in Page(b) : n < b
  BY <1>3
<1>6. IsFiniteSet(Page(b))
  BY <1>2, <1>5, FS_Subset
<1>7. \A n \in Page(b), m \in Real : n <= m /\ m < b => m \in Page(b)
  <2>1. SUFFICES ASSUME NEW n \in Page(b), NEW m \in Real, n <= m, m < b
                 PROVE  m \in Page(b)
    OBVIOUS
  <2>2. n \in Nat /\ m \in Nat
    BY <1>0, <1>5
  <2>0. Above(m) \in SUBSET Above(n)
    <3>1. \A k \in Real : m <= k /\ k < b => n <= k
      BY <1>0, <2>1, <2>2
    <3> QED
      BY <3>1
  <2>3. Cardinality(Above(n)) <= PageSize
    BY <1>3
  <2> HIDE DEF Above
  <2>4. Cardinality(Above(m)) <= Cardinality(Above(n))
    BY <1>4, <2>0, <2>2, FS_Subset
  <2>5. Cardinality(Above(m)) <= PageSize
    BY <1>1, <1>4, <2>2, <2>3, <2>4
  <2> QED
    BY <1>3, <2>1, <2>5
<1>8. Page(b) = {} => Cardinality(Page(b)) # PageSize
  BY <1>1, FS_EmptySet
<1>9. Cardinality(Page(b)) # PageSize => \A n \in Real : n < b => n \in Page(b)
  <2>1. SUFFICES ASSUME NEW n \in Real, n < b, n \notin Page(b)
                 PROVE  Cardinality(Page(b)) = PageSize
    OBVIOUS
  <2> DEFINE Out == {k \in Real : k < b /\ k \notin Page(b)}
  <2>2. Out \in SUBSET Nat /\ Out # {} /\ \A k \in Out : k <= MaxLog
    BY <1>0, <2>1
  <2>3. PICK m \in Out : \A k \in Out : k <= m
    <3> HIDE DEF Out
    <3> QED
      BY <1>1, <2>2, LargestFacts
  <2>4. m \in Real /\ m < b /\ m \notin Page(b) /\ m \in Nat
    BY <2>2
  <2>5. Above(m) = Page(b) \cup {m}
    <3>1. ASSUME NEW k \in Above(m), k # m
          PROVE  k \in Page(b)
      BY <1>0, <2>3, <2>4, <3>1
    <3>2. ASSUME NEW k \in Page(b)
          PROVE  k \in Above(m)
      <4>1. k \in Real /\ k < b
        BY <1>5
      <4>2. ~ (k <= m) => k \in Above(m)
        BY <1>0, <2>4, <4>1
      <4>3. k <= m => m \in Page(b)
        BY <1>7, <2>4
      <4> QED
        BY <2>4, <4>2, <4>3
    <3>3. m \in Above(m)
      BY <2>4
    <3> HIDE DEF Above
    <3> QED
      BY <3>1, <3>2, <3>3, Zenon
  <2>6. ~ (Cardinality(Above(m)) <= PageSize)
    BY <1>3, <2>4
  <2>7. Cardinality(Page(b)) \in Nat
    BY <1>6, FS_CardinalityType
  <2>8. Cardinality(Above(m)) = Cardinality(Page(b)) + 1
    BY <1>6, <2>4, <2>5, FS_AddElement
  <2>9. Cardinality(Page(b)) <= PageSize
    <3>1. CASE Page(b) = {}
      BY <1>1, <3>1, FS_EmptySet
    <3>2. CASE Page(b) # {}
      <4>1. Page(b) \in SUBSET Nat
        BY <1>0, <1>5
      <4>2. PICK p \in Page(b) : \A k \in Page(b) : p <= k
        BY <3>2, <4>1, SmallestFacts
      <4>3. Above(p) = Page(b)
        BY <1>0, <1>5, <1>7, <4>2
      <4>4. Cardinality(Above(p)) <= PageSize
        BY <1>3
      <4> QED
        BY <4>3, <4>4
    <3> QED
      BY <3>1, <3>2
  <2> QED
    BY <1>1, <2>6, <2>7, <2>8, <2>9
<1> QED
  BY <1>5, <1>6, <1>7, <1>8, <1>9

-----------------------------------------------------------------------------
(* Types *)

LEMMA StoredIdsType ==
    ASSUME StoreTypeOK
    PROVE  /\ StoredIds \in SUBSET (0 .. MaxLog) /\ StoredIds \in SUBSET Nat
           /\ \A n \in StoredIds : n <= MaxLog
<1>1. \A r \in cached : r.id \in 0 .. MaxLog
  BY DEF StoreTypeOK, CachedRow
<1>2. StoredIds \in SUBSET (0 .. MaxLog)
  BY <1>1 DEF StoredIds
<1> QED
  BY <1>2, StoreAssumption

\* What the cache is complete through is a row of it, and from its oldest row to there
\* no number is missing.
LEMMA CompleteThroughFacts ==
    ASSUME StoreTypeOK
    PROVE  /\ CompleteThrough \in 0 .. MaxLog
           /\ CompleteThrough # 0 => CompleteThrough \in StoredIds
           /\ CompleteThrough # 0 =>
                \A a \in StoredIds, n \in Nat :
                    a <= n /\ n <= CompleteThrough => n \in StoredIds
<1> DEFINE Run == {n \in StoredIds : Smallest(StoredIds) .. n \subseteq StoredIds}
<1>1. StoredIds \in SUBSET (0 .. MaxLog) /\ StoredIds \in SUBSET Nat /\ MaxLog \in Nat
  BY StoredIdsType, StoreAssumption
<1>2. CASE StoredIds = {}
  BY <1>1, <1>2 DEF CompleteThrough
<1>3. CASE StoredIds # {}
  <2>1. PICK s \in StoredIds : s = Smallest(StoredIds) /\ \A k \in StoredIds : s <= k
    BY <1>1, <1>3, SmallestFacts
  <2>2. s .. s \subseteq StoredIds
    BY <1>1, <2>1
  <2>3. Run \in SUBSET Nat /\ Run # {} /\ \A k \in Run : k <= MaxLog
    <3>1. Run \in SUBSET StoredIds
      OBVIOUS
    <3>2. s \in Run
      BY <2>1, <2>2
    <3> HIDE DEF Run
    <3> QED
      BY <1>1, <3>1, <3>2
  <2>4. CompleteThrough = Largest(Run)
    BY <1>3 DEF CompleteThrough
  <2>5. CompleteThrough \in Run
    <3> HIDE DEF Run
    <3> QED
      BY <1>1, <2>3, <2>4, LargestFacts
  <2>6. CompleteThrough \in StoredIds /\ s .. CompleteThrough \subseteq StoredIds
    BY <2>1, <2>5
  <2>7. ASSUME NEW a \in StoredIds, NEW n \in Nat, a <= n, n <= CompleteThrough
        PROVE  n \in StoredIds
    <3>1. s <= n /\ s \in Nat /\ CompleteThrough \in Nat
      BY <1>1, <2>1, <2>6, <2>7
    <3> QED
      BY <2>6, <2>7, <3>1
  <2> QED
    BY <1>1, <2>6, <2>7
<1> QED
  BY <1>2, <1>3

LEMMA NewFetchType ==
    ASSUME StoreTypeOK, NEW kind \in {"load", "reload", "older"}, NEW b \in 1 .. Beyond
    PROVE  NewFetch(kind, b) \in Fetch
<1>1. {r.id : r \in cached} \ {0} \in SUBSET Numbers
  <2>1. \A r \in cached : r.id \in 0 .. MaxLog
    BY DEF StoreTypeOK, CachedRow
  <2> QED
    BY <2>1 DEF Numbers
<1>2. CompleteThrough \in 0 .. MaxLog
  BY CompleteThroughFacts
<1> QED
  BY <1>1, <1>2 DEF NewFetch, Fetch

\* A fetch whose freshness is judged again.
LEMMA FreshField ==
    ASSUME NEW f \in Fetch, NEW b \in BOOLEAN, NEW h, h = [f EXCEPT !.fresh = b]
    PROVE  /\ h \in Fetch /\ h.kind = f.kind /\ h.latest = f.latest /\ h.held = f.held
           /\ h.fresh = b /\ h.got = f.got /\ h.done = f.done /\ h.before = f.before
<1> QED
  BY Zenon DEF Fetch

LEMMA StoredType ==
    ASSUME StoreTypeOK, NEW n \in Real
    PROVE  Stored(n) \in CachedRow /\ Stored(n).id = n /\ Stored(n).st = "stored"
           /\ Stored(n).client = IF history[n] = Other THEN NoClient ELSE history[n]
<1>1. n \in Numbers /\ history[n] \in ClientIds \cup {Other}
  BY RealFacts
<1>2. n \in 0 .. MaxLog
  BY <1>1, StoreAssumption DEF Numbers
<1> QED
  BY <1>1, <1>2 DEF Stored, CachedRow

\* The row of a bubble with another status, and with the number of its message.
LEMMA RowStatus ==
    ASSUME NEW r \in CachedRow,
           NEW st \in {"stored", "sent", "pending", "failed", "unconfirmed"}
    PROVE  /\ [r EXCEPT !.st = st] = [id |-> r.id, client |-> r.client, st |-> st]
           /\ [r EXCEPT !.st = st] \in CachedRow
<1>1. [r EXCEPT !.st = st] = [id |-> r.id, client |-> r.client, st |-> st]
  BY DEF CachedRow
<1>2. r.id \in 0 .. MaxLog /\ r.client \in ClientIds \cup {NoClient}
  BY DEF CachedRow
<1> QED
  BY <1>1, <1>2 DEF CachedRow

LEMMA RowNamed ==
    ASSUME NEW r \in CachedRow, NEW i \in 0 .. MaxLog
    PROVE  /\ [r EXCEPT !.id = i, !.st = "sent"]
                 = [id |-> i, client |-> r.client, st |-> "sent"]
           /\ [r EXCEPT !.id = i, !.st = "sent"] \in CachedRow
<1> DEFINE x == [r EXCEPT !.id = i]
<1>1. x = [id |-> i, client |-> r.client, st |-> r.st]
  BY DEF CachedRow
<1>2. [r EXCEPT !.id = i, !.st = "sent"] = [x EXCEPT !.st = "sent"]
  BY DEF CachedRow
<1>3. [x EXCEPT !.st = "sent"] = [id |-> i, client |-> r.client, st |-> "sent"]
  <2> HIDE DEF x
  <2> QED
    BY <1>1
<1>4. r.client \in ClientIds \cup {NoClient}
  BY DEF CachedRow
<1> QED
  BY <1>2, <1>3, <1>4 DEF CachedRow

\* What one request makes of fetch f: there is another page to ask for, or it is done.
Bridging(f) ==
    /\ f.kind # "older" /\ f.latest # 0 /\ Cardinality(Page(f.before)) = PageSize
    /\ Smallest(Page(f.before)) > f.latest

PageRead(f, h) ==
    /\ h.kind = f.kind /\ h.latest = f.latest /\ h.held = f.held /\ h.fresh = f.fresh
    /\ h.got = f.got \cup (IF f.before = Beyond \/ f.kind = "older" THEN Page(f.before)
                           ELSE {n \in Page(f.before) : n \notin f.held /\ n > f.latest})
    /\ Bridging(f) => /\ ~h.done /\ Page(f.before) # {}
                      /\ h.before = Smallest(Page(f.before))
                      /\ h.before \in Page(f.before)
    /\ ~Bridging(f) => h.done /\ h.before = f.before

LEMMA ReadPageFacts ==
    ASSUME StoreTypeOK, NEW f \in fetches, ReadPage(f)
    PROVE  \E h \in Fetch : PageRead(f, h) /\ fetches' = (fetches \ {f}) \cup {h}
<1> DEFINE page == Page(f.before)
           new  == IF f.before = Beyond \/ f.kind = "older" THEN page
                   ELSE {n \in page : n \notin f.held /\ n > f.latest}
           b    == IF Bridging(f) THEN Smallest(page) ELSE f.before
           h    == [f EXCEPT !.got = f.got \cup new, !.done = ~Bridging(f), !.before = b]
<1>1. f \in Fetch /\ f.got \in SUBSET Numbers /\ f.before \in 1 .. Beyond
  BY DEF StoreTypeOK, Fetch
<1>2. /\ page \in SUBSET Real /\ Real \in SUBSET Numbers /\ Real \in SUBSET Nat
      /\ page = {} => Cardinality(page) # PageSize
  BY <1>1, PageFacts, RealFacts
<1>3. Bridging(f) => page # {}
  BY <1>2 DEF Bridging
<1>4. Bridging(f) => b \in page /\ b = Smallest(page)
  <2>1. page \in SUBSET Nat
    BY <1>2
  <2> HIDE DEF page
  <2> QED
    BY <1>3, <2>1, SmallestFacts
<1>5. ~Bridging(f) => b = f.before
  OBVIOUS
<1>6. fetches' = (fetches \ {f}) \cup {h}
  BY Zenon DEF ReadPage, Bridging
<1>7. b \in 1 .. Beyond
  <2> HIDE DEF b, page
  <2>1. MaxLog \in Nat
    BY StoreAssumption
  <2>2. CASE Bridging(f)
    <3>1. b \in Numbers
      BY <1>2, <1>4, <2>2
    <3> QED
      BY <2>1, <3>1 DEF Numbers, Beyond
  <2> QED
    BY <1>1, <1>5, <2>2
<1>8. f.got \cup new \in SUBSET Numbers
  BY <1>1, <1>2
<1>9. (~Bridging(f)) \in BOOLEAN
  BY DEF Bridging
<1>10. /\ h \in Fetch /\ h.kind = f.kind /\ h.latest = f.latest /\ h.held = f.held
       /\ h.fresh = f.fresh /\ h.got = f.got \cup new /\ h.done = ~Bridging(f) /\ h.before = b
  <2> HIDE DEF b, new
  <2>1. h = [f EXCEPT !.got = f.got \cup new, !.done = ~Bridging(f), !.before = b]
    OBVIOUS
  <2> HIDE DEF h
  <2>2. PICK g \in SUBSET Numbers : g = f.got \cup new
    BY <1>8, Zenon
  <2>3. PICK d \in BOOLEAN : d = ~Bridging(f)
    BY <1>9, Zenon
  <2>4. PICK a \in 1 .. Beyond : a = b
    BY <1>7, Zenon
  <2>5. h = [f EXCEPT !.got = g, !.done = d, !.before = a]
    BY <2>1, <2>2, <2>3, <2>4, Zenon
  <2>6. /\ h \in Fetch /\ h.kind = f.kind /\ h.latest = f.latest /\ h.held = f.held
        /\ h.fresh = f.fresh /\ h.got = g /\ h.done = d /\ h.before = a
    BY <1>1, <2>5, Zenon DEF Fetch
  <2> QED
    BY <2>2, <2>3, <2>4, <2>6, Zenon
<1>11. PageRead(f, h)
  <2> HIDE DEF h, b
  <2> QED
    BY <1>3, <1>4, <1>5, <1>10 DEF PageRead
<1> QED
  BY <1>6, <1>10, <1>11, Zenon

\* Events and answers are about rows of the server.
Backed == outbox \cup wire \subseteq Real /\ \A f \in fetches : f.got \subseteq Real

\* The variables have their types after every step.
LEMMA StoreTypeStep ==
    ASSUME StoreTypeOK, Backed, [StoreNext]_storeVars
    PROVE  StoreTypeOK'
<1> USE DEF StoreTypeOK, serverVars, screenVars
<1>0. /\ MaxLog \in Nat /\ MaxMishaps \in Nat
      /\ Real \in SUBSET Numbers /\ Real \in SUBSET Nat
      /\ Other \notin ClientIds /\ Gap \notin ClientIds
  BY StoreAssumption, RealFacts DEF Other, Gap
<1>1. ASSUME NEW who \in ClientIds \cup {Other, Gap}, AppendMessage(who)
      PROVE  /\ history' \in Seq(ClientIds \cup {Other, Gap}) /\ Len(history') <= MaxLog
             /\ outbox' \in SUBSET Numbers
  <2>1. /\ history \in Seq(ClientIds \cup {Other, Gap}) /\ Len(history) \in Nat
        /\ Len(history) < MaxLog /\ history' = Append(history, who)
    BY <1>1 DEF AppendMessage
  <2>2. history' \in Seq(ClientIds \cup {Other, Gap}) /\ Len(history') = Len(history) + 1
    BY <2>1
  <2>3. Len(history') <= MaxLog /\ Len(history) + 1 \in Numbers
    BY <1>0, <2>1, <2>2 DEF Numbers
  <2>4. outbox' \subseteq outbox \cup {Len(history) + 1}
    BY <1>1 DEF AppendMessage
  <2> QED
    BY <2>2, <2>3, <2>4
<1>2. ASSUME NEW c \in ClientIds, Persist(c)
      PROVE  /\ history' \in Seq(ClientIds \cup {Other, Gap}) /\ Len(history') <= MaxLog
             /\ outbox' \in SUBSET Numbers
  BY <1>1, <1>2 DEF Persist
<1>3. ASSUME Mishap
      PROVE  mishaps' \in 0 .. MaxMishaps
  BY <1>0, <1>3 DEF Mishap
<1>4. CASE OthersPost
  BY <1>1, <1>4 DEF OthersPost
<1>5. CASE InsertRollsBack
  BY <1>1, <1>3, <1>5 DEF InsertRollsBack
<1>6. ASSUME NEW c \in ClientIds, PostArrives(c)
      PROVE  StoreTypeOK'
  BY <1>2, <1>6 DEF PostArrives
<1>7. ASSUME NEW c \in ClientIds, OrphanArrives(c)
      PROVE  StoreTypeOK'
  BY <1>2, <1>7 DEF OrphanArrives
<1>8. ASSUME NEW n \in Numbers, Publish(n)
      PROVE  StoreTypeOK'
  BY <1>8 DEF Publish
<1>9. ASSUME NEW n \in Numbers, PublishAgain(n)
      PROVE  StoreTypeOK'
  BY <1>3, <1>9 DEF PublishAgain
<1>10. \A k \in {"load", "reload", "older"}, b \in 1 .. Beyond : NewFetch(k, b) \in Fetch
  BY NewFetchType
<1>11. Beyond \in 1 .. Beyond
  BY <1>0 DEF Beyond
<1>12. LoadConversation => fetches' \in SUBSET Fetch
  BY <1>10, <1>11 DEF LoadConversation
<1>13. CASE Prefetch
  BY <1>12, <1>13 DEF Prefetch
<1>14. CASE OpenConversation
  BY <1>12, <1>14 DEF OpenConversation
<1>15. CASE CloseConversation
  BY <1>15 DEF CloseConversation
<1>16. CASE SidebarMoved
  BY <1>10, <1>11, <1>16 DEF SidebarMoved
<1>17. CASE LoadOlder
  <2> DEFINE oldest == IF StoredIds = {} THEN Beyond ELSE Smallest(StoredIds)
  <2>1. oldest \in 0 .. Beyond
    <3>1. StoredIds \in SUBSET (0 .. MaxLog) /\ StoredIds \in SUBSET Nat
      BY StoredIdsType
    <3>2. StoredIds # {} => Smallest(StoredIds) \in StoredIds
      BY <3>1, SmallestFacts
    <3>3. StoredIds # {} => oldest \in 0 .. MaxLog
      BY <3>1, <3>2
    <3>4. StoredIds = {} => oldest = Beyond
      OBVIOUS
    <3> HIDE DEF oldest
    <3> QED
      BY <1>0, <3>3, <3>4 DEF Beyond
  <2>2. IF oldest <= 1 THEN hasOlder' = "no" /\ UNCHANGED fetches
        ELSE fetches' = fetches \cup {NewFetch("older", oldest)} /\ UNCHANGED hasOlder
    BY <1>17 DEF LoadOlder
  <2> HIDE DEF oldest
  <2>3. fetches' \in SUBSET Fetch /\ hasOlder' \in {"unknown", "yes", "no"}
    BY <1>0, <1>10, <2>1, <2>2 DEF Beyond
  <2> QED
    BY <1>17, <2>3 DEF LoadOlder
<1>18. ASSUME NEW f \in fetches, ReadPage(f)
       PROVE  StoreTypeOK'
  <2>1. fetches' \in SUBSET Fetch
    BY <1>18, ReadPageFacts
  <2> QED
    BY <1>18, <2>1 DEF ReadPage
<1>19. \A g \in Fetch, b \in BOOLEAN : [g EXCEPT !.fresh = b] \in Fetch
  BY FreshField
<1>20. \A f \in fetches : f \in Fetch /\ f.fresh \in BOOLEAN /\ f.got \in SUBSET Numbers
  BY DEF Fetch
<1>21. ASSUME NEW f \in fetches, FetchAnswers(f)
       PROVE  StoreTypeOK'
  <2>1. \A n \in f.got : Stored(n) \in CachedRow
    BY StoredType DEF Backed
  <2>2. cached' \in SUBSET CachedRow
    BY <1>21, <2>1 DEF FetchAnswers, Merged
  <2>3. fetches' \in SUBSET Fetch
    BY <1>19, <1>20, <1>21 DEF FetchAnswers
  <2>4. hasOlder' \in {"unknown", "yes", "no"}
    BY <1>21 DEF FetchAnswers, OlderAfter, FullPage
  <2>5. loaded' \in BOOLEAN /\ stale' \in BOOLEAN
    BY <1>20, <1>21 DEF FetchAnswers, Unbridged
  <2>6. UNCHANGED <<serverVars, online, wire, open, post, mishaps>>
    BY <1>21 DEF FetchAnswers
  <2> QED
    BY <2>2, <2>3, <2>4, <2>5, <2>6
<1>22. ASSUME NEW f \in fetches, FetchFails(f)
       PROVE  StoreTypeOK'
  BY <1>3, <1>22 DEF FetchFails
<1>23. CASE SocketCloses
  BY <1>3, <1>23 DEF SocketCloses
<1>24. CASE Hello
  <2>1. fetches' \in SUBSET Fetch
    <3>1. \A f \in fetches : (f.fresh /\ f.got = {} /\ ~f.done) \in BOOLEAN
      OBVIOUS
    <3>2. \A f \in fetches : [f EXCEPT !.fresh = f.fresh /\ f.got = {} /\ ~f.done] \in Fetch
      BY <1>19, <1>20, <3>1
    <3>3. NewFetch("reload", Beyond) \in Fetch
      BY <1>10, <1>11
    <3>4. fetches' = {[f EXCEPT !.fresh = f.fresh /\ f.got = {} /\ ~f.done] : f \in fetches}
                     \cup (IF open THEN {NewFetch("reload", Beyond)} ELSE {})
      BY <1>24, Zenon DEF Hello
    <3> QED
      BY <3>2, <3>3, <3>4
  <2>2. loaded' \in BOOLEAN /\ online' \in BOOLEAN
    BY <1>24 DEF Hello
  <2>3. UNCHANGED <<serverVars, wire, open, post, cached, hasOlder, stale, mishaps>>
    BY <1>24 DEF Hello
  <2> QED
    BY <2>1, <2>2, <2>3
<1>25. ASSUME NEW n \in Numbers, MessageNew(n)
       PROVE  StoreTypeOK'
  <2>1. n \in Real
    BY <1>25 DEF MessageNew, Backed
  <2>2. cached' \in SUBSET CachedRow
    BY <1>25, <2>1, StoredType DEF MessageNew
  <2>3. fetches' \in SUBSET Fetch
    <3>1. \A f \in fetches : [f EXCEPT !.fresh = f.fresh /\ ~Late(n)] \in Fetch
      BY <1>19, <1>20
    <3>2. fetches' = {[f EXCEPT !.fresh = f.fresh /\ ~Late(n)] : f \in fetches}
      BY <1>25, Zenon DEF MessageNew
    <3> QED
      BY <3>1, <3>2
  <2>4. stale' \in BOOLEAN
    BY <1>25 DEF MessageNew, Late
  <2>5. /\ wire' = wire \ {n}
        /\ UNCHANGED <<serverVars, online, open, post, loaded, hasOlder, mishaps>>
    BY <1>25 DEF MessageNew
  <2> QED
    BY <2>2, <2>3, <2>4, <2>5
<1>26. \A c \in ClientIds : Bubble(c) \in SUBSET CachedRow
  BY DEF Bubble
<1>27. \A c \in ClientIds, st \in {"pending", "failed", "unconfirmed"} :
          Settled(c, st) \in SUBSET CachedRow
  <2>1. \A r \in CachedRow, st \in {"pending", "failed", "unconfirmed"} :
           [r EXCEPT !.st = st] \in CachedRow
    BY RowStatus
  <2> QED
    BY <1>26, <2>1 DEF Settled
<1>28. ASSUME NEW c \in ClientIds, SendUserMessage(c)
       PROVE  StoreTypeOK'
  <2>1. [id |-> 0, client |-> c, st |-> "pending"] \in CachedRow
    BY <1>0 DEF CachedRow
  <2> QED
    BY <1>28, <2>1 DEF SendUserMessage
<1>29. ASSUME NEW c \in ClientIds, PostAnswers(c)
       PROVE  StoreTypeOK'
  <2>1. PICK n \in Real :
           cached' = (cached \ Bubble(c)) \cup
                     (IF \E r \in cached : r.id = n THEN {}
                      ELSE {[r EXCEPT !.id = n, !.st = "sent"] : r \in Bubble(c)})
    BY <1>29 DEF PostAnswers
  <2>2. n \in 0 .. MaxLog
    BY <1>0 DEF Numbers
  <2>3. \A r \in Bubble(c) : [r EXCEPT !.id = n, !.st = "sent"] \in CachedRow
    BY <1>26, <2>2, RowNamed
  <2>4. cached' \in SUBSET CachedRow
    BY <2>1, <2>3
  <2> QED
    BY <1>29, <2>4 DEF PostAnswers
<1>30. ASSUME NEW c \in ClientIds, PostRejected(c)
       PROVE  StoreTypeOK'
  BY <1>3, <1>27, <1>30 DEF PostRejected
<1>31. ASSUME NEW c \in ClientIds, PostUnconfirmed(c)
       PROVE  StoreTypeOK'
  BY <1>3, <1>27, <1>31 DEF PostUnconfirmed
<1>32. ASSUME NEW c \in ClientIds, DiscardFailedMessage(c)
       PROVE  StoreTypeOK'
  BY <1>32 DEF DiscardFailedMessage
<1>33. ASSUME NEW c \in ClientIds, RetryFailedMessage(c)
       PROVE  StoreTypeOK'
  BY <1>27, <1>33 DEF RetryFailedMessage
<1>34. CASE UNCHANGED storeVars
  BY <1>34 DEF storeVars
<1> QED
  BY <1>4, <1>5, <1>6, <1>7, <1>8, <1>9, <1>13, <1>14, <1>15, <1>16, <1>17, <1>18, <1>21,
     <1>22, <1>23, <1>24, <1>25, <1>28, <1>29, <1>30, <1>31, <1>32, <1>33, <1>34
     DEF StoreNext

-----------------------------------------------------------------------------
(* Rows: one for each message, and each says whose it is *)

Ids == {r.id : r \in cached} \ {0}

Author(n) == IF history[n] = Other THEN NoClient ELSE history[n]

\* A bubble is of a send of this client; a row with a number is of that message.
RowOK(r) ==
    IF r.id = 0 THEN r.client \in ClientIds /\ r.st \in {"pending", "failed", "unconfirmed"}
    ELSE r.id \in Real /\ r.client = Author(r.id) /\ r.st \in {"stored", "sent"}

Same(r, s) == (r.id = s.id /\ r.id # 0) \/ (r.client = s.client /\ r.client \in ClientIds)

OneRow == \A r, s \in cached : Same(r, s) => r = s

\* The server stores a send once.
Idempotent == \A m, n \in Real : history[m] = history[n] /\ history[m] \in ClientIds => m = n

\* A send that was not made left no trace.
Untouched(c) == /\ \A r \in cached : r.client # c
                /\ c \notin orphans
                /\ \A n \in Real : history[n] # c

Unused == \A c \in ClientIds : post[c] = "unused" => Untouched(c)

RowsFit == /\ StoreTypeOK /\ Backed
           /\ \A r \in cached : RowOK(r)
           /\ OneRow /\ Idempotent /\ Unused

LEMMA Names == /\ Other \notin ClientIds /\ Gap \notin ClientIds /\ NoClient \notin ClientIds
               /\ Other # Gap /\ Other # NoClient /\ Gap # NoClient
<1> QED
  BY StoreAssumption DEF Other, Gap, NoClient

\* Who wrote a message is a client id exactly if the log names it.
LEMMA AuthorFacts ==
    ASSUME StoreTypeOK, NEW n \in Real
    PROVE  /\ Author(n) \in ClientIds \cup {NoClient}
           /\ \A c \in ClientIds : Author(n) = c <=> history[n] = c
<1> QED
  BY RealFacts, Names DEF Author

\* A new number at the end of the log: what was there stays, and a message is to be
\* published.
LEMMA AppendFacts ==
    ASSUME StoreTypeOK, Backed, NEW who \in ClientIds \cup {Other, Gap}, AppendMessage(who)
    PROVE  /\ \A n \in Real : n \in Real' /\ history'[n] = history[n]
           /\ \A n \in Real' : \/ n \in Real
                               \/ n \in outbox' /\ history'[n] = who /\ \A m \in Real : m < n
           /\ outbox \subseteq outbox' /\ outbox' \subseteq Real'
<1> DEFINE new == Len(history) + 1
<1>1. /\ history \in Seq(ClientIds \cup {Other, Gap})
      /\ history' = Append(history, who)
      /\ outbox' = IF who = Gap THEN outbox ELSE outbox \cup {new}
  BY DEF StoreTypeOK, AppendMessage
<1>2. Len(history) \in Nat /\ DOMAIN history = 1 .. Len(history)
  BY <1>1
<1>3. /\ DOMAIN history' = 1 .. new /\ history'[new] = who
      /\ \A n \in DOMAIN history : n \in DOMAIN history' /\ history'[n] = history[n]
  BY <1>1
<1>4. \A n \in Real : n \in Real' /\ history'[n] = history[n] /\ n < new
  BY <1>2, <1>3 DEF Real
<1>5. \A n \in Real' : n \in Real \/ (n = new /\ who # Gap)
  BY <1>2, <1>3 DEF Real
<1>6. who # Gap => new \in Real'
  BY <1>2, <1>3 DEF Real
<1>7. outbox \subseteq Real
  BY DEF Backed
<1> HIDE DEF new
<1> QED
  BY <1>1, <1>3, <1>4, <1>5, <1>6, <1>7

LEMMA RowsAppend ==
    ASSUME RowsFit, NEW who \in ClientIds \cup {Other, Gap}, AppendMessage(who),
           UNCHANGED <<cached, wire, fetches>>,
           who \in ClientIds => (\A n \in Real : history[n] # who) /\ post'[who] # "unused",
           \A c \in ClientIds : post'[c] = "unused" => post[c] = "unused",
           orphans' \subseteq orphans, StoreTypeOK'
    PROVE  RowsFit'
<1>1. /\ \A n \in Real : n \in Real' /\ history'[n] = history[n]
      /\ \A n \in Real' : n \in Real \/ history'[n] = who
      /\ \A m, n \in Real' : m \in Real \/ n \in Real \/ m = n
      /\ outbox' \subseteq Real'
  <2>1. Real' \in SUBSET Nat
    BY RealFacts, StoreAssumption DEF StoreTypeOK, Real, Numbers
  <2>2. /\ \A n \in Real : n \in Real' /\ history'[n] = history[n]
        /\ \A n \in Real' : n \in Real \/ history'[n] = who
        /\ outbox' \subseteq Real'
    BY AppendFacts DEF RowsFit
  <2>3. ASSUME NEW m \in Real', NEW n \in Real', m \notin Real, n \notin Real
        PROVE  m = n
    BY <2>3 DEF RowsFit, StoreTypeOK, Real, AppendMessage
  <2> QED
    BY <2>2, <2>3
<1>2. Backed'
  BY <1>1 DEF RowsFit, Backed
<1>3. \A r \in cached' : RowOK(r)'
  BY <1>1 DEF RowsFit, RowOK, Author
<1>4. OneRow'
  BY DEF RowsFit, OneRow, Same
<1>5. Idempotent'
  BY <1>1 DEF RowsFit, Idempotent
<1>6. Unused'
  BY <1>1 DEF RowsFit, Unused, Untouched
<1> QED
  BY <1>2, <1>3, <1>4, <1>5, <1>6 DEF RowsFit

\* The cache takes in messages G: their rows come in, and what stood for them goes.
Remain(G) == {r \in cached : /\ r.id \notin G
                             /\ ~ (r.client \in ClientIds /\ \E n \in G : r.client = history[n])}

TakesIn(G) == cached' = {Stored(n) : n \in G} \cup Remain(G)

LEMMA MergedTakesIn ==
    ASSUME StoreTypeOK, NEW G \in SUBSET Real
    PROVE  Merged(G) = {Stored(n) : n \in G} \cup Remain(G)
<1>1. \A r \in cached :
         r.client \in {history[n] : n \in G} \ {Other}
           <=> r.client \in ClientIds /\ \E n \in G : r.client = history[n]
  <2>1. \A r \in cached : r.client \in ClientIds \cup {NoClient}
    BY DEF StoreTypeOK, CachedRow
  <2>2. \A n \in G : history[n] \in ClientIds \cup {Other}
    BY RealFacts
  <2> QED
    BY <2>1, <2>2, Names
<1> QED
  BY <1>1, Zenon DEF Merged, Remain

LEMMA EventTakesIn ==
    ASSUME RowsFit, NEW n \in Real, cached' = (cached \ Prior(n)) \cup {Stored(n)}
    PROVE  TakesIn({n})
<1>1. \A x \in cached : x.id = n => x.client = Author(n)
  <2>1. 0 \notin Real
    BY RealFacts, StoreAssumption DEF RowsFit, Numbers
  <2> QED
    BY <2>1 DEF RowsFit, RowOK
<1>2. \A r \in cached : r \in Prior(n) <=>
         r.id = n \/ (r.client \in ClientIds /\ r.client = history[n])
  <2>1. TAKE r \in cached
  <2>2. ASSUME r.client \in ClientIds, r.client = history[n],
               NEW x \in cached, x.id = n
        PROVE  r.id = n
    <3>1. x.client = r.client
      BY <1>1, <2>2, AuthorFacts DEF RowsFit
    <3>2. x = r
      BY <2>2, <3>1 DEF RowsFit, OneRow, Same
    <3> QED
      BY <2>2, <3>2
  <2> QED
    BY <2>2, Zenon DEF Prior
<1>3. cached \ Prior(n) = Remain({n})
  BY <1>2, Zenon DEF Remain
<1>4. {Stored(m) : m \in {n}} = {Stored(n)}
  OBVIOUS
<1> QED
  BY <1>3, <1>4 DEF TakesIn

\* The rows that a step of the cache leaves are one for each message.
LEMMA TakenIn ==
    ASSUME RowsFit, NEW G \in SUBSET Real, TakesIn(G), UNCHANGED history
    PROVE  /\ \A r \in cached' : RowOK(r)'
           /\ OneRow'
           /\ Ids' = Ids \cup G /\ StoredIds' = StoredIds \cup G
           /\ \A c \in ClientIds : (\A n \in Real : history[n] # c) /\ (\A r \in cached : r.client # c)
                => \A r \in cached' : r.client # c
<1>1. /\ Real' = Real /\ \A n : Author(n)' = Author(n)
      /\ 0 \notin Real
  BY RealFacts, StoreAssumption DEF Real, Author, Numbers, RowsFit
<1>2. \A n \in G : /\ Stored(n).id = n /\ Stored(n).client = Author(n)
                   /\ Stored(n).st = "stored"
  BY StoredType DEF RowsFit, Author
<1>3. \A r \in cached' : (\E n \in G : r = Stored(n)) \/ r \in Remain(G)
  BY DEF TakesIn
<1>4. /\ \A r \in Remain(G) : r \in cached /\ r.id \notin G
      /\ \A r \in Remain(G) : r.client \in ClientIds => \A n \in G : r.client # history[n]
  BY DEF Remain
<1>5. \A r \in cached' : RowOK(r)'
  BY <1>1, <1>2, <1>3, <1>4 DEF RowsFit, RowOK
<1>6. ASSUME NEW r \in cached', NEW s \in cached', Same(r, s)
      PROVE  r = s
  <2>1. CASE r \in Remain(G) /\ s \in Remain(G)
    BY <1>4, <1>6, <2>1 DEF RowsFit, OneRow
  <2>2. ASSUME NEW n \in G, r = Stored(n), s \in Remain(G)
        PROVE  FALSE
    <3>1. s.id # n /\ (s.client \in ClientIds => s.client # history[n])
      BY <1>4, <2>2
    <3>2. r.id = n /\ r.client = Author(n)
      BY <1>2, <2>2
    <3> QED
      BY <1>6, <3>1, <3>2, AuthorFacts DEF Same, RowsFit
  <2>3. ASSUME NEW n \in G, s = Stored(n), r \in Remain(G)
        PROVE  FALSE
    <3>1. r.id # n /\ (r.client \in ClientIds => r.client # history[n])
      BY <1>4, <2>3
    <3>2. s.id = n /\ s.client = Author(n)
      BY <1>2, <2>3
    <3> QED
      BY <1>6, <3>1, <3>2, AuthorFacts DEF Same, RowsFit
  <2>4. ASSUME NEW n \in G, NEW m \in G, r = Stored(n), s = Stored(m)
        PROVE  r = s
    <3>1. r.id = n /\ r.client = Author(n) /\ s.id = m /\ s.client = Author(m)
      BY <1>2, <2>4
    <3>2. r.client = s.client /\ r.client \in ClientIds => history[n] = r.client /\ history[m] = r.client
      BY <3>1, AuthorFacts DEF RowsFit
    <3>3. n = m
      BY <1>6, <3>1, <3>2 DEF Same, RowsFit, Idempotent
    <3> QED
      BY <2>4, <3>3
  <2> QED
    BY <1>3, <2>1, <2>2, <2>3, <2>4
<1>7. OneRow'
  BY <1>6 DEF OneRow, Same
<1>8. ASSUME NEW r \in cached, r.id # 0
      PROVE  r \in Remain(G) \/ r.id \in G
  <2>1. SUFFICES ASSUME r.client \in ClientIds, NEW n \in G, r.client = history[n]
                 PROVE  r.id \in G
    BY Zenon DEF Remain
  <2>2. r.id \in Real /\ r.client = Author(r.id)
    BY <1>8 DEF RowsFit, RowOK
  <2>3. history[r.id] = r.client
    BY <2>1, <2>2, AuthorFacts DEF RowsFit
  <2>4. r.id = n
    BY <2>1, <2>2, <2>3 DEF RowsFit, Idempotent
  <2> QED
    BY <2>4
<1>9. \A n \in G : Stored(n) \in cached'
  BY DEF TakesIn
<1>10. \A r \in Remain(G) : r \in cached'
  BY DEF TakesIn
<1>11. Ids' = Ids \cup G
  <2>1. \A i : i \in Ids <=> i # 0 /\ \E r \in cached : r.id = i
    BY DEF Ids
  <2>2. \A i : i \in Ids' <=> i # 0 /\ \E r \in cached' : r.id = i
    BY DEF Ids
  <2> QED
    BY <1>1, <1>2, <1>3, <1>4, <1>8, <1>9, <1>10, <2>1, <2>2
<1>12. StoredIds' = StoredIds \cup G
  <2>1. \A i : i \in StoredIds <=> \E r \in cached : r.st = "stored" /\ r.id = i
    BY DEF StoredIds
  <2>2. \A i : i \in StoredIds' <=> \E r \in cached' : r.st = "stored" /\ r.id = i
    BY DEF StoredIds
  <2>3. \A r \in cached : r.st = "stored" => r.id # 0
    BY DEF RowsFit, RowOK
  <2> QED
    BY <1>1, <1>2, <1>3, <1>4, <1>8, <1>9, <1>10, <2>1, <2>2, <2>3
<1>13. ASSUME NEW c \in ClientIds, \A n \in Real : history[n] # c,
              \A r \in cached : r.client # c, NEW r \in cached'
       PROVE  r.client # c
  BY <1>2, <1>3, <1>4, <1>13, AuthorFacts DEF RowsFit
<1> QED
  BY <1>5, <1>7, <1>11, <1>12, <1>13

\* A bubble changes, goes, or takes the number of its message: the rows with a number
\* that the cache has are not touched.
LEMMA Rebubbled ==
    ASSUME RowsFit, NEW c \in ClientIds, NEW B,
           cached' = (cached \ Bubble(c)) \cup B, UNCHANGED history,
           \A b \in B : RowOK(b) /\ b.client = c /\ b.id \notin Ids /\ b.st # "stored",
           \A a, b \in B : a = b,
           B = {} \/ Bubble(c) # {} \/ \A r \in cached : r.client # c
    PROVE  /\ \A r \in cached' : RowOK(r)'
           /\ OneRow'
           /\ StoredIds' = StoredIds /\ Ids \subseteq Ids'
           /\ \A d \in ClientIds \ {c} :
                (\A r \in cached : r.client # d) => \A r \in cached' : r.client # d
<1>1. Real' = Real /\ \A n : Author(n)' = Author(n)
  BY DEF Real, Author
<1>2. \A r \in cached' : r \in B \/ (r \in cached /\ r \notin Bubble(c))
  OBVIOUS
<1>3. \A r \in cached' : RowOK(r)'
  BY <1>1, <1>2 DEF RowsFit, RowOK
<1>4. ASSUME NEW b \in B, NEW s \in cached, s \notin Bubble(c), Same(b, s) \/ Same(s, b)
      PROVE  FALSE
  <2>1. b.id # 0 => b.id # s.id
    BY DEF Ids
  <2>2. s.client = c
    BY <1>4, <2>1 DEF Same
  <2>3. PICK x \in Bubble(c) : TRUE
    BY <1>4, <2>2
  <2>4. x \in cached /\ x.client = c
    BY <2>3 DEF Bubble
  <2>5. x = s
    BY <2>2, <2>4 DEF RowsFit, OneRow, Same
  <2> QED
    BY <1>4, <2>3, <2>5
<1>5. OneRow'
  <2>1. ASSUME NEW r \in cached', NEW s \in cached', Same(r, s)
        PROVE  r = s
    BY <1>2, <1>4, <2>1 DEF RowsFit, OneRow
  <2> QED
    BY <2>1 DEF OneRow, Same
<1>6. \A r \in Bubble(c) : r.id = 0 /\ r \in cached /\ r.client = c /\ r.st # "stored"
  BY DEF Bubble, RowsFit, RowOK
<1>7. StoredIds' = StoredIds
  BY <1>6 DEF StoredIds
<1>8. Ids \subseteq Ids'
  BY <1>6 DEF Ids
<1>9. ASSUME NEW d \in ClientIds \ {c}, \A r \in cached : r.client # d, NEW r \in cached'
      PROVE  r.client # d
  BY <1>2, <1>9
<1> QED
  BY <1>3, <1>5, <1>7, <1>8, <1>9

\* The answer of the server, a rejection, a retry: what becomes of the bubble of c.
LEMMA SettledFacts ==
    ASSUME RowsFit, NEW c \in ClientIds, NEW st \in {"pending", "failed", "unconfirmed"}
    PROVE  /\ \A b \in Settled(c, st) :
                RowOK(b) /\ b.client = c /\ b.id \notin Ids /\ b.st # "stored"
           /\ \A a, b \in Settled(c, st) : a = b
           /\ Settled(c, st) = {} \/ Bubble(c) # {}
<1>1. \A r \in Bubble(c) : r \in cached /\ r.id = 0 /\ r.client = c /\ r \in CachedRow
  BY DEF Bubble, RowsFit, StoreTypeOK
<1>2. \A r \in Bubble(c) : [r EXCEPT !.st = st] = [id |-> r.id, client |-> r.client, st |-> st]
  BY <1>1, RowStatus
<1>3. \A b \in Settled(c, st) : b = [id |-> 0, client |-> c, st |-> st]
  BY <1>1, <1>2 DEF Settled
<1>4. \A b \in Settled(c, st) : b.id = 0 /\ b.client = c /\ b.st = st
  BY <1>3
<1>5. Settled(c, st) = {} \/ Bubble(c) # {}
  BY DEF Settled
<1> QED
  BY <1>3, <1>4, <1>5 DEF RowOK, Ids

\* What the sends leave as it is, for the clauses about a step of the bubble of c.
LEMMA BubbleStep ==
    ASSUME RowsFit, NEW c \in ClientIds, NEW B,
           cached' = (cached \ Bubble(c)) \cup B,
           \A b \in B : RowOK(b) /\ b.client = c /\ b.id \notin Ids /\ b.st # "stored",
           \A a, b \in B : a = b,
           B = {} \/ Bubble(c) # {} \/ \A r \in cached : r.client # c,
           UNCHANGED <<history, outbox, wire, fetches>>,
           post'[c] # "unused", \A d \in ClientIds \ {c} : post'[d] = post[d],
           orphans' \subseteq orphans \cup {c}, StoreTypeOK'
    PROVE  RowsFit' /\ StoredIds' = StoredIds /\ Ids \subseteq Ids'
<1>1. /\ \A r \in cached' : RowOK(r)'
      /\ OneRow'
      /\ StoredIds' = StoredIds /\ Ids \subseteq Ids'
      /\ \A d \in ClientIds \ {c} :
           (\A r \in cached : r.client # d) => \A r \in cached' : r.client # d
  BY Rebubbled
<1>2. Real' = Real
  BY DEF Real
<1>3. Backed' /\ Idempotent'
  BY <1>2 DEF RowsFit, Backed, Idempotent
<1>4. Unused'
  BY <1>1, <1>2 DEF RowsFit, Unused, Untouched
<1> QED
  BY <1>1, <1>3, <1>4 DEF RowsFit

LEMMA SendStep ==
    ASSUME RowsFit, StoreTypeOK', NEW c \in ClientIds,
           \/ SendUserMessage(c) \/ PostAnswers(c) \/ PostRejected(c) \/ PostUnconfirmed(c)
           \/ DiscardFailedMessage(c) \/ RetryFailedMessage(c)
    PROVE  /\ RowsFit' /\ StoredIds' = StoredIds /\ Ids \subseteq Ids'
           /\ UNCHANGED <<history, outbox, wire, fetches, online, loaded, hasOlder, stale>>
<1> USE DEF serverVars
<1>0. post \in [ClientIds -> {"unused", "asked", "answered", "idle"}]
  BY DEF RowsFit, StoreTypeOK
<1>1. \A r \in Bubble(c) : r \in cached /\ r.id = 0 /\ r.client = c /\ r \in CachedRow
  BY DEF Bubble, RowsFit, StoreTypeOK
<1>2. Bubble(c) # {} => post[c] # "unused"
  BY <1>1 DEF RowsFit, Unused, Untouched
<1>3. CASE SendUserMessage(c)
  <2> DEFINE b == [id |-> 0, client |-> c, st |-> "pending"]
  <2>1. \A r \in cached : r.client # c
    BY <1>3 DEF SendUserMessage, RowsFit, Unused, Untouched
  <2>2. Bubble(c) = {}
    BY <1>1, <2>1
  <2> DEFINE B == {b}
  <2>3. cached' = (cached \ Bubble(c)) \cup B
    BY <1>3, <2>2 DEF SendUserMessage
  <2>4. /\ \A x \in B : RowOK(x) /\ x.client = c /\ x.id \notin Ids /\ x.st # "stored"
        /\ \A a, x \in B : a = x
    <3>1. \A x \in B : x = b
      OBVIOUS
    <3>2. RowOK(b) /\ b.client = c /\ b.id \notin Ids /\ b.st # "stored"
      BY DEF RowOK, Ids
    <3> HIDE DEF b, B
    <3> QED
      BY <3>1, <3>2
  <2>5. /\ UNCHANGED <<history, outbox, wire, fetches, orphans, online, loaded, hasOlder, stale>>
        /\ post' = [post EXCEPT ![c] = "asked"]
    BY <1>3 DEF SendUserMessage
  <2>6. post'[c] # "unused" /\ \A d \in ClientIds \ {c} : post'[d] = post[d]
    BY <1>0, <2>5
  <2> HIDE DEF B
  <2>7. RowsFit' /\ StoredIds' = StoredIds /\ Ids \subseteq Ids'
    BY <2>1, <2>3, <2>4, <2>5, <2>6, BubbleStep
  <2> QED
    BY <2>5, <2>7
<1>4. CASE PostAnswers(c)
  <2>1. PICK n \in Real : /\ history[n] = c
                          /\ cached' = (cached \ Bubble(c)) \cup
                               (IF \E r \in cached : r.id = n THEN {}
                                ELSE {[r EXCEPT !.id = n, !.st = "sent"] : r \in Bubble(c)})
    BY <1>4 DEF PostAnswers
  <2> DEFINE B == IF \E r \in cached : r.id = n THEN {}
                  ELSE {[r EXCEPT !.id = n, !.st = "sent"] : r \in Bubble(c)}
  <2>2. n \in 0 .. MaxLog /\ n # 0
    BY RealFacts, StoreAssumption DEF RowsFit, Numbers
  <2>3. \A r \in Bubble(c) : [r EXCEPT !.id = n, !.st = "sent"]
                               = [id |-> n, client |-> c, st |-> "sent"]
    BY <1>1, <2>2, RowNamed
  <2>4. \A b \in B : b = [id |-> n, client |-> c, st |-> "sent"] /\ n \notin Ids
    BY <2>3 DEF Ids
  <2>5. \A b \in B : b.id = n /\ b.client = c /\ b.st = "sent" /\ n \notin Ids
    <3> HIDE DEF B
    <3> QED
      BY <2>4
  <2>6. Author(n) = c
    BY <2>1, AuthorFacts DEF RowsFit
  <2>7. B = {} \/ Bubble(c) # {}
    OBVIOUS
  <2>8. /\ UNCHANGED <<history, outbox, wire, fetches, orphans, online, loaded, hasOlder, stale>>
        /\ post' = [post EXCEPT ![c] = "idle"]
    BY <1>4 DEF PostAnswers
  <2>9. post'[c] # "unused" /\ \A d \in ClientIds \ {c} : post'[d] = post[d]
    BY <1>0, <2>8
  <2>10. cached' = (cached \ Bubble(c)) \cup B
    BY <2>1
  <2> HIDE DEF B
  <2>11. \A b \in B : RowOK(b) /\ b.client = c /\ b.id \notin Ids /\ b.st # "stored"
    BY <2>2, <2>5, <2>6 DEF RowOK
  <2>12. \A a, b \in B : a = b
    BY <2>4
  <2>13. RowsFit' /\ StoredIds' = StoredIds /\ Ids \subseteq Ids'
    BY <2>7, <2>8, <2>9, <2>10, <2>11, <2>12, BubbleStep
  <2> QED
    BY <2>8, <2>13
<1>5. ASSUME NEW st \in {"pending", "failed", "unconfirmed"},
             cached' = (cached \ Bubble(c)) \cup Settled(c, st),
             UNCHANGED <<history, outbox, wire, fetches>>,
             post'[c] # "unused", \A d \in ClientIds \ {c} : post'[d] = post[d],
             orphans' \subseteq orphans \cup {c}
      PROVE  RowsFit' /\ StoredIds' = StoredIds /\ Ids \subseteq Ids'
  <2>1. PICK B : B = Settled(c, st)
    OBVIOUS
  <2>2. /\ \A b \in B : RowOK(b) /\ b.client = c /\ b.id \notin Ids /\ b.st # "stored"
        /\ \A a, b \in B : a = b
        /\ B = {} \/ Bubble(c) # {}
    BY <2>1, SettledFacts, Zenon
  <2>3. cached' = (cached \ Bubble(c)) \cup B
    BY <1>5, <2>1
  <2> QED
    BY <1>5, <2>2, <2>3, BubbleStep
<1>6. CASE PostRejected(c)
  <2>1. /\ UNCHANGED <<history, outbox, wire, fetches, orphans, online, loaded, hasOlder, stale>>
        /\ post' = [post EXCEPT ![c] = "idle"]
        /\ cached' = (cached \ Bubble(c)) \cup Settled(c, "failed")
    BY <1>6 DEF PostRejected
  <2>2. post'[c] # "unused" /\ \A d \in ClientIds \ {c} : post'[d] = post[d]
    BY <1>0, <2>1
  <2> QED
    BY <1>5, <2>1, <2>2
<1>7. CASE PostUnconfirmed(c)
  <2>1. /\ UNCHANGED <<history, outbox, wire, fetches, online, loaded, hasOlder, stale>>
        /\ post' = [post EXCEPT ![c] = "idle"] /\ orphans' \subseteq orphans \cup {c}
        /\ cached' = (cached \ Bubble(c)) \cup Settled(c, "unconfirmed")
    BY <1>7 DEF PostUnconfirmed
  <2>2. post'[c] # "unused" /\ \A d \in ClientIds \ {c} : post'[d] = post[d]
    BY <1>0, <2>1
  <2> QED
    BY <1>5, <2>1, <2>2
<1>8. CASE DiscardFailedMessage(c)
  <2> DEFINE B == {}
  <2>1. /\ UNCHANGED <<history, outbox, wire, fetches, orphans, online, loaded, hasOlder, stale, post>>
        /\ cached' = (cached \ Bubble(c)) \cup B
    BY <1>8 DEF DiscardFailedMessage
  <2>2. post'[c] # "unused" /\ \A d \in ClientIds \ {c} : post'[d] = post[d]
    BY <1>2, <1>8, <2>1 DEF DiscardFailedMessage, Unsent
  <2>0. \A x : x \notin B
    OBVIOUS
  <2> HIDE DEF B
  <2>3. RowsFit' /\ StoredIds' = StoredIds /\ Ids \subseteq Ids'
    BY <2>0, <2>1, <2>2, BubbleStep
  <2> QED
    BY <2>1, <2>3
<1>9. CASE RetryFailedMessage(c)
  <2>1. /\ UNCHANGED <<history, outbox, wire, fetches, orphans, online, loaded, hasOlder, stale>>
        /\ post' = [post EXCEPT ![c] = "asked"]
        /\ cached' = (cached \ Bubble(c)) \cup Settled(c, "pending")
    BY <1>9 DEF RetryFailedMessage
  <2>2. post'[c] # "unused" /\ \A d \in ClientIds \ {c} : post'[d] = post[d]
    BY <1>0, <2>1
  <2> QED
    BY <1>5, <2>1, <2>2
<1> QED
  BY <1>3, <1>4, <1>6, <1>7, <1>8, <1>9

\* What the screen shows or is told of without another request.
Coming == Ids \cup outbox \cup wire

\* A step that no fetch has to hear of: the log grows, events are published, a send goes on.
Quiet ==
    /\ UNCHANGED <<fetches, loaded, hasOlder, stale>>
    /\ StoredIds' = StoredIds /\ Ids \subseteq Ids'
    /\ Real \subseteq Real'
    /\ \A n \in Real' : n \in Real \/ (n \in outbox' /\ \A m \in Real : m < n)
    /\ online' => online /\ Coming \subseteq Coming'

LEMMA LogStep ==
    ASSUME RowsFit, StoreTypeOK',
           \/ OthersPost \/ InsertRollsBack
           \/ \E c \in ClientIds : PostArrives(c) \/ OrphanArrives(c)
    PROVE  RowsFit' /\ Quiet
<1> USE DEF screenVars
<1>0. post \in [ClientIds -> {"unused", "asked", "answered", "idle"}]
  BY DEF RowsFit, StoreTypeOK
<1> DEFINE Adds(who) ==
        /\ AppendMessage(who)
        /\ who \in ClientIds => (\A n \in Real : history[n] # who) /\ post'[who] # "unused"
        /\ \A c \in ClientIds : post'[c] = "unused" => post[c] = "unused"
        /\ orphans' \subseteq orphans
        /\ UNCHANGED <<cached, wire, fetches, loaded, hasOlder, stale, online>>
<1>1. \E who \in ClientIds \cup {Other, Gap} : Adds(who)
  <2>1. CASE OthersPost
    BY <2>1, Names DEF OthersPost
  <2>2. CASE InsertRollsBack
    BY <2>2, Names DEF InsertRollsBack
  <2>3. ASSUME NEW c \in ClientIds, PostArrives(c)
        PROVE  \E who \in ClientIds \cup {Other, Gap} : Adds(who)
    <3>1. post'[c] # "unused" /\ \A d \in ClientIds : post'[d] = "unused" => post[d] = "unused"
      BY <1>0, <2>3 DEF PostArrives
    <3>2. /\ Persist(c)
          /\ UNCHANGED <<cached, wire, fetches, loaded, hasOlder, stale, online, orphans>>
      BY <2>3 DEF PostArrives
    <3> QED
      BY <3>1, <3>2, Names DEF Persist
  <2>4. ASSUME NEW c \in ClientIds, OrphanArrives(c)
        PROVE  \E who \in ClientIds \cup {Other, Gap} : Adds(who)
    <3>1. post[c] # "unused"
      BY <2>4 DEF OrphanArrives, RowsFit, Unused, Untouched
    <3>2. /\ Persist(c) /\ orphans' \subseteq orphans
          /\ UNCHANGED <<cached, wire, fetches, loaded, hasOlder, stale, online, post>>
      BY <2>4 DEF OrphanArrives
    <3> QED
      BY <3>1, <3>2, Names DEF Persist
  <2> QED
    BY <2>1, <2>2, <2>3, <2>4
<1>2. PICK who \in ClientIds \cup {Other, Gap} : Adds(who)
  BY <1>1
<1>3. RowsFit'
  BY <1>2, RowsAppend
<1>4. /\ \A n \in Real : n \in Real' /\ history'[n] = history[n]
      /\ \A n \in Real' : \/ n \in Real
                          \/ n \in outbox' /\ history'[n] = who /\ \A m \in Real : m < n
      /\ outbox \subseteq outbox' /\ outbox' \subseteq Real'
  BY <1>2, AppendFacts DEF RowsFit
<1>5. Ids' = Ids /\ StoredIds' = StoredIds
  BY <1>2 DEF Ids, StoredIds
<1>6. Quiet
  BY <1>2, <1>4, <1>5 DEF Quiet, Coming
<1> QED
  BY <1>3, <1>6

\* A step that touches neither the log nor the cache.
LEMMA SameRows ==
    ASSUME RowsFit, StoreTypeOK', Backed', UNCHANGED <<history, cached, orphans, post>>
    PROVE  RowsFit' /\ Real' = Real /\ Ids' = Ids /\ StoredIds' = StoredIds
<1>1. Real' = Real /\ Ids' = Ids /\ StoredIds' = StoredIds /\ \A n : Author(n)' = Author(n)
  BY DEF Real, Ids, StoredIds, Author
<1>2. \A r \in cached' : RowOK(r)'
  BY <1>1 DEF RowsFit, RowOK
<1>3. OneRow' /\ Idempotent' /\ Unused'
  BY <1>1 DEF RowsFit, OneRow, Same, Idempotent, Unused, Untouched
<1> QED
  BY <1>1, <1>2, <1>3 DEF RowsFit

LEMMA WireStep ==
    ASSUME RowsFit, StoreTypeOK',
           \/ \E n \in Numbers : Publish(n) \/ PublishAgain(n)
           \/ CloseConversation \/ SocketCloses \/ UNCHANGED storeVars
    PROVE  RowsFit' /\ Quiet
<1> USE DEF screenVars, serverVars
<1> DEFINE Sent ==
        /\ UNCHANGED <<history, orphans, post, cached, fetches, loaded, hasOlder, stale>>
        /\ online' => online /\ outbox \cup wire \subseteq outbox' \cup wire'
        /\ outbox' \cup wire' \subseteq Real
<1>1. Sent
  <2>1. ASSUME NEW n \in Numbers, Publish(n)
        PROVE  Sent
    BY <2>1 DEF Publish, RowsFit, Backed
  <2>2. ASSUME NEW n \in Numbers, PublishAgain(n)
        PROVE  Sent
    BY <2>2 DEF PublishAgain, RowsFit, Backed
  <2>3. CASE CloseConversation
    BY <2>3 DEF CloseConversation, RowsFit, Backed
  <2>4. CASE SocketCloses
    BY <2>4 DEF SocketCloses, RowsFit, Backed
  <2>5. CASE UNCHANGED storeVars
    BY <2>5 DEF storeVars, RowsFit, Backed
  <2> QED
    BY <2>1, <2>2, <2>3, <2>4, <2>5
<1>2. Real' = Real
  BY <1>1 DEF Real
<1>3. Backed'
  BY <1>1, <1>2 DEF RowsFit, Backed
<1>4. RowsFit' /\ Ids' = Ids /\ StoredIds' = StoredIds
  BY <1>1, <1>3, SameRows
<1> HIDE DEF Sent
<1>5. Quiet
  BY <1>1, <1>2, <1>4 DEF Quiet, Coming, Sent
<1> QED
  BY <1>4, <1>5

LEMMA QuietSend ==
    ASSUME RowsFit, StoreTypeOK', NEW c \in ClientIds,
           \/ SendUserMessage(c) \/ PostAnswers(c) \/ PostRejected(c) \/ PostUnconfirmed(c)
           \/ DiscardFailedMessage(c) \/ RetryFailedMessage(c)
    PROVE  RowsFit' /\ Quiet
<1>1. /\ RowsFit' /\ StoredIds' = StoredIds /\ Ids \subseteq Ids'
      /\ UNCHANGED <<history, outbox, wire, fetches, online, loaded, hasOlder, stale>>
  BY SendStep
<1>2. Real' = Real
  BY <1>1 DEF Real
<1> QED
  BY <1>1, <1>2 DEF Quiet, Coming

-----------------------------------------------------------------------------
(* Fetches: what an answer will make the cache complete for *)

HasRead(f) == f.before # Beyond \/ f.done

InReach(f, n) == n \in f.got \cup Coming

\* The rows above a scroll upwards reach to the row it began at.
OlderOK(f) ==
    /\ f.before \in StoredIds
    /\ \A k \in f.got, n \in Real : k < n /\ n < f.before => n \in f.got

\* The cursor of a fetch that has not read begins at the top.
CursorOK(f) ==
    /\ f.before # Beyond => f.got # {} /\ (f.latest # 0 \/ f.done)
    /\ ~HasRead(f) => f.got = {}
    /\ f.held \subseteq Ids

\* What the cache was complete through stays a row without a hole under it, and the
\* pages have none below it.
BridgeOK(f) ==
    /\ f.latest # 0 => f.latest \in StoredIds
    /\ \A k \in f.got, n \in Real : k < n /\ n <= f.latest => n \in f.got
    /\ f.fresh /\ f.latest # 0 =>
         \A n \in Real, a \in StoredIds : a <= n /\ n <= f.latest => n \in StoredIds

\* Above its cursor nothing is missing that a fetch would have to bring, as long as no
\* event was lost since it began.
BroughtOK(f) ==
    /\ f.fresh /\ online /\ HasRead(f) /\ ~f.done => \A n \in Real : n >= f.before => InReach(f, n)
    /\ f.fresh /\ online /\ f.done /\ f.latest # 0 => \A n \in Real : n > f.latest => InReach(f, n)
    /\ f.fresh /\ online /\ f.done /\ f.latest = 0 =>
         \A n \in Real : (f.got = {} \/ \E k \in f.got : k < n) => InReach(f, n)

FetchOK(f) ==
    IF f.kind = "older" THEN OlderOK(f) ELSE CursorOK(f) /\ BridgeOK(f) /\ BroughtOK(f)

\* The same call, perhaps no longer fresh.
SameCall(f, g) ==
    /\ g.kind = f.kind /\ g.latest = f.latest /\ g.held = f.held /\ g.before = f.before
    /\ g.got = f.got /\ g.done = f.done /\ (g.fresh => f.fresh)

\* What every step but its own answer leaves of a fetch.
LEMMA FetchFrame ==
    ASSUME RowsFit, RowsFit', NEW f \in Fetch, NEW g \in Fetch, FetchOK(f), SameCall(f, g),
           f.got \subseteq Real, Ids \subseteq Ids', StoredIds \subseteq StoredIds',
           Real \subseteq Real',
           \A n \in Real' : n \in Real \/ (n \in outbox' /\ \A m \in Real : m < n),
           f.kind # "older" /\ g.fresh /\ online' /\ HasRead(f) =>
             online /\ Coming \subseteq Coming',
           f.kind # "older" /\ g.fresh /\ f.latest # 0 =>
             \A n \in Real, a \in StoredIds' :
                a \notin StoredIds /\ a <= n /\ n <= f.latest => n \in StoredIds'
    PROVE  FetchOK(g)'
<1>1. /\ Real \in SUBSET Nat /\ Real' \in SUBSET Nat
      /\ StoredIds \subseteq Real
  <2>1. /\ Real \in SUBSET Nat /\ StoredIds \subseteq Real
    BY RealFacts DEF RowsFit, RowOK, StoredIds
  <2>2. Real' \in SUBSET Nat
    BY RealFacts, StoreAssumption DEF RowsFit, StoreTypeOK, Real, Numbers
  <2> QED
    BY <2>1, <2>2
<1>2. f.latest \in Nat /\ f.before \in Nat /\ f.got \in SUBSET Nat
  <2>1. f.latest \in 0 .. MaxLog /\ f.before \in 1 .. Beyond
    BY DEF Fetch
  <2>2. MaxLog \in Nat
    BY StoreAssumption
  <2>3. f.latest \in Nat
    BY <2>1, <2>2
  <2>4. f.before \in Nat
    BY <2>1, <2>2 DEF Beyond
  <2> QED
    BY <1>1, <2>3, <2>4
<1>3. \A n \in Real' : n \in Real \/ (n \in Coming' /\ \A m \in Real : m < n)
  BY DEF Coming
<1>4. /\ g.kind = f.kind /\ g.latest = f.latest /\ g.held = f.held /\ g.before = f.before
      /\ g.got = f.got /\ g.done = f.done /\ (g.fresh => f.fresh)
  BY DEF SameCall
<1>5. CASE f.kind = "older"
  <2>1. OlderOK(f)
    BY <1>5 DEF FetchOK
  <2>2. f.before \in StoredIds'
    BY <2>1 DEF OlderOK
  <2>3. ASSUME NEW k \in f.got, NEW n \in Real', k < n, n < f.before
        PROVE  n \in f.got
    <3>1. f.before \in Real
      BY <1>1, <2>1 DEF OlderOK
    <3>2. n \in Real
      BY <1>1, <1>2, <1>3, <2>3, <3>1
    <3> QED
      BY <2>1, <2>3, <3>2 DEF OlderOK
  <2>4. OlderOK(g)'
    BY <1>4, <2>2, <2>3 DEF OlderOK
  <2> QED
    BY <1>4, <1>5, <2>4 DEF FetchOK
<1>6. CASE f.kind # "older"
  <2>1. CursorOK(f) /\ BridgeOK(f) /\ BroughtOK(f)
    BY <1>6 DEF FetchOK
  <2>2. CursorOK(g)'
    BY <1>4, <2>1 DEF CursorOK, HasRead
  <2>3. f.latest # 0 => f.latest \in Real /\ f.latest \in StoredIds'
    BY <1>1, <2>1 DEF BridgeOK
  <2>4. ASSUME NEW n \in Real', f.latest # 0, n <= f.latest
        PROVE  n \in Real
    BY <1>1, <1>2, <1>3, <2>3, <2>4
  <2>5. ASSUME NEW k \in f.got, NEW n \in Real', k < n, n <= f.latest
        PROVE  n \in f.got
    <3>1. f.latest # 0
      BY <1>1, <1>2, <2>5
    <3> QED
      BY <2>1, <2>4, <2>5, <3>1 DEF BridgeOK
  <2>6. ASSUME g.fresh, f.latest # 0, NEW n \in Real', NEW a \in StoredIds',
               a <= n, n <= f.latest
        PROVE  n \in StoredIds'
    <3>1. n \in Real
      BY <2>4, <2>6
    <3>2. CASE a \in StoredIds
      <4>1. n \in StoredIds
        BY <1>4, <2>1, <2>6, <3>1, <3>2 DEF BridgeOK
      <4> QED
        BY <4>1
    <3>3. CASE a \notin StoredIds
      BY <1>6, <2>6, <3>1, <3>3
    <3> QED
      BY <3>2, <3>3
  <2>7. BridgeOK(g)'
    BY <1>4, <2>3, <2>5, <2>6 DEF BridgeOK
  <2>8. ASSUME g.fresh, online', HasRead(f)
        PROVE  /\ f.fresh /\ online
               /\ \A n \in Real' : n \notin Real => InReach(g, n)'
               /\ \A n \in Real : InReach(f, n) => InReach(g, n)'
    BY <1>3, <1>4, <1>6, <2>8 DEF InReach
  <2>9. BroughtOK(g)'
    <3>1. ASSUME g.fresh, online', HasRead(f), ~f.done, NEW n \in Real', n >= f.before
          PROVE  InReach(g, n)'
      BY <2>1, <2>8, <3>1 DEF BroughtOK
    <3>2. ASSUME g.fresh, online', f.done, f.latest # 0, NEW n \in Real', n > f.latest
          PROVE  InReach(g, n)'
      BY <2>1, <2>8, <3>2 DEF BroughtOK, HasRead
    <3>3. ASSUME g.fresh, online', f.done, f.latest = 0, NEW n \in Real',
                 f.got = {} \/ \E k \in f.got : k < n
          PROVE  InReach(g, n)'
      BY <2>1, <2>8, <3>3 DEF BroughtOK, HasRead
    <3> QED
      BY <1>4, <3>1, <3>2, <3>3 DEF BroughtOK, HasRead
  <2> QED
    BY <1>4, <1>6, <2>2, <2>7, <2>9 DEF FetchOK
<1> QED
  BY <1>5, <1>6

\* A fetch that begins knows where the cache is complete.
LEMMA NewFetchOK ==
    ASSUME RowsFit, NEW kind \in {"load", "reload"}
    PROVE  FetchOK(NewFetch(kind, Beyond))
<1> DEFINE f == NewFetch(kind, Beyond)
<1>1. /\ f.kind = kind /\ f.latest = CompleteThrough /\ f.held = Ids /\ f.before = Beyond
      /\ f.got = {} /\ f.fresh = TRUE /\ f.done = FALSE
  BY DEF NewFetch, Ids
<1>2. Real \in SUBSET Nat
  BY RealFacts DEF RowsFit
<1>3. /\ CompleteThrough # 0 => CompleteThrough \in StoredIds
      /\ CompleteThrough # 0 =>
           \A n \in Real, a \in StoredIds : a <= n /\ n <= CompleteThrough => n \in StoredIds
  BY <1>2, CompleteThroughFacts DEF RowsFit
<1> HIDE DEF f
<1>4. CursorOK(f) /\ BridgeOK(f) /\ BroughtOK(f)
  BY <1>1, <1>3 DEF CursorOK, BridgeOK, BroughtOK, HasRead
<1>5. f.kind # "older"
  BY <1>1
<1> QED
  BY <1>4, <1>5 DEF FetchOK, f

LEMMA NewOlderOK ==
    ASSUME RowsFit, NEW b \in StoredIds
    PROVE  FetchOK(NewFetch("older", b))
<1> DEFINE f == NewFetch("older", b)
<1>1. f.kind = "older" /\ f.before = b /\ f.got = {}
  BY DEF NewFetch
<1> HIDE DEF f
<1>2. FetchOK(f)
  BY <1>1 DEF FetchOK, OlderOK
<1> QED
  BY <1>2 DEF f

\* One page more: the pages of a fetch stay without a gap down to its cursor.
LEMMA PageReadOK ==
    ASSUME RowsFit, NEW f \in fetches, ReadPage(f), FetchOK(f),
           NEW h \in Fetch, PageRead(f, h)
    PROVE  FetchOK(h) /\ h.got \subseteq Real
<1> DEFINE page == Page(f.before)
<1>0. /\ f \in Fetch /\ f.before \in 1 .. Beyond /\ f.latest \in 0 .. MaxLog /\ f.got \subseteq Real
      /\ Real \in SUBSET Numbers /\ Real \in SUBSET Nat /\ ~f.done
      /\ f.before \in Nat /\ f.latest \in Nat
      /\ \A n \in Real : n < Beyond
  <2>1. f \in Fetch /\ f.got \subseteq Real
    BY DEF RowsFit, StoreTypeOK, Backed
  <2>2. Real \in SUBSET Numbers /\ Real \in SUBSET Nat
    BY RealFacts DEF RowsFit
  <2>3. f.before \in 1 .. Beyond /\ f.latest \in 0 .. MaxLog
    BY <2>1 DEF Fetch
  <2>4. ~f.done
    BY DEF ReadPage
  <2>5. \A n \in Real : n < Beyond
    BY <2>2, StoreAssumption DEF Numbers, Beyond
  <2>6. f.before \in Nat /\ f.latest \in Nat
    <3>1. MaxLog \in Nat
      BY StoreAssumption
    <3>2. f.before \in Nat
      BY <2>3, <3>1 DEF Beyond
    <3> QED
      BY <2>3, <3>1, <3>2
  <2> QED
    BY <2>1, <2>2, <2>3, <2>4, <2>5, <2>6
<1>1. /\ page \subseteq Real /\ \A n \in page : n < f.before
      /\ \A n \in page, m \in Real : n <= m /\ m < f.before => m \in page
      /\ Cardinality(page) # PageSize => \A n \in Real : n < f.before => n \in page
      /\ page = {} => Cardinality(page) # PageSize
  BY <1>0, PageFacts DEF RowsFit
<1>2. page # {} => Smallest(page) \in page /\ \A k \in page : Smallest(page) <= k
  <2>1. page \in SUBSET Nat
    BY <1>0, <1>1
  <2> HIDE DEF page
  <2> QED
    BY <2>1, SmallestFacts
<1> HIDE DEF page
<1>3. /\ h.kind = f.kind /\ h.latest = f.latest /\ h.held = f.held /\ h.fresh = f.fresh
      /\ h.got = f.got \cup (IF f.before = Beyond \/ f.kind = "older" THEN page
                             ELSE {n \in page : n \notin f.held /\ n > f.latest})
      /\ Bridging(f) => /\ ~h.done /\ page # {} /\ h.before = Smallest(page)
                        /\ h.before \in page
      /\ ~Bridging(f) => h.done /\ h.before = f.before
  BY DEF PageRead, page
<1>4. h.got \subseteq Real
  BY <1>0, <1>1, <1>3
<1>5. Bridging(f) <=> /\ f.kind # "older" /\ f.latest # 0 /\ Cardinality(page) = PageSize
                      /\ Smallest(page) > f.latest
  BY DEF Bridging, page
<1>6. CASE f.kind = "older"
  <2>1. OlderOK(f) /\ ~Bridging(f)
    BY <1>5, <1>6 DEF FetchOK
  <2>2. h.got = f.got \cup page /\ h.before = f.before
    BY <1>3, <1>6, <2>1
  <2>3. ASSUME NEW k \in h.got, NEW n \in Real, k < n, n < f.before
        PROVE  n \in h.got
    <3>1. CASE k \in f.got
      BY <2>1, <2>2, <2>3, <3>1 DEF OlderOK
    <3>2. CASE k \in page
      <4>1. k \in Nat /\ n \in Nat /\ k <= n
        BY <1>0, <1>1, <2>3, <3>2
      <4>2. \A m \in Real : k <= m /\ m < f.before => m \in page
        BY <1>1, <3>2
      <4>3. n \in page
        BY <2>3, <4>1, <4>2
      <4> QED
        BY <2>2, <4>3
    <3> QED
      BY <2>2, <3>1, <3>2
  <2>4. OlderOK(h)
    BY <2>1, <2>2, <2>3 DEF OlderOK
  <2> QED
    BY <1>3, <1>4, <1>6, <2>4 DEF FetchOK
<1>7. CASE f.kind # "older"
  <2>1. CursorOK(f) /\ BridgeOK(f) /\ BroughtOK(f)
    BY <1>7 DEF FetchOK
  \* The first page, and the others.
  <2>2. f.before = Beyond => f.got = {} /\ h.got = page
    BY <1>0, <1>3, <2>1 DEF CursorOK, HasRead
  <2>3. f.before # Beyond =>
          /\ f.got # {} /\ f.latest # 0
          /\ h.got = f.got \cup {n \in page : n \notin f.held /\ n > f.latest}
    BY <1>0, <1>3, <1>7, <2>1 DEF CursorOK
  <2>4. h.before # Beyond => h.got # {} /\ (h.latest # 0 \/ h.done)
    <3>1. CASE Bridging(f)
      BY <1>3, <1>5, <2>2, <2>3, <3>1
    <3>2. CASE ~Bridging(f)
      BY <1>3, <2>3, <3>2
    <3> QED
      BY <3>1, <3>2
  <2>5. HasRead(h)
    <3>1. CASE Bridging(f)
      <4>1. h.before \in Real
        BY <1>1, <1>3, <3>1
      <4>2. h.before \in Nat /\ h.before < Beyond
        BY <1>0, <4>1
      <4>3. h.before # Beyond
        BY <4>2
      <4> QED
        BY <4>3 DEF HasRead
    <3>2. CASE ~Bridging(f)
      BY <1>3, <3>2 DEF HasRead
    <3> QED
      BY <3>1, <3>2
  <2>6. CursorOK(h)
    BY <1>3, <2>1, <2>4, <2>5 DEF CursorOK
  <2>7. ASSUME NEW k \in h.got, NEW n \in Real, k < n, n <= f.latest
        PROVE  n \in h.got
    <3>1. CASE k \in f.got
      BY <1>3, <2>1, <2>7, <3>1 DEF BridgeOK
    <3>2. CASE f.before = Beyond /\ k \in page
      BY <1>0, <1>1, <2>2, <2>7, <3>2
    <3>3. CASE f.before # Beyond /\ k \notin f.got
      <4>1. k > f.latest
        BY <2>3, <2>7, <3>3
      <4>2. k \in Nat /\ n \in Nat /\ f.latest \in Nat
        BY <1>0, <1>4, <2>7
      <4> QED
        BY <2>7, <4>1, <4>2
    <3> QED
      BY <2>2, <3>1, <3>2, <3>3
  <2>8. BridgeOK(h)
    BY <1>3, <2>1, <2>7 DEF BridgeOK
  \* Between the new cursor and the old one all rows are in the answer or in the cache.
  <2>9. ASSUME NEW n \in page, n > f.latest
        PROVE  InReach(h, n)
    <3>1. f.held \subseteq Ids
      BY <2>1 DEF CursorOK
    <3> QED
      BY <2>2, <2>3, <2>9, <3>1 DEF InReach, Coming
  <2>10. ASSUME f.fresh, online, NEW n \in Real, n >= f.before
         PROVE  InReach(h, n)
    <3>1. f.before # Beyond
      BY <1>0, <2>10, StoreAssumption DEF Beyond
    <3>2. InReach(f, n)
      BY <1>0, <2>1, <2>10, <3>1 DEF BroughtOK, HasRead
    <3> QED
      BY <1>3, <3>2 DEF InReach
  <2>11. ASSUME f.fresh, online, ~h.done, NEW n \in Real, n >= h.before
         PROVE  InReach(h, n)
    <3>1. /\ Bridging(f) /\ h.before \in page /\ h.before > f.latest
      BY <1>3, <1>5, <2>11
    <3>2. CASE n >= f.before
      BY <2>10, <2>11, <3>2
    <3>3. CASE n < f.before
      <4>1. n \in page
        BY <1>1, <2>11, <3>1, <3>3
      <4>2. n \in Nat /\ h.before \in Nat /\ f.latest \in Nat
        BY <1>0, <1>1, <3>1
      <4>3. n > f.latest
        BY <2>11, <3>1, <4>2
      <4> QED
        BY <2>9, <4>1, <4>3
    <3>4. n \in Nat /\ f.before \in Nat
      BY <1>0
    <3> QED
      BY <3>2, <3>3, <3>4
  <2>12. ASSUME f.fresh, online, h.done, f.latest # 0, NEW n \in Real, n > f.latest
         PROVE  InReach(h, n)
    <3>1. CASE n >= f.before
      BY <2>10, <2>12, <3>1
    <3>2. CASE n < f.before
      <4>1. Cardinality(page) # PageSize \/ (page # {} /\ ~ (Smallest(page) > f.latest))
        BY <1>1, <1>3, <1>5, <1>7, <2>12
      <4>2. n \in page
        <5>1. CASE Cardinality(page) # PageSize
          BY <1>1, <3>2, <5>1
        <5>2. CASE page # {} /\ ~ (Smallest(page) > f.latest)
          <6>1. PICK s \in page : s = Smallest(page)
            BY <1>2, <5>2
          <6>2. s \in Nat /\ n \in Nat /\ f.latest \in Nat
            BY <1>0, <1>1
          <6>3. s <= n
            BY <2>12, <5>2, <6>1, <6>2
          <6> QED
            BY <1>1, <3>2, <6>3
        <5> QED
          BY <4>1, <5>1, <5>2
      <4> QED
        BY <2>9, <2>12, <4>2
    <3>3. n \in Nat /\ f.before \in Nat
      BY <1>0
    <3> QED
      BY <3>1, <3>2, <3>3
  <2>13. ASSUME f.fresh, online, f.latest = 0, NEW n \in Real,
                h.got = {} \/ \E k \in h.got : k < n
         PROVE  InReach(h, n)
    <3>1. f.before = Beyond /\ h.got = page
      BY <2>2, <2>3, <2>13
    <3>2. n < f.before
      BY <1>0, <3>1
    <3>3. n \in page
      <4>1. CASE page = {}
        BY <1>1, <3>2, <4>1
      <4>2. ASSUME NEW k \in page, k < n
            PROVE  n \in page
        <5>1. k <= n
          BY <1>0, <1>1, <4>2
        <5> QED
          BY <1>1, <3>2, <5>1
      <4> QED
        BY <2>13, <3>1, <4>1, <4>2
    <3> QED
      BY <3>1, <3>3 DEF InReach
  <2>14. BroughtOK(h)
    BY <1>3, <2>11, <2>12, <2>13 DEF BroughtOK
  <2> QED
    BY <1>3, <1>4, <1>7, <2>6, <2>8, <2>14 DEF FetchOK
<1> QED
  BY <1>6, <1>7

-----------------------------------------------------------------------------
(* The screen: nothing is missing that nobody is fetching *)

Scrolled == StoredIds = {} => hasOlder # "yes" /\ (loaded => hasOlder = "no")

Settling == ~online \/ ~loaded \/ stale \/ \E f \in fetches : f.kind = "reload" /\ f.fresh

NoHole == ~Settling => \A n \in Real : n \in Coming \/ Older(n)

StoreInv == RowsFit /\ (\A f \in fetches : FetchOK(f)) /\ Scrolled /\ NoHole

LEMMA FetchTyped ==
    ASSUME RowsFit, NEW f \in fetches
    PROVE  /\ f \in Fetch /\ f.got \subseteq Real /\ f.got \in SUBSET Nat
           /\ f.latest \in Nat /\ f.before \in Nat
           /\ StoredIds \subseteq Real /\ Real \in SUBSET Nat /\ StoredIds \subseteq Ids
<1>1. f \in Fetch /\ f.got \subseteq Real
  BY DEF RowsFit, StoreTypeOK, Backed
<1>2. f.latest \in 0 .. MaxLog /\ f.before \in 1 .. Beyond
  BY <1>1 DEF Fetch
<1>3. MaxLog \in Nat
  BY StoreAssumption
<1>4. f.latest \in Nat
  BY <1>2, <1>3
<1>5. f.before \in Nat
  BY <1>2, <1>3 DEF Beyond
<1>6. Real \in SUBSET Nat
  BY RealFacts DEF RowsFit
<1>7. StoredIds \subseteq Real /\ StoredIds \subseteq Ids
  BY DEF RowsFit, RowOK, StoredIds, Ids
<1> QED
  BY <1>1, <1>4, <1>5, <1>6, <1>7

LEMMA QuietStep ==
    ASSUME StoreInv, RowsFit', Quiet
    PROVE  StoreInv'
<1>1. ASSUME NEW f \in fetches
      PROVE  FetchOK(f)'
  <2>1. f \in Fetch /\ f.got \subseteq Real /\ FetchOK(f) /\ SameCall(f, f)
    BY FetchTyped DEF StoreInv, SameCall
  <2> QED
    BY <2>1, FetchFrame DEF StoreInv, Quiet
<1>2. Scrolled'
  BY DEF StoreInv, Scrolled, Quiet
<1>3. NoHole'
  <2>1. SUFFICES ASSUME ~Settling', NEW n \in Real'
                 PROVE  n \in Coming' \/ Older(n)'
    BY DEF NoHole
  <2>2. ~Settling /\ Coming \subseteq Coming' /\ StoredIds' = StoredIds
    BY <2>1 DEF Settling, Quiet
  <2>3. CASE n \in Real
    BY <2>2, <2>3 DEF StoreInv, NoHole, Older
  <2>4. CASE n \notin Real
    BY <2>4 DEF Quiet, Coming
  <2> QED
    BY <2>3, <2>4
<1> QED
  BY <1>1, <1>2, <1>3 DEF StoreInv, Quiet

\* A request begins.
LEMMA AskStep ==
    ASSUME StoreInv, StoreTypeOK',
           Prefetch \/ OpenConversation \/ SidebarMoved \/ LoadOlder
    PROVE  StoreInv'
<1> USE DEF serverVars
<1> DEFINE Asked(f) == f.got = {} /\ FetchOK(f)
<1>0. \A kind \in {"load", "reload"} : Asked(NewFetch(kind, Beyond))
  BY NewFetchOK DEF NewFetch, StoreInv
<1>1. /\ UNCHANGED <<history, outbox, orphans, online, wire, post, cached, loaded, stale>>
      /\ \A f \in fetches' : f \in fetches \/ Asked(f)
      /\ fetches \subseteq fetches'
      /\ hasOlder' = hasOlder \/ hasOlder' = "no"
  <2> DEFINE Asks == /\ UNCHANGED <<history, outbox, orphans, online, wire, post, cached, loaded, stale>>
                     /\ \A f \in fetches' : f \in fetches \/ Asked(f)
                     /\ fetches \subseteq fetches'
                     /\ hasOlder' = hasOlder \/ hasOlder' = "no"
  <2>1. LoadConversation => \A f \in fetches' : f \in fetches \/ Asked(f)
    BY <1>0 DEF LoadConversation
  <2>2. LoadConversation => fetches \subseteq fetches'
    BY DEF LoadConversation
  <2>3. CASE Prefetch
    BY <2>1, <2>2, <2>3 DEF Prefetch
  <2>4. CASE OpenConversation
    BY <2>1, <2>2, <2>4 DEF OpenConversation
  <2>5. CASE SidebarMoved
    BY <1>0, <2>5 DEF SidebarMoved
  <2>6. CASE LoadOlder
    <3>1. StoredIds # {}
      BY <2>6 DEF LoadOlder, StoreInv, Scrolled
    <3>2. StoredIds \in SUBSET Nat
      BY StoredIdsType DEF StoreInv, RowsFit
    <3>3. PICK b \in StoredIds : b = Smallest(StoredIds)
      BY <3>1, <3>2, SmallestFacts
    <3>4. Asked(NewFetch("older", b))
      BY NewOlderOK DEF NewFetch, StoreInv
    <3>5. IF b <= 1 THEN hasOlder' = "no" /\ UNCHANGED fetches
          ELSE fetches' = fetches \cup {NewFetch("older", b)} /\ UNCHANGED hasOlder
      BY <2>6, <3>1, <3>3 DEF LoadOlder
    <3>6. UNCHANGED <<history, outbox, orphans, online, wire, post, cached, loaded, stale>>
      BY <2>6 DEF LoadOlder
    <3> HIDE DEF Asked
    <3> QED
      BY <3>4, <3>5, <3>6
  <2> HIDE DEF Asked
  <2> QED
    BY <2>3, <2>4, <2>5, <2>6
<1>2. Real' = Real
  BY <1>1 DEF Real
<1>3. Backed'
  BY <1>1, <1>2 DEF StoreInv, RowsFit, Backed
<1>7. /\ RowsFit' /\ Ids' = Ids /\ StoredIds' = StoredIds /\ Coming' = Coming
  BY <1>1, <1>3, SameRows DEF StoreInv, Coming
<1>4. \A f \in fetches' : FetchOK(f)'
  <2>1. \A f : FetchOK(f)' <=> FetchOK(f)
    BY <1>1, <1>2, <1>7 DEF FetchOK, OlderOK, CursorOK, BridgeOK, BroughtOK, HasRead, InReach
  <2> QED
    BY <1>1, <2>1 DEF StoreInv
<1>5. Scrolled'
  BY <1>1, <1>7 DEF StoreInv, Scrolled
<1>6. NoHole'
  BY <1>1, <1>2, <1>7 DEF StoreInv, NoHole, Settling, Older
<1> QED
  BY <1>4, <1>5, <1>6, <1>7 DEF StoreInv

\* A request is answered with a page.
LEMMA ReadStep ==
    ASSUME StoreInv, StoreTypeOK', NEW f \in fetches, ReadPage(f)
    PROVE  StoreInv'
<1> USE DEF serverVars
<1>1. UNCHANGED <<history, outbox, orphans, online, wire, post, cached, loaded, stale, hasOlder>>
  BY DEF ReadPage
<1>2. PICK h \in Fetch : PageRead(f, h) /\ fetches' = (fetches \ {f}) \cup {h}
  BY ReadPageFacts DEF StoreInv, RowsFit
<1>3. FetchOK(h) /\ h.got \subseteq Real
  BY <1>2, PageReadOK DEF StoreInv
<1>4. Real' = Real
  BY <1>1 DEF Real
<1>5. Backed'
  BY <1>1, <1>2, <1>3, <1>4 DEF StoreInv, RowsFit, Backed
<1>6. RowsFit' /\ Ids' = Ids /\ StoredIds' = StoredIds /\ Coming' = Coming
  BY <1>1, <1>5, SameRows DEF StoreInv, Coming
<1>7. \A g \in fetches' : FetchOK(g)'
  <2>1. \A g : FetchOK(g)' <=> FetchOK(g)
    BY <1>1, <1>4, <1>6 DEF FetchOK, OlderOK, CursorOK, BridgeOK, BroughtOK, HasRead, InReach
  <2> QED
    BY <1>2, <1>3, <2>1 DEF StoreInv
<1>8. Scrolled'
  BY <1>1, <1>6 DEF StoreInv, Scrolled
<1>9. NoHole'
  <2>1. h.kind = f.kind /\ h.fresh = f.fresh
    BY <1>2 DEF PageRead
  <2>2. ~Settling' => ~Settling
    BY <1>1, <1>2, <2>1 DEF Settling
  <2> QED
    BY <1>1, <1>4, <1>6, <2>2 DEF StoreInv, NoHole, Older
<1> QED
  BY <1>6, <1>7, <1>8, <1>9 DEF StoreInv

\* A request fails: what a failed reload may have left out is remembered as stale.
LEMMA FailStep ==
    ASSUME StoreInv, StoreTypeOK', NEW f \in fetches, FetchFails(f)
    PROVE  StoreInv'
<1> USE DEF serverVars
<1>1. /\ UNCHANGED <<history, outbox, orphans, online, wire, post, cached, loaded, hasOlder>>
      /\ fetches' = fetches \ {f} /\ stale' = (stale \/ (f.kind = "reload" /\ loaded))
  BY DEF FetchFails
<1>2. Real' = Real
  BY <1>1 DEF Real
<1>3. Backed'
  BY <1>1, <1>2 DEF StoreInv, RowsFit, Backed
<1>4. RowsFit' /\ Ids' = Ids /\ StoredIds' = StoredIds /\ Coming' = Coming
  BY <1>1, <1>3, SameRows DEF StoreInv, Coming
<1>5. \A g \in fetches' : FetchOK(g)'
  <2>1. \A g : FetchOK(g)' <=> FetchOK(g)
    BY <1>1, <1>2, <1>4 DEF FetchOK, OlderOK, CursorOK, BridgeOK, BroughtOK, HasRead, InReach
  <2> QED
    BY <1>1, <2>1 DEF StoreInv
<1>6. Scrolled'
  BY <1>1, <1>4 DEF StoreInv, Scrolled
<1>7. NoHole'
  <2>1. ~Settling' => ~Settling
    BY <1>1 DEF Settling
  <2> QED
    BY <1>1, <1>2, <1>4, <2>1 DEF StoreInv, NoHole, Older
<1> QED
  BY <1>4, <1>5, <1>6, <1>7 DEF StoreInv

\* The socket is back: nothing that was read before is fresh, and the open conversation
\* is fetched again.
LEMMA HelloStep ==
    ASSUME StoreInv, StoreTypeOK', Hello
    PROVE  StoreInv'
<1> USE DEF serverVars
<1> DEFINE Judged(f) == [f EXCEPT !.fresh = f.fresh /\ f.got = {} /\ ~f.done]
<1>0. PICK new \in Fetch : new = NewFetch("reload", Beyond)
  <2>1. Beyond \in 1 .. Beyond
    BY StoreAssumption DEF Beyond
  <2> QED
    BY <2>1, NewFetchType DEF StoreInv, RowsFit
<1>1. /\ UNCHANGED <<history, outbox, orphans, wire, post, cached, hasOlder, stale>>
      /\ loaded' = (loaded /\ open)
      /\ fetches' = {Judged(f) : f \in fetches} \cup (IF open THEN {new} ELSE {})
  BY <1>0, Zenon DEF Hello
<1>2. Real' = Real
  BY <1>1 DEF Real
<1>3. ASSUME NEW f \in fetches
      PROVE  /\ Judged(f) \in Fetch /\ SameCall(f, Judged(f))
             /\ f.kind # "older" /\ Judged(f).fresh => ~HasRead(f)
  <2>1. f \in Fetch /\ FetchOK(f)
    BY FetchTyped DEF StoreInv
  <2> DEFINE b == f.fresh /\ f.got = {} /\ ~f.done
             g == Judged(f)
  <2>2. b \in BOOLEAN
    BY <2>1 DEF Fetch
  <2>3. g = [f EXCEPT !.fresh = b]
    OBVIOUS
  <2> HIDE DEF b, g
  <2>4. /\ g \in Fetch /\ g.kind = f.kind /\ g.latest = f.latest /\ g.held = f.held
        /\ g.fresh = b /\ g.got = f.got /\ g.done = f.done /\ g.before = f.before
    BY <2>1, <2>2, <2>3, FreshField
  <2>5. b => f.fresh /\ f.got = {} /\ ~f.done
    BY DEF b
  <2>6. SameCall(f, g)
    BY <2>4, <2>5 DEF SameCall
  <2>7. f.kind # "older" /\ g.fresh => ~HasRead(f)
    BY <2>1, <2>4, <2>5 DEF HasRead, FetchOK, CursorOK
  <2> QED
    BY <2>4, <2>6, <2>7 DEF g
<1> HIDE DEF Judged
<1>4. /\ new.got = {} /\ new.kind = "reload" /\ new.fresh = TRUE /\ FetchOK(new)
      /\ SameCall(new, new) /\ ~HasRead(new)
  <2>1. /\ new.got = {} /\ new.kind = "reload" /\ new.fresh = TRUE
        /\ new.before = Beyond /\ new.done = FALSE
    BY <1>0 DEF NewFetch
  <2>2. FetchOK(new)
    BY <1>0, NewFetchOK DEF StoreInv
  <2> QED
    BY <2>1, <2>2 DEF SameCall, HasRead
<1>5. Backed'
  BY <1>1, <1>2, <1>3, <1>4 DEF StoreInv, RowsFit, Backed, SameCall
<1>6. RowsFit' /\ Ids' = Ids /\ StoredIds' = StoredIds /\ Coming' = Coming
  BY <1>1, <1>5, SameRows DEF StoreInv, Coming
<1>7. \A g \in fetches' : FetchOK(g)'
  <2>1. ASSUME NEW f \in fetches
        PROVE  FetchOK(Judged(f))'
    BY <1>2, <1>3, <1>6, FetchTyped, FetchFrame DEF StoreInv
  <2>2. FetchOK(new)'
    <3>1. new.got \subseteq Real
      BY <1>4
    <3> QED
      BY <1>0, <1>2, <1>4, <1>6, <3>1, FetchFrame DEF StoreInv
  <2> QED
    BY <1>1, <2>1, <2>2
<1>8. Scrolled'
  BY <1>1, <1>6 DEF StoreInv, Scrolled
<1>9. NoHole'
  <2>1. Settling'
    BY <1>1, <1>4 DEF Settling
  <2> QED
    BY <2>1 DEF NoHole
<1> QED
  BY <1>6, <1>7, <1>8, <1>9 DEF StoreInv

\* What comes in by an event or an answer leaves one row for each message.
LEMMA TakenRows ==
    ASSUME RowsFit, StoreTypeOK', NEW G \in SUBSET Real, TakesIn(G),
           UNCHANGED <<history, outbox, orphans, post>>, wire' \subseteq wire,
           \A f \in fetches' : f.got \subseteq Real
    PROVE  /\ RowsFit' /\ Real' = Real
           /\ Ids' = Ids \cup G /\ StoredIds' = StoredIds \cup G
<1>1. /\ \A r \in cached' : RowOK(r)'
      /\ OneRow'
      /\ Ids' = Ids \cup G /\ StoredIds' = StoredIds \cup G
      /\ \A c \in ClientIds : (\A n \in Real : history[n] # c) /\ (\A r \in cached : r.client # c)
           => \A r \in cached' : r.client # c
  BY TakenIn
<1>2. Real' = Real
  BY DEF Real
<1>3. Backed' /\ Idempotent'
  BY <1>2 DEF RowsFit, Backed, Idempotent
<1>4. Unused'
  BY <1>1, <1>2 DEF RowsFit, Unused, Untouched
<1> QED
  BY <1>1, <1>2, <1>3, <1>4 DEF RowsFit

\* A late event is an island, and every fetch hears of it; any other keeps the cache
\* without a hole.
LEMMA EventStep ==
    ASSUME StoreInv, StoreTypeOK', NEW n \in Numbers, MessageNew(n)
    PROVE  StoreInv'
<1> USE DEF serverVars
<1> DEFINE Judged(f) == [f EXCEPT !.fresh = f.fresh /\ ~Late(n)]
<1>1. /\ UNCHANGED <<history, outbox, orphans, online, post, loaded, hasOlder>>
      /\ n \in wire /\ wire' = wire \ {n} /\ stale' = (stale \/ Late(n))
      /\ cached' = (cached \ Prior(n)) \cup {Stored(n)}
      /\ fetches' = {Judged(f) : f \in fetches}
  BY Zenon DEF MessageNew
<1>2. n \in Real
  BY <1>1 DEF StoreInv, RowsFit, Backed
<1>3. ASSUME NEW f \in fetches
      PROVE  /\ Judged(f) \in Fetch /\ SameCall(f, Judged(f))
             /\ Judged(f).fresh => f.fresh /\ ~Late(n)
  <2>1. f \in Fetch
    BY FetchTyped DEF StoreInv
  <2> DEFINE b == f.fresh /\ ~Late(n)
             g == Judged(f)
  <2>2. b \in BOOLEAN
    BY <2>1 DEF Fetch
  <2>3. g = [f EXCEPT !.fresh = b]
    OBVIOUS
  <2> HIDE DEF b, g
  <2>4. /\ g \in Fetch /\ g.kind = f.kind /\ g.latest = f.latest /\ g.held = f.held
        /\ g.fresh = b /\ g.got = f.got /\ g.done = f.done /\ g.before = f.before
    BY <2>1, <2>2, <2>3, FreshField
  <2>5. b => f.fresh /\ ~Late(n)
    BY DEF b
  <2> QED
    BY <2>4, <2>5 DEF g, SameCall
<1> HIDE DEF Judged
<1>4. RowsFit' /\ Real' = Real /\ Ids' = Ids \cup {n} /\ StoredIds' = StoredIds \cup {n}
  <2>1. TakesIn({n})
    BY <1>1, <1>2, EventTakesIn DEF StoreInv
  <2>2. \A f \in fetches' : f.got \subseteq Real
    BY <1>1, <1>3, FetchTyped DEF StoreInv, SameCall
  <2> QED
    BY <1>1, <1>2, <2>1, <2>2, TakenRows DEF StoreInv
<1>5. Coming \subseteq Coming'
  BY <1>1, <1>4 DEF Coming
<1>6. StoredIds \in SUBSET Nat /\ Real \in SUBSET Nat
  BY StoredIdsType, RealFacts DEF StoreInv, RowsFit
<1>7. ASSUME ~Late(n), NEW m \in Real, n < m, StoredIds # {}
      PROVE  \E s \in StoredIds : s <= m
  <2>1. PICK s \in StoredIds : s = Smallest(StoredIds)
    BY <1>6, <1>7, SmallestFacts
  <2> QED
    BY <1>6, <1>7, <2>1 DEF Late
<1>8. \A g \in fetches' : FetchOK(g)'
  <2>0. TAKE g \in fetches'
  <2>1. PICK f \in fetches : g = Judged(f)
    BY <1>1
  <2>2. /\ f \in Fetch /\ f.got \subseteq Real /\ f.latest \in Nat /\ FetchOK(f)
        /\ g \in Fetch /\ SameCall(f, g)
        /\ g.fresh => f.fresh /\ ~Late(n)
    BY <1>3, <2>1, FetchTyped DEF StoreInv
  <2>3. ASSUME f.kind # "older", g.fresh, f.latest # 0,
               NEW m \in Real, n <= m, m <= f.latest
        PROVE  m \in StoredIds'
    <3>1. BridgeOK(f)
      BY <2>2, <2>3 DEF FetchOK
    <3>2. CASE m = n
      BY <1>4, <3>2
    <3>3. CASE n < m
      <4>1. PICK s \in StoredIds : s <= m
        BY <1>7, <2>2, <2>3, <3>1, <3>3 DEF BridgeOK
      <4>2. m \in StoredIds
        BY <2>2, <2>3, <3>1, <4>1 DEF BridgeOK
      <4> QED
        BY <1>4, <4>2
    <3> QED
      BY <1>2, <1>6, <2>3, <3>2, <3>3
  <2>4. /\ Ids \subseteq Ids' /\ StoredIds \subseteq StoredIds'
        /\ \A a \in StoredIds' : a \in StoredIds \/ a = n
    BY <1>4
  <2> QED
    BY <1>1, <1>4, <1>5, <2>2, <2>3, <2>4, FetchFrame DEF StoreInv
<1>9. Scrolled'
  BY <1>4 DEF Scrolled
<1>10. NoHole'
  <2>1. SUFFICES ASSUME ~Settling', NEW m \in Real
                 PROVE  m \in Coming' \/ Older(m)'
    BY <1>4 DEF NoHole
  <2>2. ~Late(n) /\ ~stale /\ online /\ loaded
    BY <1>1, <2>1 DEF Settling
  <2>3. ASSUME NEW f \in fetches, f.kind = "reload", f.fresh
        PROVE  FALSE
    <3>1. Judged(f) \in fetches'
      BY <1>1
    <3>2. Judged(f).kind = "reload" /\ Judged(f).fresh
      <4>1. f \in Fetch
        BY FetchTyped DEF StoreInv
      <4>2. Judged(f) = [f EXCEPT !.fresh = TRUE]
        BY <2>2, <2>3, <4>1 DEF Judged, Fetch
      <4> QED
        BY <2>3, <4>1, <4>2, FreshField
    <3> QED
      BY <2>1, <3>1, <3>2 DEF Settling
  <2>4. m \in Coming \/ Older(m)
    BY <2>2, <2>3 DEF StoreInv, NoHole, Settling
  <2>5. CASE Older(m) /\ m # n
    <3>1. ~ (n < m)
      BY <1>6, <1>7, <2>2, <2>5 DEF Older
    <3>2. m < n
      BY <1>2, <1>6, <2>5, <3>1
    <3> QED
      BY <1>4, <2>5, <3>2 DEF Older
  <2>6. n \in Coming'
    <3>1. n # 0
      BY <1>2, RealFacts, StoreAssumption DEF StoreInv, RowsFit, Numbers
    <3> QED
      BY <1>4 DEF Coming
  <2> QED
    BY <1>5, <2>4, <2>5, <2>6
<1> QED
  BY <1>4, <1>8, <1>9, <1>10 DEF StoreInv

\* An answer leaves no hole under what another fetch takes the cache to be complete for.
LEMMA AnswerBridges ==
    ASSUME StoreInv, NEW f \in fetches, NEW g \in fetches, ~Unbridged(f),
           g.kind # "older", g.fresh, g.latest # 0,
           NEW a \in f.got, NEW n \in Real, a <= n, n <= g.latest
    PROVE  n \in StoredIds \cup f.got
<1>1. /\ FetchOK(f) /\ FetchOK(g) /\ f.got \in SUBSET Nat /\ Real \in SUBSET Nat
      /\ f.before \in Nat /\ f.latest \in Nat /\ g.latest \in Nat
  BY FetchTyped DEF StoreInv
<1>2. BridgeOK(g)
  BY <1>1 DEF FetchOK
<1>3. \A b \in StoredIds : b <= n => n \in StoredIds
  BY <1>2 DEF BridgeOK
<1>4. g.latest \in StoredIds
  BY <1>2 DEF BridgeOK
<1>5. CASE f.kind = "older"
  <2>1. OlderOK(f)
    BY <1>1, <1>5 DEF FetchOK
  <2>2. CASE n < f.before
    <3>1. a = n \/ a < n
      BY <1>1
    <3> QED
      BY <2>1, <2>2, <3>1 DEF OlderOK
  <2>3. CASE f.before <= n
    BY <1>3, <2>1, <2>3 DEF OlderOK
  <2> QED
    BY <1>1, <2>2, <2>3
<1>6. CASE f.kind # "older" /\ f.latest # 0 /\ f.fresh
  <2>1. BridgeOK(f)
    BY <1>1, <1>6 DEF FetchOK
  <2>2. CASE n <= f.latest
    <3>1. a = n \/ a < n
      BY <1>1
    <3> QED
      BY <2>1, <2>2, <3>1 DEF BridgeOK
  <2>3. CASE f.latest <= n
    BY <1>3, <1>6, <2>1, <2>3 DEF BridgeOK
  <2> QED
    BY <1>1, <2>2, <2>3
<1>7. CASE f.kind # "older" /\ (f.latest = 0 \/ ~f.fresh)
  <2>1. SUFFICES ASSUME n \notin StoredIds, n \notin f.got
                 PROVE  FALSE
    OBVIOUS
  <2>2. a < n /\ n < g.latest
    BY <1>1, <1>4, <2>1
  <2> QED
    BY <1>4, <1>7, <2>1, <2>2 DEF Unbridged
<1> QED
  BY <1>5, <1>6, <1>7

\* A fetch answers: its rows and what came meanwhile are all there is from the oldest
\* row on, or the cache is known to be stale.
LEMMA AnswerStep ==
    ASSUME StoreInv, StoreTypeOK', NEW f \in fetches, FetchAnswers(f)
    PROVE  StoreInv'
<1> USE DEF serverVars
<1> DEFINE Judged(g) == [g EXCEPT !.fresh = g.fresh /\ ~Unbridged(f)]
<1>1. /\ UNCHANGED <<history, outbox, orphans, online, wire, post>>
      /\ f.done /\ cached' = Merged(f.got)
      /\ loaded' = (loaded \/ f.kind # "older") /\ hasOlder' = OlderAfter(f)
      /\ stale' = IF f.kind = "older" THEN stale
                  ELSE Unbridged(f) \/ (IF f.fresh THEN FALSE ELSE stale \/ ~loaded)
      /\ fetches' = {Judged(g) : g \in fetches \ {f}}
  BY Zenon DEF FetchAnswers
<1>2. ASSUME NEW g \in fetches
      PROVE  /\ Judged(g) \in Fetch /\ SameCall(g, Judged(g))
             /\ Judged(g).fresh <=> g.fresh /\ ~Unbridged(f)
  <2>1. g \in Fetch
    BY FetchTyped DEF StoreInv
  <2> DEFINE b == g.fresh /\ ~Unbridged(f)
             h == Judged(g)
  <2>2. b \in BOOLEAN
    BY <2>1 DEF Fetch
  <2>3. h = [g EXCEPT !.fresh = b]
    OBVIOUS
  <2> HIDE DEF b, h
  <2>4. /\ h \in Fetch /\ h.kind = g.kind /\ h.latest = g.latest /\ h.held = g.held
        /\ h.fresh = b /\ h.got = g.got /\ h.done = g.done /\ h.before = g.before
    BY <2>1, <2>2, <2>3, FreshField
  <2>5. b <=> g.fresh /\ ~Unbridged(f)
    BY DEF b
  <2> QED
    BY <2>4, <2>5 DEF h, SameCall
<1> HIDE DEF Judged
<1>3. /\ FetchOK(f) /\ f.got \subseteq Real /\ f.got \in SUBSET Nat /\ Real \in SUBSET Nat
      /\ StoredIds \subseteq Real /\ f.latest \in Nat /\ f.before \in Nat /\ f \in Fetch
  BY FetchTyped DEF StoreInv
<1>4. RowsFit' /\ Real' = Real /\ Ids' = Ids \cup f.got /\ StoredIds' = StoredIds \cup f.got
  <2>1. TakesIn(f.got)
    BY <1>1, <1>3, MergedTakesIn DEF StoreInv, RowsFit, TakesIn
  <2>2. \A g \in fetches' : g.got \subseteq Real
    BY <1>1, <1>2, FetchTyped DEF StoreInv, SameCall
  <2> QED
    BY <1>1, <1>3, <2>1, <2>2, TakenRows DEF StoreInv
<1>5. Coming' = Coming \cup f.got
  BY <1>1, <1>4 DEF Coming
<1>6. \A h \in fetches' : FetchOK(h)'
  <2>1. TAKE h \in fetches'
  <2>2. PICK g \in fetches : h = Judged(g)
    BY <1>1
  <2>3. /\ g \in Fetch /\ g.got \subseteq Real /\ FetchOK(g)
        /\ h \in Fetch /\ SameCall(g, h) /\ (h.fresh => g.fresh /\ ~Unbridged(f))
    BY <1>2, <2>2, FetchTyped DEF StoreInv
  <2>4. ASSUME g.kind # "older", h.fresh, g.latest # 0, NEW n \in Real,
               NEW a \in StoredIds', a \notin StoredIds, a <= n, n <= g.latest
        PROVE  n \in StoredIds'
    <3>1. a \in f.got
      BY <1>4, <2>4
    <3>2. n \in StoredIds \cup f.got
      BY <2>3, <2>4, <3>1, AnswerBridges
    <3> QED
      BY <1>4, <3>2
  <2>5. Ids \subseteq Ids' /\ StoredIds \subseteq StoredIds' /\ Coming \subseteq Coming'
    BY <1>4, <1>5
  <2> QED
    BY <1>1, <1>4, <2>3, <2>4, <2>5, FetchFrame DEF StoreInv
<1>7. Scrolled'
  <2>1. SUFFICES ASSUME StoredIds' = {}
                 PROVE  hasOlder' # "yes" /\ (loaded' => hasOlder' = "no")
    BY DEF Scrolled
  <2>2. StoredIds = {} /\ f.got = {}
    BY <1>4, <2>1
  <2>3. FullPage(f) = "no"
    BY <2>2, FS_EmptySet, StoreAssumption DEF FullPage
  <2>4. hasOlder \in {"unknown", "yes", "no"} /\ hasOlder # "yes"
    BY <2>2 DEF StoreInv, Scrolled, RowsFit, StoreTypeOK
  <2>5. hasOlder' = "no"
    BY <1>1, <2>3, <2>4 DEF OlderAfter
  <2> QED
    BY <2>5
<1>8. NoHole'
  <2>1. SUFFICES ASSUME ~Settling', NEW n \in Real, n \notin Coming'
                 PROVE  Older(n)'
    BY <1>4 DEF NoHole
  <2>2. /\ online /\ (loaded \/ f.kind # "older") /\ ~stale'
        /\ n \notin Coming /\ n \notin f.got /\ n \notin StoredIds
    BY <1>1, <1>5, <2>1, FetchTyped DEF Settling, Coming, StoreInv
  <2>3. ASSUME NEW g \in fetches \ {f}, g.kind = "reload", g.fresh, ~Unbridged(f)
        PROVE  FALSE
    BY <1>1, <1>2, <2>1, <2>3 DEF Settling, SameCall
  <2>4. CASE f.kind = "older"
    <3>1. ~Unbridged(f) /\ ~stale
      BY <1>1, <2>2, <2>4 DEF Unbridged
    <3>2. Older(n)
      BY <2>2, <2>3, <2>4, <3>1 DEF StoreInv, NoHole, Settling
    <3>3. OlderOK(f)
      BY <1>3, <2>4 DEF FetchOK
    <3>4. \A k \in f.got : n < k
      BY <1>3, <2>2, <3>2, <3>3 DEF OlderOK, Older
    <3> QED
      BY <1>4, <3>2, <3>4 DEF Older
  <2>5. CASE f.kind # "older" /\ f.fresh
    <3>1. BridgeOK(f) /\ BroughtOK(f) /\ ~Unbridged(f)
      BY <1>1, <1>3, <2>2, <2>5 DEF FetchOK
    <3>2. ~InReach(f, n)
      BY <2>2 DEF InReach
    <3>3. CASE f.latest # 0
      <4>1. n <= f.latest /\ f.latest \in StoredIds
        BY <1>1, <1>3, <2>2, <2>5, <3>1, <3>2, <3>3 DEF BroughtOK, BridgeOK
      <4>2. \A a \in StoredIds : n < a
        BY <1>3, <2>2, <2>5, <3>1, <3>3, <4>1 DEF BridgeOK
      <4>3. \A k \in f.got : n < k
        BY <1>3, <2>2, <3>1, <4>1 DEF BridgeOK
      <4> QED
        BY <1>4, <4>1, <4>2, <4>3 DEF Older
    <3>4. CASE f.latest = 0
      <4>1. f.got # {} /\ \A k \in f.got : ~ (k < n)
        BY <1>1, <2>2, <2>5, <3>1, <3>2, <3>4 DEF BroughtOK
      <4>2. \A k \in f.got : n < k
        BY <1>3, <2>2, <4>1
      <4>3. \A a \in StoredIds : ~ (a < n)
        BY <2>2, <2>5, <3>1, <3>4, <4>1, <4>2 DEF Unbridged
      <4>4. \A a \in StoredIds : n < a
        BY <1>3, <2>2, <4>3
      <4> QED
        BY <1>4, <4>1, <4>2, <4>4 DEF Older
    <3> QED
      BY <3>3, <3>4
  <2>6. CASE f.kind # "older" /\ ~f.fresh
    <3>1. ~Unbridged(f) /\ ~stale /\ loaded
      BY <1>1, <2>2, <2>6
    <3>2. Older(n)
      BY <2>2, <2>3, <2>6, <3>1 DEF StoreInv, NoHole, Settling
    <3>3. PICK b \in StoredIds : n < b
      BY <3>2 DEF Older
    <3>4. \A k \in f.got : ~ (k < n)
      BY <2>2, <2>6, <3>1, <3>3 DEF Unbridged
    <3>5. \A k \in f.got : n < k
      BY <1>3, <2>2, <3>4
    <3> QED
      BY <1>4, <3>2, <3>5 DEF Older
  <2> QED
    BY <2>4, <2>5, <2>6
<1> QED
  BY <1>4, <1>6, <1>7, <1>8 DEF StoreInv

LEMMA StoreInit_Inv == StoreInit => StoreInv
<1> SUFFICES ASSUME StoreInit
             PROVE  StoreInv
  OBVIOUS
<1> USE DEF StoreInit
<1>1. Real = {} /\ history \in Seq(ClientIds \cup {Other, Gap}) /\ Len(history) = 0
  BY DEF Real
<1>2. StoreTypeOK
  <2>1. Len(history) <= MaxLog /\ mishaps \in 0 .. MaxMishaps
    BY <1>1, StoreAssumption
  <2>2. post \in [ClientIds -> {"unused", "asked", "answered", "idle"}]
    OBVIOUS
  <2>3. /\ outbox \in SUBSET Numbers /\ wire \in SUBSET Numbers /\ orphans \in SUBSET ClientIds
        /\ {online, open, loaded, stale} \subseteq BOOLEAN
        /\ cached \in SUBSET CachedRow /\ fetches \in SUBSET Fetch
        /\ hasOlder \in {"unknown", "yes", "no"}
    OBVIOUS
  <2> QED
    BY <1>1, <2>1, <2>2, <2>3, Zenon DEF StoreTypeOK
<1>3. StoredIds = {}
  BY DEF StoredIds
<1>4. RowsFit
  BY <1>1, <1>2 DEF RowsFit, Backed, OneRow, Idempotent, Unused, Untouched
<1> QED
  BY <1>3, <1>4 DEF StoreInv, Scrolled, NoHole, Settling

LEMMA StoreStep == StoreInv /\ [StoreNext]_storeVars => StoreInv'
<1> SUFFICES ASSUME StoreInv, [StoreNext]_storeVars
             PROVE  StoreInv'
  OBVIOUS
<1>1. RowsFit /\ StoreTypeOK'
  BY StoreTypeStep DEF StoreInv, RowsFit
<1>2. CASE \/ OthersPost \/ InsertRollsBack
           \/ \E c \in ClientIds : PostArrives(c) \/ OrphanArrives(c)
  BY <1>1, <1>2, LogStep, QuietStep
<1>3. CASE \/ \E n \in Numbers : Publish(n) \/ PublishAgain(n)
           \/ CloseConversation \/ SocketCloses \/ UNCHANGED storeVars
  BY <1>1, <1>3, WireStep, QuietStep
<1>4. ASSUME NEW c \in ClientIds,
             \/ SendUserMessage(c) \/ PostAnswers(c) \/ PostRejected(c) \/ PostUnconfirmed(c)
             \/ DiscardFailedMessage(c) \/ RetryFailedMessage(c)
      PROVE  StoreInv'
  BY <1>1, <1>4, QuietSend, QuietStep
<1>5. CASE Prefetch \/ OpenConversation \/ SidebarMoved \/ LoadOlder
  BY <1>1, <1>5, AskStep
<1>6. ASSUME NEW f \in fetches, ReadPage(f) \/ FetchAnswers(f) \/ FetchFails(f)
      PROVE  StoreInv'
  BY <1>1, <1>6, ReadStep, AnswerStep, FailStep
<1>7. CASE Hello
  BY <1>1, <1>7, HelloStep
<1>8. ASSUME NEW n \in Numbers, MessageNew(n)
      PROVE  StoreInv'
  BY <1>1, <1>8, EventStep
<1> QED
  BY <1>2, <1>3, <1>4, <1>5, <1>6, <1>7, <1>8 DEF StoreNext

\* The rows, the fetches and the screen fit together in every reachable state: a row is
\* backed by the log or by a send, what a fetch has read is what it may apply, and the
\* screen has all that lies above what it relies on.
THEOREM StoreIsConsistent == StoreSpec => []StoreInv
<1> QED
  BY StoreInit_Inv, StoreStep, PTL DEF StoreSpec

\* The variables of the message store have their types.
THEOREM StoreTypes == StoreSpec => []StoreTypeOK
<1>1. StoreInv => StoreTypeOK
  BY DEF StoreInv, RowsFit
<1> QED
  BY <1>1, StoreIsConsistent, PTL

\* No message is on the screen twice, and one that is not there is on its way, or is
\* older than all that is cached (mergeFetchedMessages, applyEvent, completeThrough).
THEOREM EachIsShownOnce == StoreSpec => []ShownOnce
<1>1. StoreInv => ShownOnce
  <2> SUFFICES ASSUME StoreInv, NEW n \in Real
               PROVE  /\ Cardinality(Showing(n)) <= 1
                      /\ Showing(n) = {} => OnItsWay(n) \/ Older(n)
    BY DEF ShownOnce
  <2>2. n # 0
    BY RealFacts, StoreAssumption DEF StoreInv, RowsFit, Numbers
  <2>3. ASSUME NEW r \in Showing(n), NEW s \in Showing(n)
        PROVE  r = s
    <3>1. /\ r \in cached /\ (r.id = n \/ (r.client \in ClientIds /\ r.client = history[n]))
          /\ s \in cached /\ (s.id = n \/ (s.client \in ClientIds /\ s.client = history[n]))
      BY DEF Showing
    <3>2. /\ r.id = n => r.client = Author(n)
          /\ s.id = n => s.client = Author(n)
      BY <2>2, <3>1 DEF StoreInv, RowsFit, RowOK
    <3>3. Same(r, s)
      BY <2>2, <3>1, <3>2, AuthorFacts DEF Same, StoreInv, RowsFit
    <3> QED
      BY <3>1, <3>3 DEF StoreInv, RowsFit, OneRow
  <2>4. Cardinality(Showing(n)) <= 1
    <3>1. CASE Showing(n) = {}
      BY <3>1, FS_EmptySet
    <3>2. CASE Showing(n) # {}
      <4>1. PICK r \in Showing(n) : TRUE
        BY <3>2
      <4>2. Showing(n) = {r}
        BY <2>3, <4>1
      <4>3. Cardinality(Showing(n)) = 1
        BY <4>2, FS_Singleton
      <4> QED
        BY <4>3
    <3> QED
      BY <3>1, <3>2
  <2>5. ASSUME Showing(n) = {}
        PROVE  OnItsWay(n) \/ Older(n)
    <3>1. n \notin Ids
      BY <2>5 DEF Showing, Ids
    <3>2. CASE Settling
      BY <3>2 DEF Settling, OnItsWay
    <3>3. CASE ~Settling
      BY <3>1, <3>3 DEF StoreInv, NoHole, Coming, OnItsWay
    <3> QED
      BY <3>2, <3>3
  <2> QED
    BY <2>4, <2>5
<1> QED
  BY <1>1, StoreIsConsistent, PTL

-----------------------------------------------------------------------------
(* The sum of the readers *)

\* A behaviour of the sum is one of each reader, so that what is proved of a reader
\* holds of the behaviours of the run.
LEMMA SumOfReaders == FairReaders => Spec /\ StoreSpec
<1>1. ReadersInit => Init /\ StoreInit
  BY DEF ReadersInit
<1>2. RoomsNext => Next
  BY DEF RoomsNext, Next
<1>3. [ReadersNext]_<<part, vars, storeVars>> => [Next]_vars /\ [StoreNext]_storeVars
  BY <1>2 DEF ReadersNext
<1> QED
  BY <1>1, <1>3, PTL DEF FairReaders, Spec, StoreSpec

\* The inbox and the screen keep their types, whichever a behaviour runs.
THEOREM ReadersTypeCorrect == FairReaders => []ReadersTypeOK
<1>1. TypeOK /\ StoreTypeOK => ReadersTypeOK
  BY DEF ReadersTypeOK
<1> QED
  BY <1>1, SumOfReaders, TypeCorrect, StoreTypes, PTL
=============================================================================
